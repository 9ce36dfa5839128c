----------------------------- MODULE MCPageStore -----------------------------
(***************************************************************************)
(* Small plays of PageStore: two islands whose events are lost, a new      *)
(* session, the start of the page with failing fetches, a connection and a *)
(* stream that come and go, and a warning.                                 *)
(***************************************************************************)
EXTENDS PageStore

Quiet == [isles |-> {"a"}, watched |-> {}, kinds |-> {}, changes |-> 1, drops |-> 0,
          opens |-> 1, fails |-> 0, settled |-> TRUE]

Ticks    == [Quiet EXCEPT !.isles = {"a", "b"}, !.kinds = {"fresh"}, !.drops = 1]
Ended    == [Quiet EXCEPT !.isles = {"a", "b"}, !.kinds = {"end", "fresh"}, !.changes = 2]
Started  == [Quiet EXCEPT !.kinds = {"start", "fresh"}, !.changes = 2]
Missed   == [Quiet EXCEPT !.kinds = {"start", "end", "link"}, !.drops = 1]
Start    == [Quiet EXCEPT !.kinds = {"start"}, !.settled = FALSE]
Failing  == [Quiet EXCEPT !.kinds = {"start", "end"}, !.fails = 1]
BadStart == [Quiet EXCEPT !.changes = 0, !.fails = 1, !.settled = FALSE]
BadOpen  == [Quiet EXCEPT !.watched = {"a"}, !.changes = 0, !.fails = 1]
Away     == [Quiet EXCEPT !.kinds = {"fresh"}, !.opens = 2]
Closing  == [Quiet EXCEPT !.kinds = {"close"}, !.opens = 2]
Warning  == [Quiet EXCEPT !.watched = {"a"}, !.kinds = {"alert", "end"}, !.changes = 2]

OneLost  == [Quiet EXCEPT !.watched = {"a"}, !.kinds = {"alert"}, !.drops = 1]

AllPlays == {Ticks, Ended, Started, Missed, Start, Failing, BadStart, BadOpen,
             Away, Closing, Warning, OneLost}

\* Warnings that come and go while the page starts, with nothing lost.
StartWatched == {[Warning EXCEPT !.settled = FALSE, !.kinds = {"alert"}]}

=============================================================================
