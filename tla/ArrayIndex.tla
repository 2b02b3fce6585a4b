------------------------------ MODULE ArrayIndex ------------------------------
(***************************************************************************)
(* What a pool expects of its tick array bitmap, without a bitmap: a set   *)
(* of arrays that are flagged, and searches that answer with the nearest   *)
(* flagged array.  A search runs while nothing else does.                  *)
(***************************************************************************)
EXTENDS Integers

VARIABLES
  arrays,   \* the start ticks of all arrays of the pool
  core,     \* those that the pool account can flag without its extension
  flagged,
  search

indexVars == <<arrays, core, flagged, search>>

Ended == {"found", "none", "missing", "idle"}

(* The arrays that would answer a search: the one it starts from, if it    *)
(* may look there, else those that lie strictly ahead.                     *)
Candidates(s) ==
  IF s.first /\ s.from \in flagged THEN {s.from}
  ELSE {a \in flagged : IF s.zero_for_one THEN a < s.from ELSE s.from < a}

(* A search gives up for want of the extension only if it was not given    *)
(* one, and not as long as the pool account alone has an answer for it.    *)
Answers(s) ==
  \/ /\ s.phase = "found"
     /\ s.answer \in Candidates(s)
     /\ \A a \in Candidates(s) : IF s.zero_for_one THEN a <= s.answer ELSE s.answer <= a
  \/ /\ s.phase = "none"
     /\ Candidates(s) = {}
  \/ /\ s.phase = "missing"
     /\ ~s.extension
     /\ s.from \in core => Candidates(s) \cap core = {}

Init ==
  /\ core \subseteq arrays
  /\ flagged = {}
  /\ search.phase = "idle"

Flip ==
  /\ search.phase = "idle"
  /\ \E a \in arrays : flagged' = IF a \in flagged THEN flagged \ {a} ELSE flagged \cup {a}
  /\ UNCHANGED <<arrays, core, search>>

Ask ==
  /\ search.phase = "idle"
  /\ search'.from \in arrays
  /\ search'.phase = "asked" \/ Answers(search')
  /\ UNCHANGED <<arrays, core, flagged>>

Answer ==
  /\ search.phase = "asked"
  /\ \E phase \in Ended : search' = [search EXCEPT !.phase = phase, !.answer = search'.answer]
  /\ Answers(search')
  /\ UNCHANGED <<arrays, core, flagged>>

Forget ==
  /\ search.phase \in Ended \ {"idle"}
  /\ search'.phase = "idle"
  /\ UNCHANGED <<arrays, core, flagged>>

Next == Flip \/ Ask \/ Answer \/ Forget

Spec == Init /\ [][Next]_indexVars
================================================================================
