--------------------------- MODULE IdempotentStore ---------------------------
(***************************************************************************)
(* What an Idempotency-Key promises: a call is one indivisible step.  The  *)
(* first call on a slot performs the work and files what it found; a later *)
(* call gets the filed result if it asks for the same thing and is turned  *)
(* away otherwise.                                                         *)
(***************************************************************************)
CONSTANTS Slots, Requests, Results, Empty

VARIABLES
  ledger,   \* slot -> [request, results], or Empty
  answers,  \* the calls answered with a result, and the result
  refused   \* the calls turned away

vars == <<ledger, answers, refused>>

Init ==
  /\ ledger = [s \in Slots |-> Empty]
  /\ answers = {}
  /\ refused = {}

\* The work is done, and filed whatever was found, whether or not its caller
\* lives to hear of it.
Perform(s, r) ==
  LET found == ledger'[s].results IN
    /\ ledger[s] = Empty /\ ledger'[s] # Empty
    /\ found \in Results
    /\ ledger' = [ledger EXCEPT ![s] = [request |-> r, results |-> found]]
    /\ answers' \in {answers, answers \cup
                      {[slot |-> s, request |-> r, results |-> found]}}
    /\ UNCHANGED refused

Replay(s) ==
  /\ ledger[s] # Empty
  /\ answers' = answers \cup {[slot |-> s, request |-> ledger[s].request,
                               results |-> ledger[s].results]}
  /\ UNCHANGED <<ledger, refused>>

TurnAway(s, r) ==
  /\ ledger[s] # Empty /\ ledger[s].request # r
  /\ refused' = refused \cup {[slot |-> s, request |-> r]}
  /\ UNCHANGED <<ledger, answers>>

Next == \E s \in Slots :
          \/ \E r \in Requests : Perform(s, r)
          \/ Replay(s)
          \/ \E r \in Requests : TurnAway(s, r)

Spec == Init /\ [][Next]_vars
==============================================================================
