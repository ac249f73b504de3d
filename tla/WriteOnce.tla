------------------------------ MODULE WriteOnce ------------------------------
(***************************************************************************)
(* What applying a profile promises: the first profile that is written     *)
(* stays, and a caller is told whether it was its own.  A caller may also  *)
(* get no answer, or an error.  Somebody else may edit or delete what was  *)
(* written; callers are then told what may be out of date, but still never *)
(* overwrite anything.                                                     *)
(***************************************************************************)
CONSTANTS Processes, Values, None

VARIABLES
  value,   \* None, or what has been written
  asked,   \* what each caller wants to write
  stage,   \* "idle", or where the caller is
  answer,  \* what it has been told
  edited   \* somebody else has changed the value

onceVars == <<value, asked, stage, answer, edited>>

OnceInit ==
  /\ value = None
  /\ stage = [p \in Processes |-> "idle"]
  /\ answer = [p \in Processes |-> "none"]
  /\ edited = FALSE

Ask(p) ==
  /\ stage[p] = "idle" /\ stage'[p] # "idle" /\ asked'[p] \in Values
  /\ answer' = [answer EXCEPT ![p] = "none"]
  /\ \A q \in Processes \ {p} : asked'[q] = asked[q] /\ stage'[q] = stage[q]
  /\ UNCHANGED <<value, edited>>

\* Only a caller that has not been answered writes, and only once.
WriteValue(p) ==
  /\ stage[p] # "idle" /\ value = None
  /\ value' = asked[p]
  /\ UNCHANGED <<asked, stage, answer, edited>>

Allowed(p, a) ==
  \/ edited
  \/ a = "ok" /\ value = asked[p]
  \/ a = "drift" /\ value \in Values \ {asked[p]}
  \/ a = "error"

Tell(p) ==
  /\ stage[p] # "idle"
  /\ \E a \in {"ok", "drift", "error"} :
       Allowed(p, a) /\ answer' = [answer EXCEPT ![p] = a]
  /\ stage' = [stage EXCEPT ![p] = "idle"]
  /\ UNCHANGED <<value, asked, edited>>

\* The caller goes on or gives up; nothing is promised in between.
Proceed(p) ==
  /\ stage[p] # "idle"
  /\ \A q \in Processes \ {p} : stage'[q] = stage[q]
  /\ UNCHANGED <<value, asked, answer, edited>>

Edit ==
  /\ value # None /\ edited' = TRUE
  /\ UNCHANGED <<asked, stage, answer>>

OnceNext ==
  Edit \/ \E p \in Processes : Ask(p) \/ WriteValue(p) \/ Tell(p) \/ Proceed(p)
OnceSpec == OnceInit /\ [][OnceNext]_onceVars
=============================================================================
