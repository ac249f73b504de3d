---------------------------- MODULE OwnershipLedger ----------------------------
(***************************************************************************)
(* What the initialization promises about the objects of the providers: it *)
(* claims an object durably before it adds it, it takes back only what it  *)
(* claims and never what the user had when the claim was decided on, and   *)
(* it drops a claim on what it has added only when adding to a provider    *)
(* before the one of the object has failed.                                *)
(***************************************************************************)
EXTENDS Integers

CONSTANTS
  Objects,
  Place     \* the place of an object's provider among the providers

VARIABLES
  claimed,  \* the objects the receipt claims
  ours,     \* those AGX has added
  theirs,   \* those the user had when AGX decided on its claims
  given,    \* those on which the claim is given up
  user      \* counts what the user does

vars == <<claimed, ours, theirs, given, user>>

Init == /\ claimed = {} /\ ours = {} /\ theirs \subseteq Objects
        /\ given = {} /\ user = 0

\* A claim is not made of what the user has.
Claim ==
  /\ claimed \subseteq claimed' /\ (claimed' \ claimed) \cap theirs = {}
  /\ given' = given \ claimed' /\ UNCHANGED <<ours, theirs, user>>

Add == \E o \in claimed :
  ours' = ours \cup {o} /\ UNCHANGED <<claimed, theirs, given, user>>

\* Adding o fails, with or without an effect.
GiveUp == \E o \in claimed :
  /\ ours' \in {ours, ours \cup {o}}
  /\ given' = given \cup {u \in claimed : Place[u] > Place[o]}
  /\ UNCHANGED <<claimed, theirs, user>>

TakeBack == \E o \in ours \cap claimed :
  ours' = ours \ {o} /\ UNCHANGED <<claimed, theirs, given, user>>

Release ==
  /\ claimed' \subseteq claimed /\ ours \cap (claimed \ claimed') \subseteq given
  /\ UNCHANGED <<ours, theirs, given, user>>

UserActs == user' = user + 1 /\ ours' \subseteq ours /\ UNCHANGED <<claimed, given>>

Spec == Init /\ [][Claim \/ Add \/ GiveUp \/ TakeBack \/ Release \/ UserActs]_vars
=============================================================================
