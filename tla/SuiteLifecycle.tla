---------------------------- MODULE SuiteLifecycle ----------------------------
(***************************************************************************)
(* What the bootstrap of a suite promises, without the machinery: the      *)
(* required modules are sealed one at a time in their fixed order, each    *)
(* with exactly the content committed to before its import began, and the  *)
(* suite becomes active, for good, when all are sealed.                    *)
(***************************************************************************)
EXTENDS Integers

CONSTANTS
  Size,     \* the number of required modules
  Content,  \* what a module can be loaded with
  NoContent

VARIABLES
  committed,  \* position in the order -> the content announced for it
  sealed,     \* position in the order -> the content it was sealed with
  active

lifecycleVars == <<committed, sealed, active>>

LifecycleInit ==
  /\ committed = [i \in 1..Size |-> NoContent]
  /\ sealed = [i \in 1..Size |-> NoContent]
  /\ active = FALSE

\* Every module before position i is sealed, and i itself is not.
Current(i) == \A j \in 1..Size : (j < i) <=> (sealed[j] # NoContent)

Commit(i) ==
  /\ Current(i) /\ committed[i] = NoContent
  /\ committed'[i] \in Content
  /\ committed' = [committed EXCEPT ![i] = committed'[i]]
  /\ UNCHANGED <<sealed, active>>

Seal(i) ==
  /\ Current(i) /\ committed[i] # NoContent
  /\ sealed' = [sealed EXCEPT ![i] = committed[i]]
  /\ UNCHANGED <<committed, active>>

Activate ==
  /\ ~active
  /\ \A i \in 1..Size : sealed[i] # NoContent
  /\ active' = TRUE
  /\ UNCHANGED <<committed, sealed>>

LifecycleNext == (\E i \in 1..Size : Commit(i) \/ Seal(i)) \/ Activate

LifecycleSpec == LifecycleInit /\ [][LifecycleNext]_lifecycleVars
===============================================================================
