-------------------------- MODULE RotateSecretProofs --------------------------
(***************************************************************************)
(* Theorems about the rotation of the database password, proved for any    *)
(* number of rotations, of invocations of a failed step, of attempts       *)
(* inside a step and of operator retries.                                  *)
(***************************************************************************)
EXTENDS RotateSecret, TLAPS

------------------------------------------------------------------------------
(* The inductive invariant *)

(* The database has, or is about to have, the password of this rotation. *)
Ordered == applying = token \/ (applying = NoVersion /\ dbPassword = token)

(* It has it, and nothing else is on its way. *)
Settled == dbPassword = token /\ applying \in {NoVersion, token}

(* Which steps are behind the rotation: a step is, once its invocation is  *)
(* about to return, and it stays so through retries of the later ones.     *)
SetDone == (step = "set" /\ call = "returning") \/ step \in {"test", "finish", "done"}
TestDone == (step = "test" /\ call = "returning") \/ step \in {"finish", "done"}
FinishDone == (step = "finish" /\ call = "returning") \/ step = "done"

Progress ==
  /\ step = "done" => call = "none"
  /\ SetDone => Ordered
  /\ TestDone => Settled /\ token \in tested
  /\ FinishDone => current = token

RotateInv == TypeOK /\ CurrentWasTested /\ Progress

------------------------------------------------------------------------------
(* Type correctness *)

LEMMA VersionsAreNat ==
  /\ Versions \subseteq Nat /\ NoVersion \in Nat /\ NoVersion \notin Versions /\ 0 \in Versions
BY RotateSecretAssumption DEF RotateSecretAssumption, Versions, NoVersion

LEMMA InitInv == Init => RotateInv
<1> SUFFICES ASSUME Init PROVE RotateInv
  OBVIOUS
<1>1. TypeOK
  BY RotateSecretAssumption, VersionsAreNat
  DEF RotateSecretAssumption, Init, TypeOK, Steps
<1>2. CurrentWasTested
  BY DEF Init, CurrentWasTested
<1>3. Progress
  BY VersionsAreNat DEF Init, Progress, SetDone, TestDone, FinishDone, Ordered, Settled
<1> QED
  BY <1>1, <1>2, <1>3 DEF RotateInv

(* Every step keeps the types. An invocation that returns belongs to one   *)
(* of the four steps, so that there is a next one.                         *)
LEMMA StepKeepsTypes ==
  ASSUME TypeOK, Progress, [Next]_vars
  PROVE  TypeOK'
<1> USE RotateSecretAssumption, VersionsAreNat DEF RotateSecretAssumption, TypeOK
<1>1. CASE CreateSecret
  BY <1>1 DEF CreateSecret, Running, Succeeds, rotation, db
<1>2. CASE SetSecret
  BY <1>2 DEF SetSecret, Running, Succeeds, secret, rotation
<1>3. CASE SetRetries
  <2>1. attempt' \in 1 .. MaxAttempts
    BY <1>3 DEF SetRetries
  <2>2. call' \in {"running", "failed"}
    BY <1>3 DEF SetRetries, Running, Raises
  <2> QED
    BY <1>3, <2>1, <2>2 DEF SetRetries, secret, rotation, db
<1>4. CASE TestSecret
  BY <1>4 DEF TestSecret, Running, Succeeds, secret, rotation, db
<1>5. CASE TestRetries
  <2>1. attempt' \in 1 .. MaxAttempts
    BY <1>5 DEF TestRetries
  <2>2. call' \in {"running", "failed"}
    BY <1>5 DEF TestRetries, Running, Raises
  <2> QED
    BY <1>5, <2>1, <2>2 DEF TestRetries, secret, rotation, db
<1>6. CASE FinishSecret
  BY <1>6 DEF FinishSecret, Running, Succeeds, rotation, db
<1>7. CASE StepFails
  BY <1>7 DEF StepFails, Raises, secret, rotation, db
<1>8. CASE NextInvocation
  <2>1. step \in Steps
    BY <1>8 DEF NextInvocation, Progress
  <2>2. step' \in Steps \cup {"done"}
    BY <1>8, <2>1 DEF NextInvocation, NextStep, Steps
  <2> QED
    BY <1>8, <2>2 DEF NextInvocation, secret, db
<1>9. CASE RetryInvocation
  BY <1>9 DEF RetryInvocation, secret, db
<1>10. CASE Rotate
  <2>1. token' \in Versions /\ step' \in Steps
    BY <1>10 DEF Rotate, StartRotation, Versions, Steps
  <2>2. pending' \in versions' \cup {NoVersion}
    BY <1>10 DEF Rotate
  <2> QED
    BY <1>10, <2>1, <2>2 DEF Rotate, StartRotation, db
<1>11. CASE Reattempt
  BY <1>11 DEF Reattempt, StartRotation, Steps, secret, db
<1>12. CASE Apply
  BY <1>12 DEF Apply, secret, rotation
<1>13. CASE UNCHANGED vars
  BY <1>13 DEF vars, secret, rotation, db
<1> QED
  BY <1>1, <1>2, <1>3, <1>4, <1>5, <1>6, <1>7, <1>8, <1>9, <1>10, <1>11, <1>12, <1>13
  DEF Next, LambdaHandler

------------------------------------------------------------------------------
(* What each step leaves behind *)

LEMMA StepKeepsProgress ==
  ASSUME TypeOK, Progress, [Next]_vars
  PROVE  Progress'
<1> USE VersionsAreNat DEF Progress, SetDone, TestDone, FinishDone
<1>1. CASE CreateSecret
  BY <1>1 DEF CreateSecret, Running, Succeeds, rotation, db
(* The password is ordered when set_secret returns. *)
<1>2. CASE SetSecret
  BY <1>2 DEF SetSecret, Running, Succeeds, Ordered, secret, rotation
<1>3. CASE SetRetries
  BY <1>3 DEF SetRetries, Running, Raises, secret, rotation, db
(* A connection that succeeded says that the order has arrived. *)
<1>4. CASE TestSecret
  <2>1. Settled'
    BY <1>4 DEF TestSecret, Running, Ordered, Settled, TypeOK, rotation, db
  <2>2. Ordered'
    BY <2>1 DEF Ordered, Settled
  <2> QED
    BY <1>4, <2>1, <2>2 DEF TestSecret, Running, Succeeds, rotation
<1>5. CASE TestRetries
  BY <1>5 DEF TestRetries, Running, Raises, Ordered, secret, rotation, db
<1>6. CASE FinishSecret
  BY <1>6 DEF FinishSecret, Running, Succeeds, Ordered, Settled, rotation, db
<1>7. CASE StepFails
  BY <1>7 DEF StepFails, Raises, Ordered, Settled, secret, rotation, db
<1>8. CASE NextInvocation
  <2>1. step \in Steps
    BY <1>8 DEF NextInvocation, TypeOK
  <2>2. /\ step' = "set" <=> step = "create"
        /\ step' = "test" <=> step = "set"
        /\ step' = "finish" <=> step = "test"
        /\ step' = "done" <=> step = "finish"
    BY <1>8, <2>1 DEF NextInvocation, NextStep, Steps
  <2>3. /\ (Ordered' <=> Ordered) /\ (Settled' <=> Settled)
        /\ token' = token /\ tested' = tested /\ current' = current
    BY <1>8 DEF NextInvocation, Ordered, Settled, secret, db
  <2> QED
    BY <1>8, <2>1, <2>2, <2>3 DEF NextInvocation, Steps
<1>9. CASE RetryInvocation
  BY <1>9 DEF RetryInvocation, Ordered, Settled, secret, db
<1>10. CASE Rotate
  BY <1>10 DEF Rotate, StartRotation
<1>11. CASE Reattempt
  BY <1>11 DEF Reattempt, StartRotation
(* What the database applies is what this rotation ordered. *)
<1>12. CASE Apply
  <2>1. token' = token /\ token # NoVersion
    BY <1>12 DEF Apply, TypeOK, rotation
  <2>2. Ordered => Ordered'
    BY <1>12, <2>1 DEF Apply, Ordered
  <2>3. Settled => Settled'
    BY <1>12, <2>1 DEF Apply, Settled
  <2> QED
    BY <1>12, <2>1, <2>2, <2>3 DEF Apply, secret, rotation
<1>13. CASE UNCHANGED vars
  BY <1>13 DEF vars, secret, rotation, db, Ordered, Settled
<1> QED
  BY <1>1, <1>2, <1>3, <1>4, <1>5, <1>6, <1>7, <1>8, <1>9, <1>10, <1>11, <1>12, <1>13
  DEF Next, LambdaHandler

(* Only finish_secret moves AWSCURRENT, and nothing forgets a test. *)
LEMMA StepKeepsCurrentTested ==
  ASSUME CurrentWasTested, Progress, [Next]_vars
  PROVE  CurrentWasTested'
<1>1. CASE FinishSecret
  BY <1>1 DEF FinishSecret, Running, CurrentWasTested, Progress, TestDone
<1>2. CASE ~FinishSecret
  <2>1. current' = current /\ tested \subseteq tested'
    BY <1>2 DEF Next, LambdaHandler, CreateSecret, SetSecret, SetRetries, TestSecret,
       TestRetries, StepFails, NextInvocation, RetryInvocation, Rotate, Reattempt,
       Apply, vars, secret, rotation, db
  <2> QED
    BY <2>1 DEF CurrentWasTested
<1> QED
  BY <1>1, <1>2

------------------------------------------------------------------------------
(* Theorems *)

LEMMA RotateInvariant == Spec => []RotateInv
<1>1. RotateInv /\ [Next]_vars => RotateInv'
  BY StepKeepsTypes, StepKeepsProgress, StepKeepsCurrentTested DEF RotateInv
<1> QED
  BY InitInv, <1>1, PTL DEF Spec

(* Every variable keeps its type: the stages name versions that exist, and *)
(* set_secret and test_secret make at most max_retries attempts.           *)
THEOREM TypeCorrect == Spec => []TypeOK
<1>1. RotateInv => TypeOK
  BY DEF RotateInv
<1> QED
  BY RotateInvariant, <1>1, PTL

(* AWSCURRENT never names a password that no test has connected with,      *)
(* however often steps fail after their effect, are repeated, or a         *)
(* rotation stops half way and another starts over it.                     *)
THEOREM AlwaysTested == Spec => []CurrentWasTested
<1>1. RotateInv => CurrentWasTested
  BY DEF RotateInv
<1> QED
  BY RotateInvariant, <1>1, PTL

(* Whenever a rotation is complete, the database accepts the password that *)
(* AWSCURRENT names and is not applying another one.                       *)
THEOREM AlwaysConnected == Spec => []CompleteMeansConnected
<1>1. RotateInv => CompleteMeansConnected
  BY DEF RotateInv, Progress, TestDone, FinishDone, Settled, CompleteMeansConnected
<1> QED
  BY RotateInvariant, <1>1, PTL

==============================================================================
