------------------------------ MODULE RotateSecret ------------------------------
(***************************************************************************)
(* lambda/rotate_secret.py: the Lambda that rotates the database's master  *)
(* password. Secrets Manager (external) invokes it once per step: create,  *)
(* set, test, finish, with the token of the new secret version; it goes on *)
(* to the next step when an invocation succeeds and invokes the step again *)
(* a few times when it fails. An operator retries a rotation that stopped, *)
(* or cleans it up and starts another (docs/SECRETS_ROTATION.md).          *)
(*                                                                         *)
(* Version 0 is the secret before the first rotation, version t the one    *)
(* created with token t; the password of a version stands for itself. The  *)
(* database (external) accepts one password and applies a new one some     *)
(* time after ModifyDBInstance returned, being "modifying" meanwhile.      *)
(***************************************************************************)
EXTENDS Naturals

CONSTANTS
  MaxRotations,     (* bound: tokens                                       *)
  MaxRetries,       (* Secrets Manager: invocations of a failed step       *)
  MaxReattempts,    (* bound: times an operator retries a token            *)
  MaxAttempts       (* max_retries of set_secret and of test_secret        *)

ASSUME RotateSecretAssumption ==
  /\ MaxRotations \in Nat \ {0} /\ MaxRetries \in Nat /\ MaxReattempts \in Nat
  /\ MaxAttempts \in Nat \ {0}

VARIABLES
  (* Secrets Manager *)
  versions,         (* versions that exist                                 *)
  current,          (* the version with stage AWSCURRENT                   *)
  pending,          (* the version with stage AWSPENDING, or NoVersion     *)
  token,            (* ClientRequestToken of the last rotation             *)
  step,             (* the step it is at                                   *)
  retries,          (* invocations left for this step                      *)
  reattempts,       (* operator retries left                               *)
  (* the database *)
  dbPassword,       (* the password it accepts                             *)
  applying,         (* the password being applied, or NoVersion            *)
  (* the Lambda *)
  call,             (* state of the invocation                             *)
  attempt,          (* attempt in the loops of set_secret and test_secret  *)
  (* history *)
  tested            (* versions a test connection was made with            *)

secret == <<versions, current, pending>>
rotation == <<token, step, retries, reattempts>>
db == <<dbPassword, applying>>
vars == <<secret, rotation, db, call, attempt, tested>>

Versions == 0 .. MaxRotations
NoVersion == MaxRotations + 1
Steps == {"create", "set", "test", "finish"}
NextStep == [create |-> "set", set |-> "test", test |-> "finish", finish |-> "done"]

Init ==
  /\ versions = {0} /\ current = 0 /\ pending = NoVersion
  /\ token = 0 /\ step = "done" /\ retries = 0 /\ reattempts = MaxReattempts
  /\ dbPassword = 0 /\ applying = NoVersion
  /\ call = "none" /\ attempt = 1 /\ tested = {0}

Running(s) == call = "running" /\ step = s
Succeeds == call' = "returning"
Raises == call' = "failed"

------------------------------------------------------------------------------
(* Mutated forms of the definitions below. *)

(* the loop over the attempts runs out without raising *)
TestFallsThrough ==
  /\ Running("test") /\ ~(token \in versions /\ dbPassword = token)
  /\ IF attempt < MaxAttempts THEN attempt' = attempt + 1 /\ UNCHANGED call
                              ELSE Succeeds /\ UNCHANGED attempt
  /\ UNCHANGED <<secret, rotation, db, tested>>

(* one attempt too many before giving up *)
ModifyRetriesOnceMore ==
  /\ Running("set") /\ token \in versions /\ applying # NoVersion
  /\ IF attempt <= MaxAttempts THEN attempt' = attempt + 1 /\ UNCHANGED call
                               ELSE Raises /\ UNCHANGED attempt
  /\ UNCHANGED <<secret, rotation, db, tested>>

(* the promotion names the version that has the stage already *)
FinishKeepsCurrent ==
  /\ Running("finish") /\ Succeeds
  /\ UNCHANGED <<secret, rotation, db, attempt, tested>>

------------------------------------------------------------------------------
(* Step 1. A retry finds the version stored with another password, and     *)
(* put_secret_value then raises: CreateFails covers it, like a generated   *)
(* password that does not pass validate_password.                          *)
CreateSecret ==
  /\ Running("create") /\ token \notin versions /\ Succeeds
  /\ versions' = versions \cup {token} /\ pending' = token
  /\ UNCHANGED <<current, rotation, db, attempt, tested>>

(* Step 2. ModifyDBInstance takes the password of the version with this    *)
(* token. While the database is being modified it raises                   *)
(* InvalidDBInstanceState, which is retried.                               *)
SetSecret ==
  /\ Running("set") /\ token \in versions /\ applying = NoVersion
  /\ applying' = token /\ Succeeds
  /\ UNCHANGED <<secret, rotation, dbPassword, attempt, tested>>

SetRetries ==
  /\ Running("set") /\ token \in versions /\ applying # NoVersion
  /\ IF attempt < MaxAttempts THEN attempt' = attempt + 1 /\ UNCHANGED call
                              ELSE Raises /\ UNCHANGED attempt
  /\ UNCHANGED <<secret, rotation, db, tested>>

(* Step 3. Connect with the pending password. *)
TestSecret ==
  /\ Running("test") /\ token \in versions /\ dbPassword = token
  /\ tested' = tested \cup {token} /\ Succeeds
  /\ UNCHANGED <<secret, rotation, db, attempt>>

TestRetries ==
  /\ Running("test") /\ ~(token \in versions /\ dbPassword = token)
  /\ IF attempt < MaxAttempts THEN attempt' = attempt + 1 /\ UNCHANGED call
                              ELSE Raises /\ UNCHANGED attempt
  /\ UNCHANGED <<secret, rotation, db, tested>>

(* Step 4. AWSCURRENT moves from the version that has it to this one. *)
FinishSecret ==
  /\ Running("finish") /\ token \in versions
  /\ current' = token /\ Succeeds
  /\ UNCHANGED <<versions, pending, rotation, db, attempt, tested>>

(* Any invocation may raise before its effect (an AWS error, the password  *)
(* generated with a character validate_password forbids), and may run into *)
(* the Lambda timeout after it: the caller sees a failure both times.      *)
StepFails ==
  /\ call \in {"running", "returning"} /\ Raises
  /\ UNCHANGED <<secret, rotation, db, attempt, tested>>

(* lambda_handler: the step the event names *)
LambdaHandler ==
  CreateSecret \/ SetSecret \/ SetRetries \/ TestSecret \/ TestRetries \/ FinishSecret

(* Secrets Manager (external): the next step, or the failed one again. *)
NextInvocation ==
  /\ call = "returning"
  /\ step' = NextStep[step] /\ retries' = MaxRetries
  /\ call' = IF step = "finish" THEN "none" ELSE "running"
  /\ attempt' = 1
  /\ UNCHANGED <<secret, token, reattempts, db, tested>>

RetryInvocation ==
  /\ call = "failed" /\ retries > 0
  /\ retries' = retries - 1 /\ call' = "running" /\ attempt' = 1
  /\ UNCHANGED <<secret, token, step, reattempts, db, tested>>

(* Out of retries the rotation has stopped where it is. *)
Stopped == call = "failed" /\ retries = 0

StartRotation(t) ==
  /\ token' = t /\ step' = "create" /\ retries' = MaxRetries
  /\ call' = "running" /\ attempt' = 1

(* The schedule, or an operator who cleared AWSPENDING of the stopped one. *)
Rotate ==
  /\ call = "none" \/ Stopped
  /\ token < MaxRotations
  /\ StartRotation(token + 1)
  /\ pending' = IF Stopped /\ pending = token THEN NoVersion ELSE pending
  /\ UNCHANGED <<versions, current, reattempts, db, tested>>

(* An operator retries the stopped rotation as it is. *)
Reattempt ==
  /\ Stopped /\ reattempts > 0
  /\ StartRotation(token) /\ reattempts' = reattempts - 1
  /\ UNCHANGED <<secret, db, tested>>

(* The database (external) applies the password. *)
Apply ==
  /\ applying # NoVersion
  /\ dbPassword' = applying /\ applying' = NoVersion
  /\ UNCHANGED <<secret, rotation, call, attempt, tested>>

Next ==
  \/ LambdaHandler \/ StepFails
  \/ NextInvocation \/ RetryInvocation \/ Rotate \/ Reattempt
  \/ Apply

Spec == Init /\ [][Next]_vars

------------------------------------------------------------------------------
(* Properties *)

(* Every variable has its type: stages name versions that exist, and the   *)
(* retry loops of set_secret and test_secret stay within max_retries.      *)
TypeOK ==
  /\ versions \subseteq Versions /\ current \in versions
  /\ pending \in versions \cup {NoVersion}
  /\ token \in Versions /\ step \in Steps \cup {"done"}
  /\ retries \in 0 .. MaxRetries /\ reattempts \in 0 .. MaxReattempts
  /\ dbPassword \in Versions /\ applying \in Versions \cup {NoVersion}
  /\ call \in {"none", "running", "returning", "failed"}
  /\ attempt \in 1 .. MaxAttempts
  /\ tested \subseteq Versions

(* Applications are never handed (by AWSCURRENT) a password nobody has     *)
(* connected with: the promotion comes after a test that succeeded, through *)
(* retries of every step and an earlier rotation that stopped half way.    *)
CurrentWasTested == current \in tested

(* Once a rotation is complete the database accepts the password that      *)
(* AWSCURRENT names and no other is being applied, even if the rotations   *)
(* before it left the database with a password of their own.               *)
CompleteMeansConnected ==
  step = "done" => dbPassword = current /\ applying \in {NoVersion, current}

(* docs/SECRETS_ROTATION.md, 3: "If test fails, rotation stops (reverts to *)
(* AWSCURRENT); no applications affected".                                 *)
FailedTestReverts ==
  Stopped /\ step = "test" /\ applying = NoVersion => dbPassword = current

==============================================================================
