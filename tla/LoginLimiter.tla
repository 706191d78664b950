---------------------------- MODULE LoginLimiter ----------------------------
(***************************************************************************)
(* The brake on failed sign-ins of one user name.  The lock-out doubles in  *)
(* 64-bit nanoseconds; attempts that are being verified when it begins go   *)
(* on.                                                                      *)
(***************************************************************************)
EXTENDS Naturals

CONSTANTS LoginReq,      \* sign-ins in progress at once
          MaxFailures    \* bound: failures in a row

ASSUME LoginLimiterAssumption == MaxFailures \in Nat

VARIABLES
    failures,   \* loginAttempts.failures, 0 for no entry
    lockedFor,  \* seconds lockedUntil was set ahead, 0 when it has passed
    logins,     \* what each sign-in is doing
    guesses     \* guesses[r] : wrong passwords of r, past the free ones, since a
                \* lock-out was last waited out or the count started over

limiterVars == <<failures, lockedFor, logins, guesses>>

NoGuess == [r \in LoginReq |-> 0]

LoginFreeAttempts == 5
LoginLockoutBase == 5
LoginLockoutCap == 300

(* loginLockoutBase is 9765625 * 2^9 nanoseconds: shifted left by n it is   *)
(* 9765625 * 2^(n + 9), of which 64 bits are kept, the first for the sign.  *)
(* Everything the 64 bits hold of it fits in the low 64 - n - 9 bits of     *)
(* 9765625.                                                                 *)
Kept64(n) == IF n + 9 >= 64 THEN 0 ELSE 9765625 % 2 ^ (64 - (n + 9))
Positive64(n) == Kept64(n) > 0 /\ Kept64(n) < 2 ^ (63 - (n + 9))

(* recordFailure: the lock-out after failure f, in seconds, none when the   *)
(* product is not positive.  Up to 2^6 it is small; from there on it is cut *)
(* to the cap, as long as it has not wrapped.                               *)
LockoutAfter(f) ==
    LET n == f - LoginFreeAttempts - 1 IN
    IF n < 6 THEN LoginLockoutBase * 2 ^ n
    ELSE IF n + 9 + 24 < 64 \/ Positive64(n) THEN LoginLockoutCap
    ELSE 0

(* check: not while locked out.                                             *)
Admit(r) ==
    /\ logins[r] = "idle" /\ lockedFor = 0
    /\ logins' = [logins EXCEPT ![r] = "verifying"]
    /\ UNCHANGED <<failures, lockedFor, guesses>>

(* A wrong password; after an hour of silence the count starts over.        *)
CountFailure(r, stale) ==
    /\ logins[r] = "verifying"
    /\ stale => lockedFor = 0
    /\ failures < MaxFailures
    /\ failures' = IF stale THEN 1 ELSE failures + 1
    /\ logins' = [logins EXCEPT ![r] = "idle"]
    /\ guesses' = IF stale THEN NoGuess
                  ELSE IF failures' > LoginFreeAttempts THEN [guesses EXCEPT ![r] = @ + 1]
                  ELSE guesses

(* Slip: the account is locked when the free attempts are used up, but not  *)
(* at every failure after that.                                             *)
RecordFailureOnce(r, stale) ==
    /\ CountFailure(r, stale)
    /\ lockedFor' = IF failures' = LoginFreeAttempts + 1 THEN LockoutAfter(failures') ELSE lockedFor

RecordFailure(r, stale) ==
    /\ CountFailure(r, stale)
    /\ lockedFor' = IF failures' > LoginFreeAttempts THEN LockoutAfter(failures') ELSE lockedFor

(* The right one, of whoever asked first or last.                           *)
Clear(r) ==
    /\ logins[r] = "verifying"
    /\ failures' = 0 /\ lockedFor' = 0 /\ guesses' = NoGuess
    /\ logins' = [logins EXCEPT ![r] = "idle"]

(* VerifyUserCredentials fails, and nothing is counted.                     *)
VerifyFails(r) ==
    /\ logins[r] = "verifying"
    /\ logins' = [logins EXCEPT ![r] = "idle"]
    /\ UNCHANGED <<failures, lockedFor, guesses>>

(* lockedUntil passes.                                                      *)
LockoutPasses ==
    /\ lockedFor > 0
    /\ lockedFor' = 0 /\ guesses' = NoGuess
    /\ UNCHANGED <<failures, logins>>

(* The table is in memory only.                                             *)
LimiterRestart ==
    /\ failures' = 0 /\ lockedFor' = 0 /\ guesses' = NoGuess
    /\ logins' = [r \in LoginReq |-> "idle"]

LimiterInit ==
    /\ failures = 0 /\ lockedFor = 0 /\ guesses = NoGuess
    /\ logins = [r \in LoginReq |-> "idle"]

LimiterNext ==
    \/ \E r \in LoginReq :
          \/ Admit(r) \/ Clear(r) \/ VerifyFails(r)
          \/ \E stale \in BOOLEAN : RecordFailure(r, stale)
    \/ LockoutPasses \/ LimiterRestart

LimiterSpec == LimiterInit /\ [][LimiterNext]_limiterVars

-----------------------------------------------------------------------------
(* Properties.                                                              *)

(* Count, lock-out and sign-ins stay well formed.                           *)
LimiterTypeOK ==
    /\ failures \in 0 .. MaxFailures
    /\ lockedFor \in 0 .. LoginLockoutCap
    /\ logins \in [LoginReq -> {"idle", "verifying"}]
    /\ guesses \in [LoginReq -> 0 .. MaxFailures]

(* recordFailure: "a handful of typos never lock anyone out, but a sustained*)
(* guessing script quickly slows to a few attempts per hour": past the free *)
(* attempts nobody has a second wrong password verified without waiting out *)
(* a lock-out first, whatever other sign-ins, admitted before it began, do  *)
(* to the count and to the lock-out meanwhile ...                           *)
GuessingIsSlow == \A r \in LoginReq : guesses[r] <= 1

(* ... as long as the doubled duration fits a Duration.                     *)
LastThatFits == 36
OneGuessPerLockout == failures <= LastThatFits => GuessingIsSlow
=============================================================================
