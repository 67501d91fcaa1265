----------------------------- MODULE SigningKey -----------------------------
(***************************************************************************)
(* ensureSigningKey of src/src/keys.ts: processes of one workspace load    *)
(* the signing key, or generate it once under the advisory lock.  The key  *)
(* a process generates is named by the process.                            *)
(***************************************************************************)
EXTENDS AdvisoryLock

CONSTANTS
  NoKey,     \* there is no signing-key.pem
  Partial    \* a key file that has been created and not completely written

(* No key is taken for the absence of one.                                  *)
KeyAssumption == NoKey \notin Procs /\ Partial \notin Procs /\ NoKey # Partial

VARIABLES
  keyFile,   \* content of signing-key.pem
  kpc,       \* where each process is in ensureSigningKey
  result     \* the key it returned, NoKey for none

keyVars == <<keyFile, kpc, result>>

Keys == Procs

KeyInit ==
  /\ LockInit
  /\ keyFile = NoKey
  /\ kpc = [p \in Procs |-> "start"]
  /\ result = [p \in Procs |-> NoKey]

In(p, place) == p \in alive /\ kpc[p] = place

Enter(p, place) == kpc' = [kpc EXCEPT ![p] = place]

-----------------------------------------------------------------------------
(* The check without the lock                                              *)

KeyExists(p) ==
  /\ In(p, "start")
  /\ keyFile # NoKey
  /\ Enter(p, "loading")
  /\ UNCHANGED <<lockVars, keyFile, result>>

(* Reading the key returns it, or throws when it is not a P-256 key.       *)
Read(p) == result' = [result EXCEPT ![p] = IF keyFile = Partial THEN NoKey ELSE keyFile]

LoadKey(p) ==
  /\ In(p, "loading")
  /\ Read(p)
  /\ Enter(p, "done")
  /\ UNCHANGED <<lockVars, keyFile>>

KeyMissing(p) ==
  /\ In(p, "start")
  /\ keyFile = NoKey
  /\ StartAcquire(p)
  /\ Enter(p, "locking")
  /\ UNCHANGED <<keyFile, result>>

-----------------------------------------------------------------------------
(* withLock                                                                *)

TakeKeyLock(p) ==
  /\ In(p, "locking")
  /\ AcquireStep(p)
  /\ Enter(p, CASE lpc'[p] = "held" -> "checking"
                [] lpc'[p] = "idle" -> "done"      \* LockHeldError
                [] OTHER            -> "locking")
  /\ UNCHANGED <<keyFile, result>>

(* "Re-check inside the lock"                                              *)
Recheck(p) ==
  /\ In(p, "checking")
  /\ IF keyFile = NoKey
     THEN Enter(p, "generating") /\ UNCHANGED result
     ELSE Enter(p, "releasing") /\ Read(p)
  /\ UNCHANGED <<lockVars, keyFile>>

(* writeFileSync truncates or creates the file and then writes it.         *)
CreateKeyFile(p) ==
  /\ In(p, "generating")
  /\ keyFile' = Partial
  /\ Enter(p, "writing")
  /\ UNCHANGED <<lockVars, result>>

WriteKeyFile(p) ==
  /\ In(p, "writing")
  /\ keyFile' = p
  /\ result' = [result EXCEPT ![p] = p]
  /\ Enter(p, "releasing")
  /\ UNCHANGED lockVars

ReleaseKeyLock(p) ==
  /\ In(p, "releasing")
  /\ StartRelease(p) \/ Unlink(p)
  /\ Enter(p, IF lpc'[p] = "idle" THEN "done" ELSE "releasing")
  /\ UNCHANGED <<keyFile, result>>

(* The process exits, or calls ensureSigningKey again.                     *)
CallAgain(p) ==
  /\ In(p, "done")
  /\ Enter(p, "start")
  /\ UNCHANGED <<lockVars, keyFile, result>>

KeyStep(p) ==
  \/ KeyExists(p) \/ LoadKey(p) \/ KeyMissing(p) \/ TakeKeyLock(p) \/ Recheck(p)
  \/ CreateKeyFile(p) \/ WriteKeyFile(p) \/ ReleaseKeyLock(p)

KeyNext ==
  \/ \E p \in Procs : \/ KeyStep(p)
                      \/ CallAgain(p)
                      \/ Die(p) /\ UNCHANGED keyVars
  \/ Tick /\ UNCHANGED keyVars

(* A process may exit at any call, the ones in which it makes the key      *)
(* included.                                                               *)
KeySpec == KeyInit /\ [][KeyNext]_<<lockVars, keyVars>>

-----------------------------------------------------------------------------
(* All processes that got a key got the same one: first generation is      *)
(* "wrapped in a file lock to prevent two parallel `run start --seal`      *)
(* processes from both generating a key" (src/src/keys.ts:17-19).          *)
KeyAgreement == \A p, q \in Procs : NoKey \notin {result[p], result[q]} => result[p] = result[q]

=============================================================================
