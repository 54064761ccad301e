--------------------------- MODULE CredentialVault ---------------------------
(***************************************************************************)
(* The encrypted store of provider credentials (model_credentials.rs) and  *)
(* the handlers in front of it (app.rs).  Every call opens the lock file   *)
(* anew and takes it shared or exclusive, so calls of one process and of   *)
(* several exclude each other; the vault is read, changed and written to a *)
(* temporary file that is renamed over it.  A process may die in between,  *)
(* which gives its lock back.                                              *)
(***************************************************************************)
EXTENDS Integers, FiniteSets

CONSTANTS
  Client,            \* calls in progress, of one process or of several
  Account,           \* providers with a credential
  Secret,            \* what a credential may be
  VaultKey,          \* encryption keys a process may be given
  NoSecret,          \* no record
  VaultCalls         \* bound: calls made

\* valid_model_provider_id accepts some name, and open wants a key.
ASSUME VaultAssumption == Account # {} /\ VaultKey # {}

VARIABLES
  vault,             \* the file: the record of each provider, sealed with a key
  locks,             \* who holds the lock file, shared and exclusive
  usage,             \* the calls
  newest,            \* auxiliary: what the acknowledged calls leave
  done               \* for the bound

vaultVars == <<vault, locks, usage, newest, done>>

Quiet == [at |-> "idle", op |-> "none", acc |-> CHOOSE a \in Account : TRUE, secret |-> NoSecret,
          key |-> CHOOSE k \in VaultKey : TRUE, read |-> <<>>, got |-> NoSecret]
Sealed(k, s) == [key |-> k, secret |-> s]
Unset == Sealed(CHOOSE k \in VaultKey : TRUE, NoSecret)

\* Mutant: a put shares the lock, as a read does.
OnlyDeletes(op) == op = "delete"
\* with_locked_file: exclusively for put and delete.
Exclusive(op) == op \in {"put", "delete"}

\* normalize_provider and valid_model_provider_id; has_any_value and the length limits.
Acceptable == BOOLEAN

\* save_model_provider_credentials: a model-admin's well-formed request becomes a put.
Save(c) == \E a \in Account, s \in Secret, k \in VaultKey, good \in Acceptable :
             good /\ usage' = [usage EXCEPT ![c] =
               [Quiet EXCEPT !.at = "lock", !.op = "put", !.acc = a, !.secret = s, !.key = k]]
\* delete_model_provider_credentials
Delete(c) == \E a \in Account, k \in VaultKey, good \in Acceptable :
               good /\ usage' = [usage EXCEPT ![c] =
                 [Quiet EXCEPT !.at = "lock", !.op = "delete", !.acc = a, !.key = k]]
\* list_model_provider_credentials: the metadata, without a key.
List(c) == usage' = [usage EXCEPT ![c] = [Quiet EXCEPT !.at = "lock", !.op = "list"]]
\* get_model_download_credential
Get(c) == \E a \in Account, k \in VaultKey :
            usage' = [usage EXCEPT ![c] =
              [Quiet EXCEPT !.at = "lock", !.op = "get", !.acc = a, !.key = k]]
\* ModelCredentialVault::open: every record must open with the key.
OpenVault(c) == \E k \in VaultKey :
                  usage' = [usage EXCEPT ![c] = [Quiet EXCEPT !.at = "lock", !.op = "open", !.key = k]]

Begin(c) ==
  /\ usage[c].at = "idle" /\ done < VaultCalls /\ done' = done + 1
  /\ UNCHANGED <<vault, locks, newest>>
  /\ Save(c) \/ Delete(c) \/ List(c) \/ Get(c) \/ OpenVault(c)

Lock(c) ==
  /\ usage[c].at = "lock" /\ UNCHANGED <<vault, newest, done>>
  /\ locks.writer = {} /\ (Exclusive(usage[c].op) => locks.readers = {})
  /\ locks' = IF Exclusive(usage[c].op) THEN [locks EXCEPT !.writer = {c}]
              ELSE [locks EXCEPT !.readers = @ \cup {c}]
  /\ usage' = [usage EXCEPT ![c].at = "read"]

Unlocked(c) == [readers |-> locks.readers \ {c}, writer |-> locks.writer \ {c}]
End(c) == usage' = [usage EXCEPT ![c] = Quiet] /\ locks' = Unlocked(c)

\* decrypt_record: only with the key that sealed it, for the provider it was sealed for.
Opens(k, r) == r.secret = NoSecret \/ r.key = k
\* encrypt_record
Seal(c) == Sealed(usage[c].key, usage[c].secret)

\* read_vault: an I/O error, a wrong mode or version ends the call.
ReadVault(c) ==
  /\ usage[c].at = "read" /\ UNCHANGED <<vault, newest, done>>
  /\ \/ End(c)
     \/ /\ usage[c].op \in {"put", "delete"} /\ UNCHANGED locks
        /\ usage' = [usage EXCEPT ![c].at = "write", ![c].read = vault]
     \/ /\ usage[c].op = "get" /\ UNCHANGED locks /\ Opens(usage[c].key, vault[usage[c].acc])
        /\ usage' = [usage EXCEPT ![c].at = "return", ![c].got = vault[usage[c].acc].secret]
     \/ usage[c].op = "list" /\ End(c)
     \/ usage[c].op = "open" /\ (\A a \in Account : Opens(usage[c].key, vault[a])) /\ End(c)

Changed(c) == [usage[c].read EXCEPT ![usage[c].acc] = IF usage[c].op = "put" THEN Seal(c) ELSE Unset]

\* write_vault_atomic: the temporary file is complete before it takes the name.
WriteVault(c) ==
  /\ usage[c].at = "write" /\ UNCHANGED <<newest, done>>
  /\ \/ UNCHANGED vault /\ End(c)                                     \* it cannot be written
     \/ usage[c].op = "delete" /\ usage[c].read[usage[c].acc] = Unset    \* nothing to remove
          /\ UNCHANGED vault /\ End(c)
     \/ /\ vault' = Changed(c) /\ UNCHANGED locks
        /\ usage' = [usage EXCEPT ![c].at = "renamed"]

\* The call is acknowledged.
Acknowledge(c) ==
  /\ usage[c].at = "renamed" /\ UNCHANGED <<vault, done>> /\ End(c)
  /\ newest' = [newest EXCEPT ![usage[c].acc] = vault[usage[c].acc]]
Return(c) == usage[c].at = "return" /\ UNCHANGED <<vault, newest, done>> /\ End(c)

\* The process dies: what it renamed stays, acknowledged or not.
Die(c) ==
  /\ usage[c].at # "idle" /\ UNCHANGED <<vault, done>> /\ End(c)
  /\ newest' = IF usage[c].at = "renamed"
               THEN [newest EXCEPT ![usage[c].acc] = vault[usage[c].acc]] ELSE newest

VaultInit ==
  /\ vault = [a \in Account |-> Unset] /\ newest = vault
  /\ locks = [readers |-> {}, writer |-> {}]
  /\ usage = [c \in Client |-> Quiet] /\ done = 0

VaultNext == \E c \in Client :
  \/ Begin(c) \/ Lock(c) \/ ReadVault(c) \/ WriteVault(c) \/ Acknowledge(c) \/ Return(c) \/ Die(c)

VaultSpec == VaultInit /\ [][VaultNext]_vaultVars
-----------------------------------------------------------------------------
Renaming == {usage[c].acc : c \in {d \in Client : usage[d].at = "renamed"}}

(* No call undoes another: what an acknowledged put or delete left stays until
   a later one of the same provider, whatever was saved for another provider
   meanwhile, and a reader is given the newest. *)
NoSaveIsLost ==
  /\ \A a \in Account \ Renaming : vault[a] = newest[a]
  /\ \A c \in Client : usage[c].at = "return" => usage[c].got = newest[usage[c].acc].secret
=============================================================================
