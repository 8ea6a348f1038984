---------------------------- MODULE ConfigSecrets ----------------------------
(***************************************************************************)
(* The provider keys of src/main/config.ts: a vault file beside config.json,*)
(* encrypted by the platform's safe storage when there is one; keys that    *)
(* older versions left in config.json or in an unencrypted vault; and the   *)
(* overlay that keeps keys in memory when nothing can be encrypted.         *)
(* Operations on the files run one after the other (enqueueConfigOperation).*)
(* A file that exists is read without error, and safe storage comes or goes *)
(* between two lives of the process only.                                   *)
(***************************************************************************)
EXTENDS Naturals, FiniteSets

CONSTANTS
  Keys,                  \* provider keys (MODEL_ROUTING_SECRET_KEYS)
  Vals,                  \* values of keys
  OldPlain, OldVault,    \* values an installation starts with
  Saves, Loads,          \* callers of saveConfig and of loadConfig
  Updates,               \* what saves ask for: a value, Clear or Keep for each key
  MaxRestarts,           \* ends of the process in a behaviour
  None, Clear, Keep

VARIABLES
  plain,                 \* keys in the text of config.json
  vault,                 \* the vault file: its form and the keys in it
  overlay,               \* sessionSecretsByDir: keys held in memory only
  available,             \* getSafeStorage() # null
  op,                    \* the operation at the head of configOperationQueue
  call,                  \* calls: idle, queued, running, done or rejected
  restarts,
  acceptable,            \* values of each key that the caller was told of, or may be
  loose,                 \* keys acknowledged in memory only
  undone                 \* removals acknowledged and not carried out

vars == <<plain, vault, overlay, available, op, call, restarts, acceptable, loose, undone>>

ConfigCalls == Saves \cup Loads
Secrets == [Keys -> Vals \cup {None}]
NoSecrets == [k \in Keys |-> None]

\* Object.assign(below, above)
Over(above, below) == [k \in Keys |-> IF above[k] = None THEN below[k] ELSE above[k]]

Absent == [form |-> "absent", data |-> NoSecrets]

\* readSecretStoreFile: an encrypted vault is locked where nothing can decrypt it.
Locked == vault.form = "encrypted" /\ ~available

\* readSecretStore, legacySecretsFrom and the overlay, in the order of precedence
\* in which loadConfig and saveConfig put them together.
OnDisk == Over(plain, vault.data)
Effective == Over(overlay, OnDisk)

\* What is left of the keys once an update is applied.
Applied(u, secrets) ==
  [k \in Keys |-> CASE u[k] = Keep -> secrets[k] [] u[k] = Clear -> None [] OTHER -> u[k]]

Touched(u) == {k \in Keys : u[k] # Keep}

-----------------------------------------------------------------------------

\* An installation of an earlier version: keys in config.json, in a vault of
\* either form, in both or nowhere.
Init ==
  /\ plain \in [Keys -> {OldPlain, None}]
  /\ vault \in {Absent} \cup [form : {"plain", "encrypted"}, data : [Keys -> {OldVault, None}] \ {NoSecrets}]
  /\ overlay = NoSecrets
  /\ available \in BOOLEAN
  /\ op = None
  /\ call = [c \in ConfigCalls |-> "idle"]
  /\ restarts = 0
  /\ acceptable = [k \in Keys |-> {OnDisk[k]}]
  /\ loose = {} /\ undone = {}

files == <<plain, vault, overlay, available, restarts>>
told == <<acceptable, loose, undone>>

SaveConfig(c) ==
  /\ c \in Saves /\ call[c] = "idle"
  /\ call' = [call EXCEPT ![c] = "queued"]
  /\ UNCHANGED <<files, op, told>>

\* loadConfig reads, and asks for a migration when it finds keys in clear text.
LoadConfig(c) ==
  /\ c \in Loads /\ call[c] = "idle"
  /\ call' = [call EXCEPT ![c] =
       IF plain # NoSecrets \/ vault.form = "plain" THEN "queued" ELSE "done"]
  /\ UNCHANGED <<files, op, told>>

\* The operation of saveConfig reads everything before it writes: keys in the
\* overlay win over those of config.json, and those over the vault.
BeginSave(c, u) ==
  /\ c \in Saves /\ call[c] = "queued" /\ op = None
  /\ ~(Locked /\ Touched(u) # {})
  /\ op' = [by |-> c, update |-> u, secrets |-> Applied(u, Effective), legacy |-> plain,
            step |-> IF Locked THEN "config" ELSE "vault", durable |-> TRUE]
  /\ call' = [call EXCEPT ![c] = "running"]
  /\ acceptable' = [k \in Keys |->
       IF u[k] = Keep THEN acceptable[k] ELSE acceptable[k] \cup {Applied(u, NoSecrets)[k]}]
  /\ UNCHANGED <<files, loose, undone>>

RefuseSave(c, u) ==
  /\ c \in Saves /\ call[c] = "queued" /\ op = None
  /\ Locked /\ Touched(u) # {}
  /\ call' = [call EXCEPT ![c] = "rejected"]
  /\ UNCHANGED <<files, op, told>>

\* A migration has nowhere to go while the storage is locked or unavailable.
BeginMigration(c) ==
  /\ c \in Loads /\ call[c] = "queued" /\ op = None
  /\ IF Locked \/ ~available
       THEN op' = None /\ call' = [call EXCEPT ![c] = "done"]
       ELSE /\ op' = [by |-> c, update |-> [k \in Keys |-> Keep], secrets |-> Effective,
                      legacy |-> plain, step |-> "vault", durable |-> TRUE]
            /\ call' = [call EXCEPT ![c] = "running"]
  /\ UNCHANGED <<files, told>>

\* A migration that found no keys in config.json leaves the file alone.
AfterVault(durable) ==
  IF op.by \in Loads /\ op.legacy = NoSecrets
    THEN [op EXCEPT !.step = "end", !.durable = durable]
    ELSE [op EXCEPT !.step = "config", !.durable = durable]

\* What an update leaves in a vault that is not rewritten comes back.
ComesBack == {k \in Touched(op.update) : op.update[k] = Clear /\ vault.data[k] # None}

\* writeSecretStore, with keys to keep: in the vault, or in the overlay.
WriteVault ==
  /\ op # None /\ op.step = "vault" /\ op.secrets # NoSecrets
  /\ IF available
       THEN /\ vault' = [form |-> "encrypted", data |-> op.secrets]
            /\ overlay' = NoSecrets
            /\ UNCHANGED <<loose, undone>>
       ELSE /\ vault' = vault
            /\ overlay' = op.secrets
            /\ loose' = loose \cup Touched(op.update)
            /\ undone' = undone \cup ComesBack
  /\ op' = AfterVault(available)
  /\ UNCHANGED <<plain, available, restarts, call, acceptable>>

\* writeSecretStore, with none left: the file is removed, and a removal that
\* fails is not noticed.
RemoveVault ==
  /\ op # None /\ op.step = "vault" /\ op.secrets = NoSecrets
  /\ overlay' = NoSecrets
  /\ \/ vault' = Absent /\ undone' = undone
     \/ vault' = vault /\ undone' = undone \cup {k \in Keys : vault.data[k] # None}
  /\ op' = AfterVault(TRUE)
  /\ UNCHANGED <<plain, available, restarts, call, acceptable, loose>>

Preserved_NotWhenLocked ==
  IF op.durable THEN NoSecrets
  ELSE [k \in Keys |-> IF k \in Touched(op.update) THEN None ELSE op.legacy[k]]

\* What config.json keeps of the keys it had: all while the vault is locked, what
\* the update did not touch when the vault could not be written, else none.
Preserved ==
  CASE Locked -> op.legacy
    [] ~Locked /\ op.durable -> NoSecrets
    [] OTHER -> [k \in Keys |-> IF k \in Touched(op.update) THEN None ELSE op.legacy[k]]

WriteConfig ==
  /\ op # None /\ op.step = "config"
  /\ plain' = Preserved
  /\ op' = [op EXCEPT !.step = "end"]
  /\ UNCHANGED <<vault, overlay, available, restarts, call, told>>

\* The caller learns that its update was made.
Acknowledge ==
  /\ op # None /\ op.step = "end"
  /\ call' = [call EXCEPT ![op.by] = "done"]
  /\ op' = None
  /\ acceptable' = [k \in Keys |->
       IF k \in Touched(op.update) THEN {Applied(op.update, NoSecrets)[k]} ELSE acceptable[k]]
  /\ loose' = IF op.durable THEN loose \ Touched(op.update) ELSE loose
  /\ undone' = (undone \ Touched(op.update)) \cup ComesBack
  /\ UNCHANGED files

\* A write that fails leaves its file as it was, and ends the operation.
WriteFails ==
  /\ op # None
  /\ \/ op.step = "vault" /\ op.secrets # NoSecrets /\ available
     \/ op.step = "config"
  /\ call' = [call EXCEPT ![op.by] = "rejected"]
  /\ op' = None
  /\ UNCHANGED <<files, told>>

\* The process ends, at any step, and starts again with or without safe storage:
\* what was held in memory is gone, and loads are made anew.
Restart ==
  /\ restarts < MaxRestarts
  /\ restarts' = restarts + 1
  /\ available' \in BOOLEAN
  /\ overlay' = NoSecrets
  /\ op' = None
  /\ call' = [c \in ConfigCalls |->
       CASE c \in Loads -> "idle"
         [] c \in Saves \ Loads /\ call[c] \in {"queued", "running"} -> "rejected"
         [] OTHER -> call[c]]
  /\ acceptable' = [k \in Keys |-> IF k \in loose \cup undone THEN {OnDisk[k]} ELSE acceptable[k]]
  /\ loose' = {} /\ undone' = {}
  /\ UNCHANGED <<plain, vault>>

Next ==
  \/ \E c \in ConfigCalls :
       SaveConfig(c) \/ LoadConfig(c) \/ BeginMigration(c)
         \/ \E u \in Updates : BeginSave(c, u) \/ RefuseSave(c, u)
  \/ WriteVault \/ RemoveVault \/ WriteConfig \/ Acknowledge \/ WriteFails
  \/ Restart

\* The queue moves on, and writes end.
Progress(c) ==
  \/ BeginMigration(c)
  \/ \E u \in Updates : BeginSave(c, u) \/ RefuseSave(c, u)
  \/ /\ op # None /\ op.by = c
     /\ WriteVault \/ RemoveVault \/ WriteConfig \/ Acknowledge \/ WriteFails

Unfinished(c) == call[c] \in {"queued", "running"}

-----------------------------------------------------------------------------
(* Properties *)

\* A key that was saved is found by the next load, and one that was removed is
\* not, past writes that fail and ends of the process between two of them,
\* migrations and saves made while the vault could not be read.  Exempt are keys
\* that were accepted for this life of the process only, once it has ended
\* (secretsSessionOnly), and removals the code lets come back: those of a key in
\* a vault it could not remove or may not rewrite.
SecretsSurvive ==
  ~Locked => \A k \in Keys \ undone : Effective[k] \in acceptable[k]

\* Nothing is written in clear text: what config.json or an unencrypted vault has
\* of keys was there when the program was installed.
NoNewPlaintext ==
  /\ \A k \in Keys : plain[k] \in {OldPlain, None}
  /\ vault.form = "plain" => \A k \in Keys : vault.data[k] \in {OldVault, None}
=============================================================================
