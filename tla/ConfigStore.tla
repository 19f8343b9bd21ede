---------------------------- MODULE ConfigStore ----------------------------
(***************************************************************************)
(* The settings of the bot between the command line, the table "config",   *)
(* the running process and its web UI (app/settings.go, app/config,        *)
(* app/webapi/config.go, and the start in app/main.go).                    *)
(*                                                                         *)
(* The many settings stand here for their kinds: two secrets, a limit      *)
(* whose zero means "disabled", an address whose empty value means         *)
(* "disabled" too, the listen address and dry mode, which the command line *)
(* may override, whether the report thresholds pass the validation, and    *)
(* the instance id, which picks the row of the table and salts the key.    *)
(*                                                                         *)
(* A password, and its bcrypt hash, is a number: 0 is none, those people   *)
(* choose come first, and those generated after them, each a new one.      *)
(***************************************************************************)
EXTENDS Integers

CONSTANTS
  Chosen,        \* number of passwords people choose
  Instances,     \* instance ids
  Keys,          \* master keys
  NoKey,         \* no encryption
  Options,       \* command lines
  Forms,         \* forms sent from the settings page
  Blobs,         \* what other tools write to the table, and to which row
  NoRow,         \* no settings of an instance in the table
  NotRunning,    \* no process
  MaxGenerated   \* bound on the passwords generated

AutoPassword == -1       \* --server.auth=auto, the default

Missing == -1    \* a number the form does not have

Passwords == 0 .. Chosen + MaxGenerated

(* A value of a sensitive field, and the key it is encrypted with. *)
Secrets == [value : Passwords, key : Keys \cup {NoKey}]

Sensitive == {"hash", "token"}

Settings == [instance : Instances \cup {""}, hash : Secrets, token : Secrets,
             limit : {0, 1}, cas : {"", "api"},
             listen : {"", "default", "other"}, dry : BOOLEAN, valid : BOOLEAN]

ASSUME ConfigAssumption ==
  /\ Chosen \in Nat /\ MaxGenerated \in Nat
  /\ "tg-spam" \in Instances /\ "" \notin Instances
  /\ NoKey \notin Keys
  /\ NoRow \notin Settings
  /\ Blobs \subseteq [to : Instances, settings : Settings]
  /\ Options \subseteq [confdb : BOOLEAN, instance : Instances,
                        key : Keys \cup {NoKey},
                        passwd : {AutoPassword} \cup 0 .. Chosen, hash : 0 .. Chosen,
                        token : 0 .. Chosen, limit : {0, 1},
                        cas : {"", "api"}, listen : {"default", "other"},
                        dry : BOOLEAN, valid : BOOLEAN]
  /\ Forms \subseteq [limit : {0, 1, Missing}, cas : BOOLEAN, dry : BOOLEAN,
                      valid : BOOLEAN]

VARIABLES
  rows,       \* the settings of each instance in the table
  web,        \* the process: settings, options, its row, its password
  generated,  \* passwords generated so far
  saved,      \* history: what the program last stored of each, in plain
  sealed,     \* history: the key it stored it with
  synced      \* history: the row the settings of the process come from or
              \* went to last; "" if they have changed since, or the row has

vars == <<rows, web, generated, saved, sealed, synced>>

Plain(n) == [value |-> n, key |-> NoKey]
Blank == Plain(0)

Unset == [instance |-> "", hash |-> Blank, token |-> Blank, limit |-> 0,
          cas |-> "", listen |-> "", dry |-> FALSE, valid |-> TRUE]

Defaults == [Unset EXCEPT !.instance = "tg-spam", !.limit = 1, !.cas = "api",
                          !.listen = "default"]

Init ==
  /\ rows = [i \in Instances |-> NoRow]
  /\ web = NotRunning /\ generated = 0
  /\ saved = [i \in Instances |-> NoRow]
  /\ sealed = [i \in Instances |-> NoKey] /\ synced = ""

Running == web # NotRunning

-----------------------------------------------------------------------------
(* Encryption. *)
IsEncrypted(secret) == secret.key # NoKey

(* Mutant: the hash is not in the list of fields. *)
EncryptTokenOnly(s, key) ==
  IF key = NoKey \/ s.token = Blank \/ IsEncrypted(s.token) THEN s
  ELSE [s EXCEPT !.token.key = key]

(* Crypter.Encrypt: nothing stays nothing. *)
Seal(secret, key) ==
  IF secret = Blank THEN secret ELSE [secret EXCEPT !.key = key]

(* EncryptSensitiveFields, if the store has a key *)
Encrypt(s, key) ==
  [f \in DOMAIN s |->
     IF f \in Sensitive /\ key # NoKey /\ ~IsEncrypted(s[f])
     THEN Seal(s[f], key) ELSE s[f]]

(* DecryptSensitiveFields fails with the wrong key. *)
Decrypts(s, key) ==
  key = NoKey \/ \A f \in Sensitive : s[f].key \in {key, NoKey}

Reveal(s) ==
  [f \in DOMAIN s |-> IF f \in Sensitive THEN Plain(s[f].value) ELSE s[f]]

Decrypt(s, key) == IF key = NoKey THEN s ELSE Reveal(s)

-----------------------------------------------------------------------------
(* Defaults and the command line. *)
zeroAwarePaths == {"limit"}

(* Mutant: zero is always a missing value. *)
ApplyDefaultsAll(s) ==
  [f \in DOMAIN s |-> IF s[f] = Unset[f] THEN Defaults[f] ELSE s[f]]

ApplyDefaults(s) ==
  [f \in DOMAIN s |->
     IF f \notin zeroAwarePaths /\ s[f] = Unset[f] THEN Defaults[f] ELSE s[f]]

(* applyOperationalCLIOverrides *)
ApplyOperational(s, o) ==
  [s EXCEPT !.dry = @ \/ o.dry,
            !.listen = IF o.listen # Defaults.listen THEN o.listen ELSE @]

PasswordGiven(o) == o.passwd # AutoPassword
HashGiven(o) == o.hash # 0

(* applyCLIOverrides *)
ApplyCLI(s, o) ==
  ApplyOperational(
    [s EXCEPT !.token = IF o.token # 0 THEN Plain(o.token) ELSE @,
              !.hash = IF HashGiven(o) THEN Plain(o.hash)
                       ELSE IF PasswordGiven(o) THEN Blank ELSE @], o)

(* optToSettings *)
FromOptions(o) ==
  [instance |-> o.instance, hash |-> Plain(o.hash), token |-> Plain(o.token),
   limit |-> o.limit, cas |-> o.cas, listen |-> o.listen, dry |-> o.dry,
   valid |-> o.valid]

(* Store.Load finds settings it can read. *)
Loadable(i, key) == rows[i] # NoRow /\ Decrypts(rows[i], key)

(* A row without an instance id gets that of the command line, before the  *)
(* defaults; one with an id keeps it.                                      *)
Restored(s, i) == [s EXCEPT !.instance = IF @ = "" THEN i ELSE @]

Loaded(o) ==
  ApplyDefaults(Restored(Decrypt(rows[o.instance], o.key), o.instance))

(* The settings main starts with. *)
Initial(o) == IF o.confdb THEN ApplyCLI(Loaded(o), o) ELSE FromOptions(o)

(* Transient.WebAuthPasswd; 0 is the empty one *)
WebAuthPasswd(o) ==
  IF o.confdb /\ (HashGiven(o) \/ ~PasswordGiven(o)) THEN 0 ELSE o.passwd

(* Transient.AuthFromCLI, which only the overrides set *)
AuthFromCLI(o) == o.confdb /\ (HashGiven(o) \/ PasswordGiven(o))

-----------------------------------------------------------------------------
(* generateAuthHash: the hash a password gives, and the count of those     *)
(* generated with it.                                                      *)
Hash(passwd) ==
  IF passwd = AutoPassword THEN Plain(Chosen + generated + 1) ELSE Plain(passwd)

GenerateAuthHash(passwd) ==
  /\ passwd = AutoPassword => generated < MaxGenerated
  /\ generated' = IF passwd = AutoPassword THEN generated + 1 ELSE generated

(* Mutant: without a hash and a password there is no protection. *)
ApplyAutoAuthFallbackNever(s, o) == FALSE

ApplyAutoAuthFallback(s, o) ==
  s.hash = Blank /\ WebAuthPasswd(o) = 0 /\ ~AuthFromCLI(o)

(* The program stores settings in the row of an instance. *)
Store(i, s, key) ==
  /\ rows' = [rows EXCEPT ![i] = Encrypt(s, key)]
  /\ saved' = [saved EXCEPT ![i] = Reveal(s)]
  /\ sealed' = [sealed EXCEPT ![i] = key]

(* Somebody else writes a row. *)
Overtaken(i) == synced' = IF synced = i THEN "" ELSE synced

(* The save-config command. *)
SaveConfigToDB(o) ==
  LET s == Initial(o)
      passwd == WebAuthPasswd(o)
      needed == s.hash = Blank /\ passwd # 0
  IN /\ o.confdb => Loadable(o.instance, o.key)
     /\ IF needed
        THEN GenerateAuthHash(passwd)
             /\ Store(s.instance, [s EXCEPT !.hash = Hash(passwd)], o.key)
        ELSE UNCHANGED generated /\ Store(s.instance, s, o.key)
     /\ Overtaken(s.instance) /\ UNCHANGED web

(* validateSettings *)
Valid(s) == s.valid

(* The start, up to activateServer: the stores are bound to the instance   *)
(* id the settings have by then.                                           *)
Start(o) ==
  LET s == Initial(o)
      fallback == ApplyAutoAuthFallback(s, o)
      passwd == IF fallback THEN AutoPassword ELSE WebAuthPasswd(o)
      hash == IF s.hash # Blank THEN s.hash ELSE Hash(passwd)
  IN /\ ~Running
     /\ o.confdb => Loadable(o.instance, o.key)
     /\ Valid(s)
     /\ IF s.hash = Blank THEN GenerateAuthHash(passwd)
        ELSE UNCHANGED generated
     /\ web' = [settings |-> [s EXCEPT !.hash = hash], opts |-> o,
                gid |-> s.instance, authFromCLI |-> AuthFromCLI(o) \/ fallback,
                authHash |-> hash]
     /\ synced' = IF o.confdb THEN o.instance ELSE ""
     /\ UNCHANGED <<rows, saved, sealed>>

Stop ==
  /\ Running /\ web' = NotRunning /\ synced' = ""
  /\ UNCHANGED <<rows, generated, saved, sealed>>

-----------------------------------------------------------------------------
(* The web UI has its configuration pages with --confdb only. *)
ConfigDBMode == Running /\ web.opts.confdb

(* saveConfigHandler *)
SaveConfigHandler ==
  /\ ConfigDBMode /\ Store(web.gid, web.settings, web.opts.key)
  /\ synced' = web.gid /\ UNCHANGED <<web, generated>>

(* reloadNormalize: the defaults have an instance id, too. *)
ReloadNormalize(s) == ApplyOperational(ApplyDefaults(s), web.opts)

Reread == ReloadNormalize(Decrypt(rows[web.gid], web.opts.key))

(* Mutant: the stored hash always wins. *)
LoadConfigHandlerForgetful ==
  /\ ConfigDBMode /\ Loadable(web.gid, web.opts.key)
  /\ web' = [web EXCEPT !.settings = Reread]
  /\ synced' = web.gid /\ UNCHANGED <<rows, generated, saved, sealed>>

(* loadConfigHandler: a password of this process outlives the reload. *)
LoadConfigHandler ==
  /\ ConfigDBMode /\ Loadable(web.gid, web.opts.key)
  /\ web' = [web EXCEPT !.settings =
               IF web.authFromCLI
               THEN [Reread EXCEPT !.hash = web.settings.hash] ELSE Reread]
  /\ synced' = web.gid /\ UNCHANGED <<rows, generated, saved, sealed>>

(* Mutant: the state of the checkbox is stored. *)
UpdateSettingsFromFormRaw(s, form) ==
  [s EXCEPT !.limit = form.limit, !.dry = form.dry, !.valid = form.valid,
            !.cas = form.cas]

(* updateSettingsFromForm: a number missing in the form stays as it is. *)
UpdateSettingsFromForm(s, form) ==
  [s EXCEPT !.limit = IF form.limit = Missing THEN @ ELSE form.limit,
            !.dry = form.dry, !.valid = form.valid,
            !.cas = IF ~form.cas THEN "" ELSE IF @ = "" THEN "api" ELSE @]

(* updateConfigHandler: what cannot be saved is taken back. *)
UpdateConfigHandler(form, toDB, fails) ==
  LET s == UpdateSettingsFromForm(web.settings, form)
  IN /\ ConfigDBMode
     /\ IF toDB /\ fails THEN UNCHANGED <<web, rows, saved, sealed, synced>>
        ELSE /\ web' = [web EXCEPT !.settings = s]
             /\ synced' = IF toDB THEN web.gid ELSE ""
             /\ IF toDB THEN Store(web.gid, s, web.opts.key)
                ELSE UNCHANGED <<rows, saved, sealed>>
     /\ UNCHANGED generated

(* A row is gone, or not the program's. *)
Replace(i, r) ==
  /\ rows' = [rows EXCEPT ![i] = r]
  /\ saved' = [saved EXCEPT ![i] = NoRow]
  /\ sealed' = [sealed EXCEPT ![i] = NoKey]
  /\ Overtaken(i) /\ UNCHANGED <<web, generated>>

(* deleteConfigHandler *)
DeleteConfigHandler == ConfigDBMode /\ Replace(web.gid, NoRow)

(* Another tool writes settings, perhaps not all. *)
WriteBlob(blob) == Replace(blob.to, blob.settings)

Next ==
  \/ \E o \in Options : SaveConfigToDB(o) \/ Start(o)
  \/ Stop \/ SaveConfigHandler \/ LoadConfigHandler \/ DeleteConfigHandler
  \/ \E form \in Forms, toDB \in BOOLEAN, fails \in BOOLEAN :
       UpdateConfigHandler(form, toDB, fails)
  \/ \E blob \in Blobs : WriteBlob(blob)

Spec == Init /\ [][Next]_vars

-----------------------------------------------------------------------------
Processes == [settings : Settings, opts : Options, gid : Instances,
              authFromCLI : BOOLEAN, authHash : Secrets]

(* Every variable has its type. *)
TypeOK ==
  /\ rows \in [Instances -> Settings \cup {NoRow}]
  /\ web = NotRunning \/ web \in Processes
  /\ generated \in 0 .. MaxGenerated
  /\ saved \in [Instances -> Settings \cup {NoRow}]
  /\ sealed \in [Instances -> Keys \cup {NoKey}]
  /\ synced \in Instances \cup {""}

(* The server starts without basic auth, and never gets it. *)
Open == web.authHash = Blank

(* checkBasicAuth: the hash a password is compared with *)
ActiveHash ==
  IF web.settings.hash # Blank THEN web.settings.hash ELSE web.authHash

(* The web UI is open to everybody only if the operator asked for it with  *)
(* an empty --server.auth, whatever the table lost (applyAutoAuthFallback).*)
OpenOnlyOnPurpose ==
  Running /\ Open => web.opts.passwd = 0 /\ web.opts.hash = 0

(* A password given on the command line, or generated and printed at the   *)
(* start, is the one that is valid until the process ends, however often   *)
(* the settings are reloaded, replaced, deleted or saved meanwhile.        *)
CredentialHolds ==
  Running /\ web.authFromCLI => ActiveHash = web.authHash

(* What the program stores with a key is encrypted, with this key, however *)
(* it came by its secrets.                                                 *)
SecretsAreEncrypted ==
  \A i \in Instances : rows[i] # NoRow /\ sealed[i] # NoKey =>
    \A f \in Sensitive : rows[i][f] = Blank \/ rows[i][f].key = sealed[i]

(* A process with the key works with the secrets in plain: encrypted ones  *)
(* would lock everybody out, and Telegram would refuse the token.          *)
MemoryIsPlain ==
  ConfigDBMode /\ web.opts.key # NoKey =>
    \A f \in Sensitive : ~IsEncrypted(web.settings[f])

(* Secrets are sealed in the table and plain in memory, as encryption is   *)
(* of a copy and undone on the way back, whatever mixture others wrote.    *)
SecretsAreSafe == SecretsAreEncrypted /\ MemoryIsPlain

(* The program has saved settings, and the process has them. *)
HasSaved == Running /\ synced # "" /\ saved[synced] # NoRow

(* A process whose settings come from a row, or went there last, has what  *)
(* the program acknowledged to have saved there: through encryption, the   *)
(* defaults, a restart or a reload, and updates that failed.  A limit      *)
(* disabled with 0 stays so.  The command line has its say.                *)
SavedSurvives ==
  HasSaved =>
    LET s == web.settings  o == web.opts  was == saved[synced]
    IN /\ s.limit = was.limit /\ s.valid = was.valid
       /\ s.token.value = was.token.value
            \/ (o.token # 0 /\ s.token.value = o.token)
       /\ s.hash.value = was.hash.value \/ web.authFromCLI
       /\ s.dry = was.dry \/ o.dry

(* A feature the operator disabled, and whose settings were saved, stays   *)
(* disabled ("To disable it, set --cas.api= to empty string").             *)
CasStaysOff ==
  HasSaved /\ saved[synced].cas = "" => web.settings.cas = ""

(* As long as no tool writes an instance id into the table, a process has  *)
(* the stores of the instance it was started for ("preserve InstanceID     *)
(* supplied by --instance-id", loadConfigFromDB).                          *)
InstanceIsKept == ConfigDBMode => web.gid = web.opts.instance

=============================================================================
