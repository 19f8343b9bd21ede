------------------------- MODULE ConfigStoreProofs -------------------------
(***************************************************************************)
(* Proofs about ConfigStore for any instances, passwords, keys, command    *)
(* lines, forms and rows written by others.  There are two inductive invariants, which  *)
(* do not need each other: IInv, about the secrets, and SavedInv, about    *)
(* what was saved.                                                         *)
(***************************************************************************)
EXTENDS ConfigStore, TLAPS

-----------------------------------------------------------------------------
(* The inductive invariant.  Whether the password of a process holds, and  *)
(* whether its secrets are plain, depends on what it reads back from the   *)
(* table, so the parts about the memory and about the row support each     *)
(* other.                                                                  *)

Values == [value : Int, key : Keys \cup {NoKey}]

(* All the proofs need of the type of settings. *)
WellFormed(s) ==
  /\ {"instance", "hash", "token"} \subseteq DOMAIN s
  /\ s["instance"] \in Instances \cup {""}
  /\ s["hash"] \in Values /\ s["token"] \in Values

PlainSecrets(s) == s["hash"].key = NoKey /\ s["token"].key = NoKey

Table ==
  /\ DOMAIN rows = Instances /\ DOMAIN sealed = Instances
  /\ \A i \in Instances : rows[i] # NoRow => WellFormed(rows[i])

Shapes ==
  /\ Table
  /\ generated \in Nat
  /\ Running =>
       /\ web = [settings |-> web.settings, opts |-> web.opts,
                 gid |-> web.gid, authFromCLI |-> web.authFromCLI,
                 authHash |-> web.authHash]
       /\ WellFormed(web.settings) /\ web.opts \in Options
       /\ web.gid \in Instances

(* The password of the process is in its settings. *)
PasswordKept == Running /\ web.authFromCLI =>
                  web.settings["hash"] = web.authHash

WorksInPlain == Running /\ web.opts.key # NoKey => PlainSecrets(web.settings)

IInv ==
  /\ Shapes /\ PasswordKept /\ WorksInPlain
  /\ SecretsAreEncrypted /\ OpenOnlyOnPurpose

-----------------------------------------------------------------------------
(* Encryption and decryption. *)
LEMMA SealSeals ==
  ASSUME NEW v \in Values, NEW key \in Keys
  PROVE  Seal(v, key) \in Values /\ (Seal(v, key) = Blank \/ Seal(v, key).key = key)
BY DEF Seal, Values, Blank, Plain

LEMMA EncryptEncrypts ==
  ASSUME NEW s, WellFormed(s), NEW key \in Keys \cup {NoKey}
  PROVE  /\ WellFormed(Encrypt(s, key))
         /\ key # NoKey /\ PlainSecrets(s) =>
              \A f \in Sensitive :
                Encrypt(s, key)[f] = Blank \/ Encrypt(s, key)[f].key = key
<1> DEFINE e == Encrypt(s, key)
<1>1. DOMAIN e = DOMAIN s
  BY DEF Encrypt
<1>2. \A f \in {"hash", "token"} :
        e[f] = IF key # NoKey /\ ~IsEncrypted(s[f]) THEN Seal(s[f], key)
               ELSE s[f]
  BY DEF Encrypt, WellFormed, Sensitive
<1>3. \A f \in {"hash", "token"} : e[f] \in Values
  BY <1>2, SealSeals DEF WellFormed
<1>a. e["instance"] = s["instance"]
  BY DEF Encrypt, WellFormed, Sensitive
<1>4. WellFormed(e)
  BY <1>1, <1>3, <1>a DEF WellFormed
<1>5. ASSUME key # NoKey, PlainSecrets(s), NEW f \in Sensitive
      PROVE  e[f] = Blank \/ e[f].key = key
  BY <1>2, <1>5, SealSeals DEF WellFormed, PlainSecrets, IsEncrypted, Sensitive
<1> QED
  BY <1>4, <1>5

LEMMA PlainIsValue ==
  ASSUME NEW n \in Int
  PROVE  Plain(n) \in Values /\ Plain(n).key = NoKey
BY DEF Plain, Values

LEMMA DecryptDecrypts ==
  ASSUME NEW s, WellFormed(s), NEW key
  PROVE  /\ WellFormed(Decrypt(s, key))
         /\ key # NoKey => PlainSecrets(Decrypt(s, key))
<1>1. CASE key = NoKey
  BY <1>1 DEF Decrypt
<1>2. CASE key # NoKey
  <2> DEFINE d == Decrypt(s, key)
  <2>1. DOMAIN d = DOMAIN s
    BY <1>2 DEF Decrypt, Reveal
  <2>2. /\ d["instance"] = s["instance"]
        /\ d["hash"] = Plain(s["hash"].value)
        /\ d["token"] = Plain(s["token"].value)
    BY <1>2 DEF Decrypt, Reveal, WellFormed, Sensitive
  <2>3. s["hash"].value \in Int /\ s["token"].value \in Int
    BY DEF WellFormed, Values
  <2> QED
    <3>1. WellFormed(d)
      BY <2>1, <2>2, <2>3, PlainIsValue DEF WellFormed
    <3>2. PlainSecrets(d)
      BY <2>2, <2>3, PlainIsValue DEF PlainSecrets
    <3> QED
      BY <3>1, <3>2
<1> QED
  BY <1>1, <1>2

-----------------------------------------------------------------------------
(* Defaults and overrides. *)
LEMMA DefaultsKeep ==
  ASSUME NEW s, WellFormed(s)
  PROVE  /\ WellFormed(ApplyDefaults(s))
         /\ PlainSecrets(s) => PlainSecrets(ApplyDefaults(s))
         /\ ApplyDefaults(s)["instance"] \in Instances
<1>1. DOMAIN ApplyDefaults(s) = DOMAIN s
  BY DEF ApplyDefaults
<1>2. Unset["hash"] = Blank /\ Unset["token"] = Blank
  BY DEF Unset
<1>3. Defaults["hash"] = Blank /\ Defaults["token"] = Blank
  BY <1>2 DEF Defaults, Unset
<1>4. \A f \in {"hash", "token"} : ApplyDefaults(s)[f] = s[f]
  BY <1>2, <1>3 DEF ApplyDefaults, WellFormed, zeroAwarePaths
<1>5. ApplyDefaults(s)["instance"] \in Instances
  <2>1. /\ Unset["instance"] = "" /\ Defaults["instance"] = "tg-spam"
        /\ "tg-spam" \in Instances
    BY ConfigAssumption DEF Unset, Defaults
  <2>2. ApplyDefaults(s)["instance"] =
          IF s["instance"] = Unset["instance"] THEN Defaults["instance"]
          ELSE s["instance"]
    BY DEF ApplyDefaults, WellFormed, zeroAwarePaths
  <2> QED
    BY <2>1, <2>2 DEF WellFormed
<1> QED
  BY <1>1, <1>4, <1>5 DEF WellFormed, PlainSecrets

(* A row without an instance id gets another's, and nothing else. *)
LEMMA RestoredKeeps ==
  ASSUME NEW s, WellFormed(s), NEW i \in Instances
  PROVE  /\ WellFormed(Restored(s, i))
         /\ PlainSecrets(s) => PlainSecrets(Restored(s, i))
<1>1. /\ DOMAIN Restored(s, i) = DOMAIN s
      /\ Restored(s, i)["instance"] \in {s["instance"], i}
      /\ \A f \in {"hash", "token"} : Restored(s, i)[f] = s[f]
  BY DEF Restored, WellFormed
<1> QED
  BY <1>1 DEF WellFormed, PlainSecrets

LEMMA OperationalKeeps ==
  ASSUME NEW s, WellFormed(s), NEW o
  PROVE  /\ WellFormed(ApplyOperational(s, o))
         /\ ApplyOperational(s, o)["hash"] = s["hash"]
         /\ ApplyOperational(s, o)["instance"] = s["instance"]
         /\ PlainSecrets(s) => PlainSecrets(ApplyOperational(s, o))
<1>1. /\ DOMAIN ApplyOperational(s, o) = DOMAIN s
      /\ \A f \in {"instance", "hash", "token"} :
           ApplyOperational(s, o)[f] = s[f]
  BY DEF ApplyOperational, WellFormed
<1> QED
  BY <1>1 DEF WellFormed, PlainSecrets

LEMMA OptionTypes ==
  ASSUME NEW o \in Options
  PROVE  /\ o.key \in Keys \cup {NoKey} /\ o.confdb \in BOOLEAN
         /\ o.instance \in Instances
         /\ o.passwd \in Int /\ o.hash \in Int /\ o.token \in Int
<1>1. /\ o.key \in Keys \cup {NoKey} /\ o.confdb \in BOOLEAN
      /\ o.instance \in Instances
      /\ o.passwd \in {AutoPassword} \cup 0 .. Chosen
      /\ o.hash \in 0 .. Chosen /\ o.token \in 0 .. Chosen
  BY ConfigAssumption
<1>2. Chosen \in Nat
  BY ConfigAssumption
<1> QED
  BY <1>1, <1>2 DEF AutoPassword

(* What main starts with. *)
LEMMA InitialSettings ==
  ASSUME NEW o \in Options, Shapes, o.confdb => Loadable(o.instance, o.key)
  PROVE  /\ WellFormed(Initial(o)) /\ Initial(o)["instance"] \in Instances
         /\ o.key # NoKey => PlainSecrets(Initial(o))
         /\ HashGiven(o) => Initial(o)["hash"] = Plain(o.hash)
<1>0. o.hash \in Int /\ o.token \in Int /\ o.instance \in Instances
  BY OptionTypes
<1>1. CASE ~o.confdb
  <2> DEFINE e == FromOptions(o)
  <2>1. Initial(o) = e
    BY <1>1 DEF Initial
  <2>2. /\ {"instance", "hash", "token"} \subseteq DOMAIN e
        /\ e["instance"] = o.instance
        /\ e["hash"] = Plain(o.hash) /\ e["token"] = Plain(o.token)
    BY DEF FromOptions
  <2> HIDE DEF e
  <2>3. WellFormed(e) /\ PlainSecrets(e)
    BY <1>0, <2>2, PlainIsValue DEF WellFormed, PlainSecrets
  <2> QED
    BY <1>0, <1>1, <2>1, <2>2, <2>3
<1>2. CASE o.confdb
  <2> DEFINE d == Decrypt(rows[o.instance], o.key)
             r == Restored(d, o.instance)
             l == Loaded(o)
             t == [l EXCEPT !.token = IF o.token # 0 THEN Plain(o.token) ELSE @,
                            !.hash = IF HashGiven(o) THEN Plain(o.hash)
                                     ELSE IF PasswordGiven(o) THEN Blank ELSE @]
  <2>1. WellFormed(rows[o.instance])
    BY <1>0, <1>2 DEF Loadable, Shapes, Table
  <2>e. WellFormed(d) /\ (o.key # NoKey => PlainSecrets(d))
    BY <2>1, DecryptDecrypts
  <2> HIDE DEF d
  <2>f. WellFormed(r) /\ (o.key # NoKey => PlainSecrets(r))
    BY <1>0, <2>e, RestoredKeeps
  <2>g. l = ApplyDefaults(r)
    BY DEF Loaded, d
  <2> HIDE DEF r, l
  <2>2. /\ WellFormed(l) /\ (o.key # NoKey => PlainSecrets(l))
        /\ l["instance"] \in Instances
    BY <2>f, <2>g, DefaultsKeep
  <2>3. /\ DOMAIN t = DOMAIN l /\ t["instance"] = l["instance"]
        /\ t["token"] = IF o.token # 0 THEN Plain(o.token) ELSE l["token"]
        /\ t["hash"] = IF HashGiven(o) THEN Plain(o.hash)
                       ELSE IF PasswordGiven(o) THEN Blank ELSE l["hash"]
    BY <2>2 DEF WellFormed
  <2>a. \A n \in Int : Plain(n) \in Values /\ Plain(n).key = NoKey
    BY PlainIsValue
  <2>b. Blank \in Values /\ Blank.key = NoKey
    BY <2>a DEF Blank
  <2>c. t["token"] \in Values /\ t["hash"] \in Values
    BY <1>0, <2>2, <2>3, <2>a, <2>b DEF WellFormed
  <2>4. WellFormed(t) /\ (o.key # NoKey => PlainSecrets(t))
    BY <1>0, <2>2, <2>3, <2>a, <2>b, <2>c DEF WellFormed, PlainSecrets
  <2>5. Initial(o) = ApplyOperational(t, o)
    BY <1>2 DEF Initial, ApplyCLI, l
  <2>6. HashGiven(o) => t["hash"] = Plain(o.hash)
    BY <2>3
  <2> HIDE DEF t
  <2>7. /\ WellFormed(ApplyOperational(t, o))
        /\ ApplyOperational(t, o)["hash"] = t["hash"]
        /\ ApplyOperational(t, o)["instance"] = t["instance"]
        /\ PlainSecrets(t) => PlainSecrets(ApplyOperational(t, o))
    BY <2>4, OperationalKeeps
  <2>8. t["instance"] \in Instances
    BY <2>2, <2>3 DEF t
  <2> QED
    BY <2>4, <2>5, <2>6, <2>7, <2>8
<1> QED
  BY <1>1, <1>2

LEMMA BlankIsZero ==
  ASSUME NEW n \in Int, Plain(n) = Blank
  PROVE  n = 0
<1>1. Plain(n).value = n /\ Blank.value = 0
  BY DEF Plain, Blank
<1> QED
  BY <1>1

(* A password that is not empty gives a hash that is not. *)
LEMMA HashIsValue ==
  ASSUME NEW passwd \in Int, generated \in Nat
  PROVE  /\ Hash(passwd) \in Values /\ Hash(passwd).key = NoKey
         /\ Hash(passwd) = Blank => passwd = 0
<1>0. Chosen \in Nat
  BY ConfigAssumption
<1>1. CASE passwd = AutoPassword
  <2> DEFINE n == Chosen + generated + 1
  <2>1. n \in Int /\ n # 0
    BY <1>0
  <2>2. Hash(passwd) = Plain(n)
    BY <1>1 DEF Hash
  <2> QED
    BY <2>1, <2>2, PlainIsValue, BlankIsZero
<1>2. CASE passwd # AutoPassword
  <2>1. Hash(passwd) = Plain(passwd)
    BY <1>2 DEF Hash
  <2> QED
    BY <2>1, PlainIsValue, BlankIsZero
<1> QED
  BY <1>1, <1>2

LEMMA GenerateCounts ==
  ASSUME NEW passwd, generated \in Nat, GenerateAuthHash(passwd)
  PROVE  generated' \in Nat
BY DEF GenerateAuthHash

-----------------------------------------------------------------------------
(* Storing settings whose secrets are plain seals them. *)
LEMMA StoreSeals ==
  ASSUME Table, SecretsAreEncrypted, NEW i, NEW s, WellFormed(s),
         NEW key \in Keys \cup {NoKey}, key # NoKey => PlainSecrets(s),
         Store(i, s, key)
  PROVE  Table' /\ SecretsAreEncrypted'
<1> DEFINE e == Encrypt(s, key)
<1>1. /\ rows' = [rows EXCEPT ![i] = e] /\ sealed' = [sealed EXCEPT ![i] = key]
  BY DEF Store
<1>2. /\ WellFormed(e)
      /\ key # NoKey => \A f \in Sensitive : e[f] = Blank \/ e[f].key = key
  BY EncryptEncrypts
<1> HIDE DEF e
<1>3. /\ DOMAIN rows' = Instances /\ DOMAIN sealed' = Instances
      /\ \A j \in Instances :
           /\ rows'[j] = IF j = i THEN e ELSE rows[j]
           /\ sealed'[j] = IF j = i THEN key ELSE sealed[j]
  BY <1>1 DEF Table
<1>4. Table'
  BY <1>2, <1>3 DEF Table
<1>5. SecretsAreEncrypted'
  BY <1>2, <1>3 DEF SecretsAreEncrypted
<1> QED
  BY <1>4, <1>5

(* Nothing changes about the process: what the invariant says of it stays. *)
LEMMA ProcessKept ==
  ASSUME IInv, UNCHANGED web, generated' \in Nat,
         Table', SecretsAreEncrypted'
  PROVE  IInv'
BY DEF IInv, Shapes, PasswordKept, WorksInPlain, OpenOnlyOnPurpose, Open,
       Running

LEMMA SaveConfigKeeps ==
  ASSUME IInv, NEW o \in Options, SaveConfigToDB(o)
  PROVE  IInv'
<1> DEFINE s == Initial(o)
           passwd == WebAuthPasswd(o)
           needed == s.hash = Blank /\ passwd # 0
<1>1. /\ generated \in Nat /\ UNCHANGED web
      /\ Table /\ SecretsAreEncrypted
  BY DEF IInv, Shapes, SaveConfigToDB
<1>2. WellFormed(s) /\ (o.key # NoKey => PlainSecrets(s))
  BY InitialSettings DEF IInv, SaveConfigToDB
<1>3. o.key \in Keys \cup {NoKey} /\ o.passwd \in Int
  BY OptionTypes
<1>4. CASE needed
  <2> DEFINE h == [s EXCEPT !.hash = Hash(passwd)]
  <2>1. GenerateAuthHash(passwd) /\ Store(s.instance, h, o.key)
    BY <1>4 DEF SaveConfigToDB
  <2>2. passwd \in Int
    BY <1>3 DEF WebAuthPasswd
  <2>3. Hash(passwd) \in Values /\ Hash(passwd).key = NoKey
    BY <1>1, <2>2, HashIsValue
  <2>4. /\ DOMAIN h = DOMAIN s /\ h["hash"] = Hash(passwd)
        /\ h["token"] = s["token"] /\ h["instance"] = s["instance"]
    BY <1>2 DEF WellFormed
  <2>5. WellFormed(h) /\ (o.key # NoKey => PlainSecrets(h))
    BY <1>2, <2>3, <2>4 DEF WellFormed, PlainSecrets
  <2> HIDE DEF h
  <2>6. Table' /\ SecretsAreEncrypted'
    BY <1>1, <1>3, <2>1, <2>5, StoreSeals
  <2>7. generated' \in Nat
    BY <1>1, <2>1, GenerateCounts
  <2> QED
    BY <1>1, <2>6, <2>7, ProcessKept
<1>5. CASE ~needed
  <2>1. Store(s.instance, s, o.key) /\ UNCHANGED generated
    BY <1>5 DEF SaveConfigToDB
  <2>2. Table' /\ SecretsAreEncrypted'
    BY <1>1, <1>2, <1>3, <2>1, StoreSeals
  <2> QED
    BY <1>1, <2>1, <2>2, ProcessKept
<1> QED
  BY <1>4, <1>5

LEMMA StartKeeps ==
  ASSUME IInv, NEW o \in Options, Start(o)
  PROVE  IInv'
<1> DEFINE s == Initial(o)
           fallback == ApplyAutoAuthFallback(s, o)
           passwd == IF fallback THEN AutoPassword ELSE WebAuthPasswd(o)
           hash == IF s.hash # Blank THEN s.hash ELSE Hash(passwd)
           set == [s EXCEPT !.hash = hash]
<1>1. /\ web' = [settings |-> set, opts |-> o, gid |-> s.instance,
                 authFromCLI |-> AuthFromCLI(o) \/ fallback, authHash |-> hash]
      /\ UNCHANGED <<rows, sealed>>
      /\ IF s.hash = Blank THEN GenerateAuthHash(passwd)
         ELSE UNCHANGED generated
  BY DEF Start
<1>2. /\ WellFormed(s) /\ (o.key # NoKey => PlainSecrets(s))
      /\ s.instance \in Instances
      /\ HashGiven(o) => s["hash"] = Plain(o.hash)
  BY InitialSettings DEF IInv, Start
<1>3. /\ o.key \in Keys \cup {NoKey} /\ o.passwd \in Int /\ o.hash \in Int
      /\ generated \in Nat
  BY OptionTypes DEF IInv, Shapes
<1>4. passwd \in Int
  BY <1>3 DEF WebAuthPasswd, AutoPassword
<1>5. /\ Hash(passwd) \in Values /\ Hash(passwd).key = NoKey
      /\ Hash(passwd) = Blank => passwd = 0
  BY <1>3, <1>4, HashIsValue
<1>6. generated' \in Nat
  BY <1>1, <1>3, GenerateCounts
<1>7. /\ DOMAIN set = DOMAIN s /\ set["hash"] = hash
      /\ set["token"] = s["token"] /\ set["instance"] = s["instance"]
  BY <1>2 DEF WellFormed
<1>8. hash \in Values /\ (o.key # NoKey => hash.key = NoKey)
  BY <1>2, <1>5 DEF WellFormed, PlainSecrets
<1>9. WellFormed(set) /\ (o.key # NoKey => PlainSecrets(set))
  BY <1>2, <1>7, <1>8 DEF WellFormed, PlainSecrets
<1>10. ASSUME hash = Blank
       PROVE  o.passwd = 0 /\ o.hash = 0
  <2>1. s.hash = Blank /\ passwd = 0
    BY <1>5, <1>10
  <2>2. ~fallback /\ WebAuthPasswd(o) = 0
    BY <2>1 DEF AutoPassword
  <2>3. AuthFromCLI(o)
    BY <2>1, <2>2 DEF ApplyAutoAuthFallback
  <2>4. ~HashGiven(o)
    <3>1. HashGiven(o) => Plain(o.hash) = Blank
      BY <1>2, <2>1
    <3> QED
      BY <1>3, <3>1, BlankIsZero DEF HashGiven
  <2> QED
    BY <2>2, <2>3, <2>4 DEF AuthFromCLI, WebAuthPasswd, HashGiven
<1> HIDE DEF set, hash, fallback
<1>11. /\ web'.settings = set /\ web'.opts = o /\ web'.authHash = hash
       /\ web'.gid = s.instance
       /\ web' = [settings |-> web'.settings, opts |-> web'.opts,
                  gid |-> web'.gid, authFromCLI |-> web'.authFromCLI,
                  authHash |-> web'.authHash]
  BY <1>1
<1>12. Shapes'
  BY <1>1, <1>2, <1>6, <1>9, <1>11 DEF IInv, Shapes, Table
<1>13. PasswordKept' /\ WorksInPlain'
  BY <1>7, <1>9, <1>11 DEF PasswordKept, WorksInPlain
<1>14. SecretsAreEncrypted'
  BY <1>1 DEF IInv, SecretsAreEncrypted
<1>15. OpenOnlyOnPurpose'
  BY <1>10, <1>11 DEF OpenOnlyOnPurpose, Open
<1> QED
  BY <1>12, <1>13, <1>14, <1>15 DEF IInv

(* New settings for the process, the password kept: the web UI's changes.  *)
LEMMA SettingsReplaced ==
  ASSUME IInv, Running, NEW s, WellFormed(s),
         web.opts.key # NoKey => PlainSecrets(s),
         web.authFromCLI => s["hash"] = web.settings["hash"],
         web' = [web EXCEPT !.settings = s], UNCHANGED generated,
         Table', SecretsAreEncrypted'
  PROVE  IInv'
<1>1. /\ web'.settings = s /\ web'.opts = web.opts /\ web'.gid = web.gid
      /\ web'.authFromCLI = web.authFromCLI /\ web'.authHash = web.authHash
      /\ web' = [settings |-> web'.settings, opts |-> web'.opts,
                 gid |-> web'.gid, authFromCLI |-> web'.authFromCLI,
                 authHash |-> web'.authHash]
  BY DEF IInv, Shapes
<1>2. Shapes'
  BY <1>1 DEF IInv, Shapes
<1>3. PasswordKept' /\ WorksInPlain' /\ OpenOnlyOnPurpose'
  BY <1>1 DEF IInv, PasswordKept, WorksInPlain, OpenOnlyOnPurpose, Open
<1> QED
  BY <1>2, <1>3 DEF IInv

LEMMA LoadConfigKeeps ==
  ASSUME IInv, LoadConfigHandler
  PROVE  IInv'
<1> DEFINE r == Reread
           h == [r EXCEPT !.hash = web.settings.hash]
           s == IF web.authFromCLI THEN h ELSE r
<1>1. /\ Running /\ WellFormed(rows[web.gid]) /\ WellFormed(web.settings)
      /\ web.opts.key # NoKey => PlainSecrets(web.settings)
  BY DEF LoadConfigHandler, ConfigDBMode, Loadable, IInv, Shapes, Table,
         WorksInPlain
<1>2. WellFormed(r) /\ (web.opts.key # NoKey => PlainSecrets(r))
  BY <1>1, DecryptDecrypts, DefaultsKeep, OperationalKeeps
     DEF Reread, ReloadNormalize
<1>3. /\ DOMAIN h = DOMAIN r /\ h["hash"] = web.settings["hash"]
      /\ h["token"] = r["token"] /\ h["instance"] = r["instance"]
  BY <1>2 DEF WellFormed
<1>4. WellFormed(h) /\ (web.opts.key # NoKey => PlainSecrets(h))
  BY <1>1, <1>2, <1>3 DEF WellFormed, PlainSecrets
<1>5. web' = [web EXCEPT !.settings = s] /\ UNCHANGED <<rows, generated, sealed>>
  BY DEF LoadConfigHandler
<1> HIDE DEF r, h
<1>6. /\ WellFormed(s) /\ (web.opts.key # NoKey => PlainSecrets(s))
      /\ web.authFromCLI => s["hash"] = web.settings["hash"]
  BY <1>2, <1>3, <1>4
<1>7. Table' /\ SecretsAreEncrypted'
  BY <1>5 DEF IInv, Shapes, Table, SecretsAreEncrypted
<1> HIDE DEF s
<1> QED
  BY <1>1, <1>5, <1>6, <1>7, SettingsReplaced

LEMMA UpdateConfigKeeps ==
  ASSUME IInv, NEW form, NEW toDB, NEW fails,
         UpdateConfigHandler(form, toDB, fails)
  PROVE  IInv'
<1> DEFINE s == UpdateSettingsFromForm(web.settings, form)
<1>1. /\ Running /\ WellFormed(web.settings) /\ generated \in Nat
      /\ web.opts.key # NoKey => PlainSecrets(web.settings)
      /\ web.opts \in Options
  BY DEF UpdateConfigHandler, ConfigDBMode, IInv, Shapes, WorksInPlain
<1>2. /\ DOMAIN s = DOMAIN web.settings
      /\ s["hash"] = web.settings["hash"] /\ s["token"] = web.settings["token"]
      /\ s["instance"] = web.settings["instance"]
  BY <1>1 DEF UpdateSettingsFromForm, WellFormed
<1>3. WellFormed(s) /\ (web.opts.key # NoKey => PlainSecrets(s))
  BY <1>1, <1>2 DEF WellFormed, PlainSecrets
<1> HIDE DEF s
<1>4. CASE toDB /\ fails
  <2>1. UNCHANGED <<web, rows, sealed, generated>>
    BY <1>4 DEF UpdateConfigHandler
  <2> QED
    BY <1>1, <2>1, ProcessKept DEF IInv, Shapes, Table, SecretsAreEncrypted
<1>5. CASE ~(toDB /\ fails)
  <2>1. web' = [web EXCEPT !.settings = s] /\ UNCHANGED generated
    BY <1>5 DEF UpdateConfigHandler, s
  <2>2. Table' /\ SecretsAreEncrypted'
    <3>1. CASE toDB
      <4>1. Store(web.gid, s, web.opts.key)
        BY <1>5, <3>1 DEF UpdateConfigHandler, s
      <4>2. web.opts.key \in Keys \cup {NoKey}
        BY <1>1, OptionTypes
      <4> QED
        BY <1>3, <4>1, <4>2, StoreSeals DEF IInv, Shapes
    <3>2. CASE ~toDB
      <4>1. UNCHANGED <<rows, sealed>>
        BY <1>5, <3>2 DEF UpdateConfigHandler
      <4> QED
        BY <4>1 DEF IInv, Shapes, Table, SecretsAreEncrypted
    <3> QED
      BY <3>1, <3>2
  <2> QED
    BY <1>1, <1>2, <1>3, <2>1, <2>2, SettingsReplaced
<1> QED
  BY <1>4, <1>5

LEMMA ReplaceKeeps ==
  ASSUME IInv, NEW i, NEW r, r # NoRow => WellFormed(r), Replace(i, r)
  PROVE  IInv'
<1>1. /\ rows' = [rows EXCEPT ![i] = r] /\ sealed' = [sealed EXCEPT ![i] = NoKey]
      /\ UNCHANGED <<web, generated>>
  BY DEF Replace
<1>2. /\ DOMAIN rows' = Instances /\ DOMAIN sealed' = Instances
      /\ \A j \in Instances :
           /\ rows'[j] = IF j = i THEN r ELSE rows[j]
           /\ sealed'[j] = IF j = i THEN NoKey ELSE sealed[j]
  BY <1>1 DEF IInv, Shapes, Table
<1>3. Table'
  BY <1>2 DEF IInv, Shapes, Table
<1>4. SecretsAreEncrypted'
  BY <1>2 DEF IInv, SecretsAreEncrypted
<1> QED
  BY <1>1, <1>3, <1>4, ProcessKept DEF IInv, Shapes

LEMMA BlobsAreWellFormed ==
  ASSUME NEW blob \in Blobs
  PROVE  WellFormed(blob.settings)
<1> DEFINE s == blob.settings
<1>1. s \in Settings
  BY ConfigAssumption
<1>2. /\ {"instance", "hash", "token"} \subseteq DOMAIN s
      /\ s["instance"] \in Instances \cup {""}
      /\ s["hash"] \in Secrets /\ s["token"] \in Secrets
  BY <1>1 DEF Settings
<1>3. Passwords \subseteq Int
  BY DEF Passwords
<1>4. Secrets \subseteq Values
  BY <1>3 DEF Secrets, Values
<1> QED
  BY <1>2, <1>4 DEF WellFormed

-----------------------------------------------------------------------------
(* The invariant holds from the start, and every step of the program, of   *)
(* its users and of other tools keeps it.                                  *)
THEOREM Inductive == Spec => []IInv
<1>1. Init => IInv
  <2> SUFFICES ASSUME Init PROVE IInv
    OBVIOUS
  <2>1. /\ DOMAIN rows = Instances /\ DOMAIN sealed = Instances
        /\ \A i \in Instances : rows[i] = NoRow
        /\ ~Running /\ generated = 0
    BY DEF Init, Running
  <2> QED
    BY <2>1 DEF IInv, Shapes, Table, PasswordKept, WorksInPlain,
                SecretsAreEncrypted, OpenOnlyOnPurpose
<1>2. ASSUME IInv, [Next]_vars PROVE IInv'
  <2>1. ASSUME NEW o \in Options, SaveConfigToDB(o) PROVE IInv'
    BY <1>2, <2>1, SaveConfigKeeps
  <2>2. ASSUME NEW o \in Options, Start(o) PROVE IInv'
    BY <1>2, <2>2, StartKeeps
  <2>3. CASE Stop
    <3>1. ~Running' /\ UNCHANGED <<rows, generated, sealed>>
      BY <2>3 DEF Stop, Running
    <3> QED
      BY <1>2, <3>1 DEF IInv, Shapes, Table, PasswordKept, WorksInPlain,
           SecretsAreEncrypted, OpenOnlyOnPurpose
  <2>4. CASE SaveConfigHandler
    <3>1. /\ Running /\ Store(web.gid, web.settings, web.opts.key)
          /\ UNCHANGED <<web, generated>>
      BY <2>4 DEF SaveConfigHandler, ConfigDBMode
    <3>2. /\ WellFormed(web.settings) /\ web.opts \in Options
          /\ web.opts.key # NoKey => PlainSecrets(web.settings)
          /\ generated' \in Nat
      BY <1>2, <3>1 DEF IInv, Shapes, WorksInPlain
    <3>3. Table' /\ SecretsAreEncrypted'
      BY <1>2, <3>1, <3>2, OptionTypes, StoreSeals DEF IInv, Shapes
    <3> QED
      BY <1>2, <3>1, <3>2, <3>3, ProcessKept
  <2>5. CASE LoadConfigHandler
    BY <1>2, <2>5, LoadConfigKeeps
  <2>6. CASE DeleteConfigHandler
    BY <1>2, <2>6, ReplaceKeeps DEF DeleteConfigHandler
  <2>7. ASSUME NEW form \in Forms, NEW toDB \in BOOLEAN, NEW fails \in BOOLEAN,
               UpdateConfigHandler(form, toDB, fails)
        PROVE  IInv'
    BY <1>2, <2>7, UpdateConfigKeeps
  <2>8. ASSUME NEW blob \in Blobs, WriteBlob(blob) PROVE IInv'
    BY <1>2, <2>8, ReplaceKeeps, BlobsAreWellFormed DEF WriteBlob
  <2>9. CASE UNCHANGED vars
    BY <1>2, <2>9 DEF vars, IInv, Shapes, Table, PasswordKept, WorksInPlain,
         SecretsAreEncrypted, OpenOnlyOnPurpose, Open, Running
  <2> QED
    BY <1>2, <2>1, <2>2, <2>3, <2>4, <2>5, <2>6, <2>7, <2>8, <2>9 DEF Next
<1> QED
  BY <1>1, <1>2, PTL DEF Spec

(* For any settings, keys and command lines, the web UI is open to         *)
(* everybody only where --server.auth is empty: applyAutoAuthFallback      *)
(* closes it whatever the table had for a hash, or lost.                   *)
THEOREM NeverOpenByAccident == Spec => []OpenOnlyOnPurpose
<1>1. IInv => OpenOnlyOnPurpose
  BY DEF IInv
<1> QED
  BY <1>1, Inductive, PTL

(* The password a process started with from the command line, or generated,*)
(* is valid until it ends: reloads, updates and rows written by others     *)
(* cannot lock its operator out.                                           *)
THEOREM PasswordOutlivesReloads == Spec => []CredentialHolds
<1>1. IInv => CredentialHolds
  BY DEF IInv, PasswordKept, CredentialHolds, ActiveHash
<1> QED
  BY <1>1, Inductive, PTL

(* Whatever the program stores with a key has its secrets encrypted with   *)
(* it, and a process with a key works with them in plain: encryption is of *)
(* a copy, and undone on the way back, whatever mixture others wrote.      *)
THEOREM SealedAtRestPlainInMemory ==
  Spec => []SecretsAreSafe
<1>1. IInv => SecretsAreEncrypted
  BY DEF IInv
<1>2. IInv => MemoryIsPlain
  <2> SUFFICES ASSUME IInv, Running, web.opts.key # NoKey, NEW f \in Sensitive
               PROVE  ~IsEncrypted(web.settings[f])
    BY DEF MemoryIsPlain, ConfigDBMode
  <2> QED
    BY DEF IInv, WorksInPlain, PlainSecrets, Sensitive, IsEncrypted
<1>3. IInv => SecretsAreSafe
  BY <1>1, <1>2 DEF SecretsAreSafe
<1> QED
  BY <1>3, Inductive, PTL

-----------------------------------------------------------------------------
(* What a process has of what the program saved comes from a row, or is on *)
(* its way there: the invariant that carries SavedSurvives over a restart  *)
(* says that each row, while it is the program's own, holds the values     *)
(* that were saved there, encrypted or not.                                *)

SameValues(a, b) ==
  /\ a["limit"] = b["limit"] /\ a["valid"] = b["valid"] /\ a["dry"] = b["dry"]
  /\ a["token"].value = b["token"].value /\ a["hash"].value = b["hash"].value

RowsAreSaved ==
  \A i \in Instances : saved[i] # NoRow =>
    rows[i] # NoRow /\ SameValues(rows[i], saved[i])

SavedInv == TypeOK /\ RowsAreSaved /\ SavedSurvives

Fields == {"instance", "hash", "token", "limit", "cas", "listen", "dry", "valid"}

(* A record of settings is a function of its fields. *)
LEMMA FieldsTyped ==
  ASSUME NEW s \in Settings
  PROVE  /\ s = [f \in DOMAIN s |-> s[f]] /\ DOMAIN s = Fields
         /\ s["instance"] \in Instances \cup {""}
         /\ s["hash"] \in Secrets /\ s["token"] \in Secrets
         /\ s["limit"] \in {0, 1} /\ s["cas"] \in {"", "api"}
         /\ s["listen"] \in {"", "default", "other"}
         /\ s["dry"] \in BOOLEAN /\ s["valid"] \in BOOLEAN
BY DEF Settings, Fields

LEMMA TypedFields ==
  ASSUME NEW s, s = [f \in DOMAIN s |-> s[f]], DOMAIN s = Fields,
         s["instance"] \in Instances \cup {""},
         s["hash"] \in Secrets, s["token"] \in Secrets,
         s["limit"] \in {0, 1}, s["cas"] \in {"", "api"},
         s["listen"] \in {"", "default", "other"},
         s["dry"] \in BOOLEAN, s["valid"] \in BOOLEAN
  PROVE  s \in Settings
BY DEF Settings, Fields

LEMMA PlainTyped ==
  ASSUME NEW n \in Passwords
  PROVE  Plain(n) \in Secrets /\ Plain(n).value = n
BY DEF Plain, Secrets

LEMMA PasswordRange ==
  /\ 0 \in Passwords /\ Blank \in Secrets /\ Blank.value = 0
  /\ 0 \in 0 .. Chosen /\ 0 .. Chosen \subseteq Passwords
  /\ 0 \in 0 .. MaxGenerated
<1>1. Chosen \in Nat /\ MaxGenerated \in Nat
  BY ConfigAssumption
<1>2. 0 \in Passwords /\ 0 .. Chosen \subseteq Passwords
  BY <1>1 DEF Passwords
<1>3. 0 \in 0 .. Chosen /\ 0 \in 0 .. MaxGenerated
  BY <1>1
<1> QED
  BY <1>2, <1>3, PlainTyped DEF Blank

LEMMA OptionRanges ==
  ASSUME NEW o \in Options
  PROVE  /\ o.key \in Keys \cup {NoKey} /\ o.confdb \in BOOLEAN
         /\ o.passwd \in {AutoPassword} \cup 0 .. Chosen
         /\ o.hash \in 0 .. Chosen /\ o.token \in 0 .. Chosen
         /\ o.instance \in Instances /\ o.limit \in {0, 1} /\ o.cas \in {"", "api"}
         /\ o.listen \in {"default", "other"}
         /\ o.dry \in BOOLEAN /\ o.valid \in BOOLEAN
BY ConfigAssumption

LEMMA FormRanges ==
  ASSUME NEW form \in Forms
  PROVE  /\ form.limit \in {0, 1, Missing} /\ form.cas \in BOOLEAN
         /\ form.dry \in BOOLEAN /\ form.valid \in BOOLEAN
BY ConfigAssumption

(* Encrypting a secret, or showing it in plain, keeps its value. *)
LEMMA EncryptKeepsValues ==
  ASSUME NEW s \in Settings, NEW key \in Keys \cup {NoKey}
  PROVE  Encrypt(s, key) \in Settings /\ SameValues(Encrypt(s, key), s)
<1> DEFINE e == Encrypt(s, key)
<1>1. e = [f \in DOMAIN e |-> e[f]] /\ DOMAIN e = Fields
  BY FieldsTyped DEF Encrypt
<1>2. /\ e["limit"] = s["limit"] /\ e["cas"] = s["cas"]
      /\ e["listen"] = s["listen"] /\ e["dry"] = s["dry"]
      /\ e["valid"] = s["valid"] /\ e["instance"] = s["instance"]
  BY FieldsTyped DEF Encrypt, Sensitive, Fields
<1>3. \A v \in Secrets : Seal(v, key) \in Secrets /\ Seal(v, key).value = v.value
  BY DEF Seal, Secrets
<1>4. ASSUME NEW f \in {"hash", "token"}
      PROVE  e[f] \in Secrets /\ e[f].value = s[f].value
  <2>1. e[f] = s[f] \/ e[f] = Seal(s[f], key)
    BY FieldsTyped DEF Encrypt, Fields
  <2>2. s[f] \in Secrets
    BY FieldsTyped
  <2> QED
    BY <2>1, <2>2, <1>3
<1> HIDE DEF e
<1>5. e \in Settings
  BY <1>1, <1>2, <1>4, FieldsTyped, TypedFields
<1> QED
  BY <1>2, <1>4, <1>5 DEF SameValues, e

LEMMA RevealKeepsValues ==
  ASSUME NEW s \in Settings
  PROVE  Reveal(s) \in Settings /\ SameValues(Reveal(s), s)
<1> DEFINE e == Reveal(s)
<1>1. e = [f \in DOMAIN e |-> e[f]] /\ DOMAIN e = Fields
  BY FieldsTyped DEF Reveal
<1>2. /\ e["limit"] = s["limit"] /\ e["cas"] = s["cas"]
      /\ e["listen"] = s["listen"] /\ e["dry"] = s["dry"]
      /\ e["valid"] = s["valid"] /\ e["instance"] = s["instance"]
  BY FieldsTyped DEF Reveal, Sensitive, Fields
<1>3. \A v \in Secrets : v.value \in Passwords
  BY DEF Secrets
<1>4. ASSUME NEW f \in {"hash", "token"}
      PROVE  e[f] \in Secrets /\ e[f].value = s[f].value
  <2>1. e[f] = Plain(s[f].value)
    BY FieldsTyped DEF Reveal, Fields, Sensitive
  <2>2. s[f].value \in Passwords
    BY <1>3, FieldsTyped
  <2> QED
    BY <2>1, <2>2, PlainTyped
<1> HIDE DEF e
<1>5. e \in Settings
  BY <1>1, <1>2, <1>4, FieldsTyped, TypedFields
<1> QED
  BY <1>2, <1>4, <1>5 DEF SameValues, e

LEMMA DecryptKeepsValues ==
  ASSUME NEW s \in Settings, NEW key
  PROVE  Decrypt(s, key) \in Settings /\ SameValues(Decrypt(s, key), s)
BY RevealKeepsValues DEF Decrypt, SameValues

(* The defaults fill what is blank: none of these values has another.      *)
LEMMA DefaultsKeepValues ==
  ASSUME NEW s \in Settings
  PROVE  /\ ApplyDefaults(s) \in Settings /\ SameValues(ApplyDefaults(s), s)
         /\ ApplyDefaults(s)["instance"] \in Instances
<1> DEFINE e == ApplyDefaults(s)
<1>1. e = [f \in DOMAIN e |-> e[f]] /\ DOMAIN e = Fields
  BY FieldsTyped DEF ApplyDefaults
<1>2. /\ Unset["hash"] = Blank /\ Unset["token"] = Blank
      /\ Unset["dry"] = FALSE /\ Unset["valid"] = TRUE
      /\ Unset["instance"] = ""
  BY DEF Unset
<1>3. /\ Defaults["hash"] = Blank /\ Defaults["token"] = Blank
      /\ Defaults["dry"] = FALSE /\ Defaults["valid"] = TRUE
      /\ Defaults["cas"] = "api" /\ Defaults["listen"] = "default"
      /\ Defaults["instance"] = "tg-spam" /\ "tg-spam" \in Instances
  BY ConfigAssumption DEF Unset, Defaults
<1>4. \A f \in Fields :
        e[f] = IF f \notin zeroAwarePaths /\ s[f] = Unset[f] THEN Defaults[f]
               ELSE s[f]
  BY FieldsTyped DEF ApplyDefaults
<1>5. e["limit"] = s["limit"]
  BY <1>4 DEF zeroAwarePaths, Fields
<1>6. \A f \in {"hash", "token", "dry", "valid"} : e[f] = s[f]
  BY <1>2, <1>3, <1>4 DEF Fields
<1>7. e["cas"] \in {s["cas"], "api"} /\ e["listen"] \in {s["listen"], "default"}
  BY <1>3, <1>4 DEF Fields
<1>9. e["instance"] \in Instances
  <2>1. e["instance"] = IF s["instance"] = "" THEN "tg-spam" ELSE s["instance"]
    BY <1>2, <1>3, <1>4 DEF Fields, zeroAwarePaths
  <2> QED
    BY <1>3, <2>1, FieldsTyped
<1> HIDE DEF e
<1>8. e \in Settings
  BY <1>1, <1>5, <1>6, <1>7, <1>9, FieldsTyped, TypedFields
<1> QED
  BY <1>5, <1>6, <1>8, <1>9 DEF SameValues, e

LEMMA RestoredKeepsValues ==
  ASSUME NEW s \in Settings, NEW i \in Instances
  PROVE  Restored(s, i) \in Settings /\ SameValues(Restored(s, i), s)
<1> DEFINE e == Restored(s, i)
<1>1. e = [f \in DOMAIN e |-> e[f]] /\ DOMAIN e = Fields
  BY FieldsTyped DEF Restored
<1>2. /\ e["instance"] \in {s["instance"], i}
      /\ \A f \in Fields \ {"instance"} : e[f] = s[f]
  BY FieldsTyped DEF Restored, Fields
<1> HIDE DEF e
<1>3. e \in Settings
  BY <1>1, <1>2, FieldsTyped, TypedFields DEF Fields
<1> QED
  BY <1>2, <1>3 DEF SameValues, Fields, e

LEMMA OperationalTyped ==
  ASSUME NEW s \in Settings, NEW o \in Options
  PROVE  /\ ApplyOperational(s, o) \in Settings
         /\ \A f \in {"instance", "hash", "token", "limit", "valid", "cas"} :
              ApplyOperational(s, o)[f] = s[f]
         /\ ApplyOperational(s, o)["dry"] = (s["dry"] \/ o.dry)
<1> DEFINE e == ApplyOperational(s, o)
<1>1. e = [f \in DOMAIN e |-> e[f]] /\ DOMAIN e = Fields
  BY FieldsTyped DEF ApplyOperational
<1>2. \A f \in {"instance", "hash", "token", "limit", "valid", "cas"} : e[f] = s[f]
  BY FieldsTyped DEF ApplyOperational, Fields
<1>3. e["dry"] = (s["dry"] \/ o.dry)
  BY FieldsTyped DEF ApplyOperational, Fields
<1>4. e["listen"] \in {s["listen"], o.listen}
  BY FieldsTyped DEF ApplyOperational, Fields
<1>5. o.listen \in {"default", "other"}
  BY OptionRanges
<1> HIDE DEF e
<1>6. e["dry"] \in BOOLEAN
  BY <1>3
<1>7. e \in Settings
  BY <1>1, <1>2, <1>4, <1>5, <1>6, FieldsTyped, TypedFields
<1> QED
  BY <1>2, <1>3, <1>7 DEF e

(* What main starts with has its type, and with --confdb it has the values *)
(* of the row, but for what the command line says.                         *)
LEMMA InitialTyped ==
  ASSUME NEW o \in Options, TypeOK, o.confdb => Loadable(o.instance, o.key),
         NEW row, row = rows[o.instance]
  PROVE  /\ Initial(o) \in Settings /\ Initial(o)["instance"] \in Instances
         /\ o.confdb =>
              /\ Initial(o)["limit"] = row["limit"]
              /\ Initial(o)["valid"] = row["valid"]
              /\ Initial(o)["dry"] = (row["dry"] \/ o.dry)
              /\ Initial(o)["token"].value =
                   IF o.token # 0 THEN o.token ELSE row["token"].value
              /\ ~HashGiven(o) /\ ~PasswordGiven(o) =>
                   Initial(o)["hash"].value = row["hash"].value
<1>0. Plain(o.hash) \in Secrets /\ Plain(o.token) \in Secrets
      /\ Plain(o.token).value = o.token /\ o.instance \in Instances
  BY OptionRanges, PasswordRange, PlainTyped
<1>1. CASE ~o.confdb
  <2> DEFINE e == FromOptions(o)
  <2>1. Initial(o) = e
    BY <1>1 DEF Initial
  <2>2. e = [f \in DOMAIN e |-> e[f]] /\ DOMAIN e = Fields
    BY DEF FromOptions, Fields
  <2>3. /\ e["instance"] = o.instance
        /\ e["hash"] = Plain(o.hash) /\ e["token"] = Plain(o.token)
        /\ e["limit"] = o.limit /\ e["cas"] = o.cas /\ e["listen"] = o.listen
        /\ e["dry"] = o.dry /\ e["valid"] = o.valid
    BY DEF FromOptions
  <2> HIDE DEF e
  <2>4. e \in Settings
    BY <1>0, <2>2, <2>3, OptionRanges, TypedFields
  <2> QED
    BY <1>0, <1>1, <2>1, <2>3, <2>4
<1>2. CASE o.confdb
  <2> DEFINE d == Decrypt(row, o.key)
             g == Restored(d, o.instance)
             l == Loaded(o)
             t == [l EXCEPT !.token = IF o.token # 0 THEN Plain(o.token) ELSE @,
                            !.hash = IF HashGiven(o) THEN Plain(o.hash)
                                     ELSE IF PasswordGiven(o) THEN Blank ELSE @]
  <2>1. row \in Settings
    BY <1>0, <1>2 DEF Loadable, TypeOK
  <2>2. d \in Settings /\ SameValues(d, row)
    BY <2>1, DecryptKeepsValues
  <2>3. l = ApplyDefaults(g)
    BY DEF Loaded
  <2> HIDE DEF d, l
  <2>a. g \in Settings /\ SameValues(g, d)
    BY <1>0, <2>2, RestoredKeepsValues
  <2> HIDE DEF g
  <2>4. /\ l \in Settings /\ SameValues(l, g)
        /\ l["instance"] \in Instances
    BY <2>a, <2>3, DefaultsKeepValues
  <2>5. /\ t = [f \in DOMAIN t |-> t[f]] /\ DOMAIN t = Fields
        /\ \A f \in {"instance", "limit", "valid", "cas", "dry", "listen"} : t[f] = l[f]
        /\ t["token"] = IF o.token # 0 THEN Plain(o.token) ELSE l["token"]
        /\ t["hash"] = IF HashGiven(o) THEN Plain(o.hash)
                       ELSE IF PasswordGiven(o) THEN Blank ELSE l["hash"]
    BY <2>4, FieldsTyped DEF Fields
  <2>6. Initial(o) = ApplyOperational(t, o)
    BY <1>2 DEF Initial, ApplyCLI, l
  <2> HIDE DEF t
  <2>7. t["token"] \in Secrets /\ t["hash"] \in Secrets
    BY <1>0, <2>4, <2>5, FieldsTyped, PasswordRange
  <2>8. t \in Settings
    BY <2>4, <2>5, <2>7, FieldsTyped, TypedFields
  <2>9. /\ Initial(o) \in Settings
        /\ \A f \in {"instance", "hash", "token", "limit", "valid", "cas"} :
             Initial(o)[f] = t[f]
        /\ Initial(o)["dry"] = (t["dry"] \/ o.dry)
    BY <2>6, <2>8, OperationalTyped
  <2>10. SameValues(l, row)
    BY <2>2, <2>a, <2>4 DEF SameValues
  <2>b. Initial(o)["instance"] \in Instances
    BY <2>4, <2>5, <2>9
  <2>11. /\ Initial(o)["limit"] = row["limit"]
         /\ Initial(o)["valid"] = row["valid"]
    BY <2>5, <2>9, <2>10 DEF SameValues
  <2>12. Initial(o)["dry"] = (row["dry"] \/ o.dry)
    BY <2>5, <2>9, <2>10, Zenon DEF SameValues
  <2>13. Initial(o)["token"].value =
           IF o.token # 0 THEN o.token ELSE row["token"].value
    BY <1>0, <2>5, <2>9, <2>10 DEF SameValues
  <2>14. ~HashGiven(o) /\ ~PasswordGiven(o) =>
           Initial(o)["hash"].value = row["hash"].value
    BY <2>5, <2>9, <2>10 DEF SameValues
  <2> QED
    BY <1>2, <2>9, <2>b, <2>11, <2>12, <2>13, <2>14
<1> QED
  BY <1>1, <1>2

(* The hash of a password, generated if need be. *)
LEMMA HashTyped ==
  ASSUME TypeOK, NEW passwd \in {AutoPassword} \cup 0 .. Chosen,
         GenerateAuthHash(passwd)
  PROVE  Hash(passwd) \in Secrets /\ generated' \in 0 .. MaxGenerated
<1>1. Chosen \in Nat /\ MaxGenerated \in Nat /\ generated \in 0 .. MaxGenerated
  BY ConfigAssumption DEF TypeOK
<1>2. CASE passwd = AutoPassword
  <2> DEFINE n == Chosen + generated + 1
  <2>1. generated < MaxGenerated /\ generated' = generated + 1
    BY <1>2 DEF GenerateAuthHash
  <2>2. n \in Passwords
    BY <1>1, <2>1 DEF Passwords
  <2>3. Hash(passwd) = Plain(n)
    BY <1>2 DEF Hash
  <2> QED
    BY <1>1, <2>1, <2>2, <2>3, PlainTyped
<1>3. CASE passwd # AutoPassword
  <2>1. passwd \in Passwords
    BY <1>3, PasswordRange
  <2>2. Hash(passwd) = Plain(passwd) /\ generated' = generated
    BY <1>3 DEF Hash, GenerateAuthHash
  <2> QED
    BY <1>1, <2>1, <2>2, PlainTyped
<1> QED
  BY <1>2, <1>3

(* A row is written: by the program, or by somebody else. *)
LEMMA RowWritten ==
  ASSUME TypeOK, RowsAreSaved, NEW i \in Instances,
         NEW r \in Settings \cup {NoRow}, NEW v \in Settings \cup {NoRow},
         NEW key \in Keys \cup {NoKey},
         v # NoRow => r # NoRow /\ SameValues(r, v),
         rows' = [rows EXCEPT ![i] = r], saved' = [saved EXCEPT ![i] = v],
         sealed' = [sealed EXCEPT ![i] = key]
  PROVE  /\ rows' \in [Instances -> Settings \cup {NoRow}]
         /\ saved' \in [Instances -> Settings \cup {NoRow}]
         /\ sealed' \in [Instances -> Keys \cup {NoKey}]
         /\ \A j \in Instances : saved'[j] = IF j = i THEN v ELSE saved[j]
         /\ RowsAreSaved'
<1>1. /\ rows' \in [Instances -> Settings \cup {NoRow}]
      /\ saved' \in [Instances -> Settings \cup {NoRow}]
      /\ sealed' \in [Instances -> Keys \cup {NoKey}]
  BY DEF TypeOK
<1>2. \A j \in Instances : /\ rows'[j] = IF j = i THEN r ELSE rows[j]
                           /\ saved'[j] = IF j = i THEN v ELSE saved[j]
  BY DEF TypeOK
<1>3. RowsAreSaved'
  BY <1>2 DEF RowsAreSaved
<1> QED
  BY <1>1, <1>2, <1>3

LEMMA StoreKeepsValues ==
  ASSUME TypeOK, RowsAreSaved, NEW i \in Instances, NEW s \in Settings,
         NEW key \in Keys \cup {NoKey}, Store(i, s, key)
  PROVE  /\ rows' \in [Instances -> Settings \cup {NoRow}]
         /\ saved' \in [Instances -> Settings \cup {NoRow}]
         /\ sealed' \in [Instances -> Keys \cup {NoKey}]
         /\ SameValues(saved'[i], s)
         /\ \A j \in Instances : j # i => saved'[j] = saved[j]
         /\ RowsAreSaved'
<1> DEFINE r == Encrypt(s, key)
           v == Reveal(s)
<1>1. /\ rows' = [rows EXCEPT ![i] = r] /\ saved' = [saved EXCEPT ![i] = v]
      /\ sealed' = [sealed EXCEPT ![i] = key]
  BY DEF Store
<1>2. r \in Settings /\ SameValues(r, s)
  BY EncryptKeepsValues
<1>3. v \in Settings /\ SameValues(v, s)
  BY RevealKeepsValues
<1> HIDE DEF r, v
<1>4. r # NoRow /\ v # NoRow
  BY <1>2, <1>3, ConfigAssumption
<1>5. SameValues(r, v)
  BY <1>2, <1>3 DEF SameValues
<1>6. /\ rows' \in [Instances -> Settings \cup {NoRow}]
      /\ saved' \in [Instances -> Settings \cup {NoRow}]
      /\ sealed' \in [Instances -> Keys \cup {NoKey}]
      /\ \A j \in Instances : saved'[j] = IF j = i THEN v ELSE saved[j]
      /\ RowsAreSaved'
  BY <1>1, <1>2, <1>3, <1>4, <1>5, RowWritten
<1> QED
  BY <1>3, <1>6

(* A process does not notice that somebody else writes a row. *)
LEMMA OvertakenKeepsSaved ==
  ASSUME TypeOK, SavedSurvives, NEW i, Overtaken(i), UNCHANGED web,
         \A j \in Instances : j # i => saved'[j] = saved[j]
  PROVE  SavedSurvives' /\ synced' \in Instances \cup {""}
<1>1. synced \in Instances \cup {""}
  BY DEF TypeOK
<1>2. CASE synced = i \/ synced = ""
  BY <1>2 DEF Overtaken, SavedSurvives, HasSaved
<1>3. CASE synced # i /\ synced # ""
  <2>1. synced' = synced /\ saved'[synced] = saved[synced]
    BY <1>1, <1>3 DEF Overtaken
  <2> QED
    BY <1>1, <2>1 DEF SavedSurvives, HasSaved, Running
<1> QED
  BY <1>2, <1>3

(* The password of the hash is among those of the settings. *)
LEMMA HashReplaced ==
  ASSUME NEW s \in Settings, NEW hash \in Secrets
  PROVE  /\ [s EXCEPT !.hash = hash] \in Settings
         /\ [s EXCEPT !.hash = hash]["hash"] = hash
         /\ \A f \in Fields \ {"hash"} :
              [s EXCEPT !.hash = hash][f] = s[f]
<1> DEFINE e == [s EXCEPT !.hash = hash]
<1>1. e = [f \in DOMAIN e |-> e[f]] /\ DOMAIN e = Fields
  BY FieldsTyped
<1>2. e["hash"] = hash
  BY FieldsTyped DEF Fields
<1>3. \A f \in Fields \ {"hash"} : e[f] = s[f]
  BY FieldsTyped DEF Fields
<1> HIDE DEF e
<1>4. e \in Settings
  BY <1>1, <1>2, <1>3, FieldsTyped, TypedFields DEF Fields
<1> QED
  BY <1>2, <1>3, <1>4 DEF e

(* A process with these settings, fresh from the table or just saved, has  *)
(* what was saved.                                                         *)
LEMMA ProcessTyped ==
  ASSUME NEW s \in Settings, NEW o \in Options, NEW i \in Instances,
         NEW a \in BOOLEAN, NEW h \in Secrets,
         web' = [settings |-> s, opts |-> o, gid |-> i, authFromCLI |-> a,
                 authHash |-> h]
  PROVE  /\ web' \in Processes /\ web'.settings = s /\ web'.opts = o
         /\ web'.authFromCLI = a
BY DEF Processes

LEMMA SaveConfigKeepsSaved ==
  ASSUME SavedInv, NEW o \in Options, SaveConfigToDB(o)
  PROVE  SavedInv'
<1> DEFINE s == Initial(o)
           passwd == WebAuthPasswd(o)
           needed == s.hash = Blank /\ passwd # 0
<1>1. /\ TypeOK /\ RowsAreSaved /\ SavedSurvives
      /\ UNCHANGED web /\ Overtaken(s.instance)
  BY DEF SavedInv, SaveConfigToDB
<1>2. s \in Settings /\ s["instance"] \in Instances
  BY <1>1, InitialTyped DEF SaveConfigToDB
<1>3. o.key \in Keys \cup {NoKey}
  BY OptionRanges
<1>5. PICK h \in Settings : /\ Store(s.instance, h, o.key)
                            /\ generated' \in 0 .. MaxGenerated
  <2>1. CASE needed
    <3>1. /\ GenerateAuthHash(passwd)
          /\ Store(s.instance, [s EXCEPT !.hash = Hash(passwd)], o.key)
      BY <2>1 DEF SaveConfigToDB
    <3>2. passwd \in {AutoPassword} \cup 0 .. Chosen
      BY OptionRanges, PasswordRange DEF WebAuthPasswd
    <3>3. Hash(passwd) \in Secrets /\ generated' \in 0 .. MaxGenerated
      BY <1>1, <3>1, <3>2, HashTyped
    <3>4. [s EXCEPT !.hash = Hash(passwd)] \in Settings
      BY <1>2, <3>3, HashReplaced
    <3> QED
      BY <3>1, <3>3, <3>4
  <2>2. CASE ~needed
    <3>1. Store(s.instance, s, o.key) /\ UNCHANGED generated
      BY <2>2 DEF SaveConfigToDB
    <3> QED
      BY <1>1, <1>2, <3>1 DEF TypeOK
  <2> QED
    BY <2>1, <2>2
<1>6. /\ rows' \in [Instances -> Settings \cup {NoRow}]
      /\ saved' \in [Instances -> Settings \cup {NoRow}]
      /\ sealed' \in [Instances -> Keys \cup {NoKey}]
      /\ \A j \in Instances : j # s.instance => saved'[j] = saved[j]
      /\ RowsAreSaved'
  BY <1>1, <1>2, <1>3, <1>5, StoreKeepsValues
<1>4. SavedSurvives' /\ synced' \in Instances \cup {""}
  BY <1>1, <1>6, OvertakenKeepsSaved
<1>7. TypeOK'
  BY <1>1, <1>4, <1>5, <1>6 DEF TypeOK
<1> QED
  BY <1>4, <1>6, <1>7 DEF SavedInv

(* A start without a password, given or generated, keeps the saved hash.   *)
LEMMA StartKeepsSaved ==
  ASSUME SavedInv, NEW o \in Options, Start(o)
  PROVE  SavedInv'
<1> DEFINE s == Initial(o)
           fallback == ApplyAutoAuthFallback(s, o)
           passwd == IF fallback THEN AutoPassword ELSE WebAuthPasswd(o)
           hash == IF s.hash # Blank THEN s.hash ELSE Hash(passwd)
           set == [s EXCEPT !.hash = hash]
           cli == AuthFromCLI(o) \/ fallback
           row == rows[o.instance]
<1>1. /\ web' = [settings |-> set, opts |-> o, gid |-> s.instance,
                 authFromCLI |-> cli, authHash |-> hash]
      /\ UNCHANGED <<rows, saved, sealed>>
      /\ synced' = IF o.confdb THEN o.instance ELSE ""
      /\ IF s.hash = Blank THEN GenerateAuthHash(passwd)
         ELSE UNCHANGED generated
      /\ o.confdb => Loadable(o.instance, o.key)
  BY DEF Start
<1>2. /\ TypeOK /\ RowsAreSaved /\ o.confdb \in BOOLEAN
      /\ o.instance \in Instances
  BY OptionRanges DEF SavedInv
<1>3. /\ s \in Settings /\ s["instance"] \in Instances
      /\ o.confdb =>
           /\ s["limit"] = row["limit"] /\ s["valid"] = row["valid"]
           /\ s["dry"] = (row["dry"] \/ o.dry)
           /\ s["token"].value = IF o.token # 0 THEN o.token
                                 ELSE row["token"].value
           /\ ~HashGiven(o) /\ ~PasswordGiven(o) =>
                s["hash"].value = row["hash"].value
  BY <1>1, <1>2, InitialTyped
<1>4. passwd \in {AutoPassword} \cup 0 .. Chosen
  BY OptionRanges, PasswordRange DEF WebAuthPasswd
<1>5. hash \in Secrets /\ generated' \in 0 .. MaxGenerated
  <2>1. CASE s.hash = Blank
    BY <1>1, <1>2, <1>4, <2>1, HashTyped
  <2>2. CASE s.hash # Blank
    BY <1>1, <1>2, <1>3, <2>2, FieldsTyped DEF TypeOK
  <2> QED
    BY <2>1, <2>2
<1>6. o.confdb /\ ~cli => hash = s["hash"] /\ ~HashGiven(o) /\ ~PasswordGiven(o)
  BY DEF AuthFromCLI, ApplyAutoAuthFallback, WebAuthPasswd
<1>7. cli \in BOOLEAN
  BY <1>2 DEF AuthFromCLI, ApplyAutoAuthFallback
<1>a. synced' # "" => o.confdb /\ synced' = o.instance
  BY <1>1
<1>b. synced' \in Instances \cup {""}
  BY <1>1, <1>2
<1> HIDE DEF hash, cli, passwd
<1>8. /\ set \in Settings /\ set["hash"] = hash
      /\ \A f \in Fields \ {"hash"} :
           set[f] = s[f]
  BY <1>3, <1>5, HashReplaced
<1> HIDE DEF set
<1>9. /\ web' \in Processes /\ web'.settings = set /\ web'.opts = o
      /\ web'.authFromCLI = cli
  BY <1>1, <1>3, <1>5, <1>7, <1>8, ProcessTyped
<1>10. TypeOK'
  BY <1>1, <1>2, <1>5, <1>9, <1>b DEF TypeOK
<1>11. RowsAreSaved'
  BY <1>1, <1>2 DEF RowsAreSaved
<1>12. SavedSurvives'
  <2> DEFINE was == saved[o.instance]
  <2> SUFFICES ASSUME o.confdb, was # NoRow
               PROVE  /\ set["limit"] = was["limit"]
                      /\ set["valid"] = was["valid"]
                      /\ \/ set["token"].value = was["token"].value
                         \/ o.token # 0 /\ set["token"].value = o.token
                      /\ set["hash"].value = was["hash"].value \/ cli
                      /\ set["dry"] = was["dry"] \/ o.dry
    BY <1>1, <1>9, <1>a DEF SavedSurvives, HasSaved
  <2>1. o.confdb /\ SameValues(row, was)
    BY <1>2 DEF RowsAreSaved
  <2>a. row \in Settings
    BY <1>1, <1>2 DEF Loadable, TypeOK
  <2> HIDE DEF was, row
  <2>2. set["limit"] = was["limit"] /\ set["valid"] = was["valid"]
    BY <1>3, <1>8, <2>1 DEF SameValues, Fields
  <2>3. \/ set["token"].value = was["token"].value
        \/ o.token # 0 /\ set["token"].value = o.token
    BY <1>3, <1>8, <2>1 DEF SameValues, Fields
  <2>4. ~cli => set["hash"].value = was["hash"].value
    BY <1>3, <1>6, <1>8, <2>1 DEF SameValues
  <2>5. ~o.dry => set["dry"] = was["dry"]
    <3>1. row["dry"] \in BOOLEAN
      BY <2>a, FieldsTyped
    <3>2. set["dry"] = (row["dry"] \/ o.dry) /\ row["dry"] = was["dry"]
      BY <1>3, <1>8, <2>1 DEF SameValues, Fields
    <3> QED
      BY <3>1, <3>2, Zenon
  <2> QED
    BY <2>2, <2>3, <2>4, <2>5
<1> QED
  BY <1>10, <1>11, <1>12 DEF SavedInv

(* New settings for the process: what SavedInv asks of them. *)
LEMMA SettingsTyped ==
  ASSUME TypeOK, Running, NEW s \in Settings, web' = [web EXCEPT !.settings = s]
  PROVE  /\ web' \in Processes /\ web'.settings = s /\ web'.opts = web.opts
         /\ web'.authFromCLI = web.authFromCLI /\ web'.gid = web.gid
<1>1. web \in Processes
  BY DEF TypeOK, Running
<1> QED
  BY <1>1 DEF Processes

LEMMA LoadConfigKeepsSaved ==
  ASSUME SavedInv, LoadConfigHandler
  PROVE  SavedInv'
<1> DEFINE row == rows[web.gid]
           was == saved[web.gid]
           d == Decrypt(row, web.opts.key)
           l == ApplyDefaults(d)
           r == Reread
           h == [r EXCEPT !.hash = web.settings.hash]
           s == IF web.authFromCLI THEN h ELSE r
<1>1. /\ TypeOK /\ RowsAreSaved /\ Running /\ row # NoRow
      /\ UNCHANGED <<rows, generated, saved, sealed>> /\ synced' = web.gid
      /\ web' = [web EXCEPT !.settings = s]
  BY DEF SavedInv, LoadConfigHandler, ConfigDBMode, Loadable
<1>2. /\ web.opts \in Options /\ web.settings \in Settings
      /\ web.authFromCLI \in BOOLEAN /\ web.gid \in Instances
  BY <1>1 DEF TypeOK, Running, Processes
<1>a. row \in Settings
  BY <1>1, <1>2 DEF TypeOK
<1>b. was # NoRow => SameValues(row, was)
  BY <1>1, <1>2 DEF RowsAreSaved
<1>3. d \in Settings /\ SameValues(d, row)
  BY <1>a, DecryptKeepsValues
<1>4. r = ApplyOperational(l, web.opts)
  BY DEF Reread, ReloadNormalize
<1> HIDE DEF d, row, was
<1>5. l \in Settings /\ SameValues(l, d)
  BY <1>3, DefaultsKeepValues
<1> HIDE DEF l, r
<1>6. /\ r \in Settings
      /\ \A f \in {"instance", "hash", "token", "limit", "valid", "cas"} : r[f] = l[f]
      /\ r["dry"] = (l["dry"] \/ web.opts.dry)
  BY <1>2, <1>4, <1>5, OperationalTyped
<1>7. SameValues(l, row) /\ row["dry"] \in BOOLEAN
  BY <1>a, <1>3, <1>5, FieldsTyped DEF SameValues
<1>c. web.settings["hash"] \in Secrets
  BY <1>2, FieldsTyped
<1>8. /\ h \in Settings
      /\ \A f \in Fields \ {"hash"} : h[f] = r[f]
  BY <1>6, <1>c, HashReplaced
<1> HIDE DEF h
<1>9. /\ s \in Settings
      /\ \A f \in Fields \ {"hash"} : s[f] = r[f]
      /\ ~web.authFromCLI => s["hash"] = r["hash"]
  BY <1>6, <1>8
<1> HIDE DEF s
<1>10. /\ web' \in Processes /\ web'.settings = s /\ web'.opts = web.opts
       /\ web'.authFromCLI = web.authFromCLI
  BY <1>1, <1>9, SettingsTyped
<1>11. TypeOK'
  BY <1>1, <1>2, <1>10 DEF TypeOK
<1>12. RowsAreSaved'
  BY <1>1 DEF RowsAreSaved
<1>13. SavedSurvives'
  <2> SUFFICES ASSUME was # NoRow
               PROVE  /\ s["limit"] = was["limit"]
                      /\ s["valid"] = was["valid"]
                      /\ s["token"].value = was["token"].value
                      /\ s["hash"].value = was["hash"].value \/ web.authFromCLI
                      /\ s["dry"] = was["dry"] \/ web.opts.dry
    BY <1>1, <1>10 DEF SavedSurvives, HasSaved, was
  <2>1. SameValues(row, was)
    BY <1>b
  <2>2. /\ s["limit"] = was["limit"] /\ s["valid"] = was["valid"]
        /\ s["token"].value = was["token"].value
    BY <1>6, <1>7, <1>9, <2>1 DEF SameValues, Fields
  <2>3. ~web.authFromCLI => s["hash"].value = was["hash"].value
    BY <1>6, <1>7, <1>9, <2>1 DEF SameValues
  <2>4. ~web.opts.dry => s["dry"] = was["dry"]
    <3>1. /\ s["dry"] = (l["dry"] \/ web.opts.dry)
          /\ l["dry"] = row["dry"] /\ row["dry"] = was["dry"]
      BY <1>6, <1>7, <1>9, <2>1 DEF SameValues, Fields
    <3> QED
      BY <1>7, <3>1, Zenon
  <2> QED
    BY <2>2, <2>3, <2>4
<1> QED
  BY <1>11, <1>12, <1>13 DEF SavedInv

(* What the process saves is what it has. *)
LEMMA SavedIsHad ==
  ASSUME NEW s \in Settings, NEW i \in Instances, SameValues(saved'[i], s),
         web'.settings = s, synced' = i
  PROVE  SavedSurvives'
BY DEF SavedSurvives, HasSaved, SameValues

LEMMA UpdateTyped ==
  ASSUME NEW s \in Settings, NEW form \in Forms
  PROVE  UpdateSettingsFromForm(s, form) \in Settings
<1> DEFINE e == UpdateSettingsFromForm(s, form)
<1>1. e = [f \in DOMAIN e |-> e[f]] /\ DOMAIN e = Fields
  BY FieldsTyped DEF UpdateSettingsFromForm
<1>2. /\ \A f \in {"instance", "hash", "token", "listen"} : e[f] = s[f]
      /\ e["limit"] = IF form.limit = Missing THEN s["limit"] ELSE form.limit
      /\ e["dry"] = form.dry /\ e["valid"] = form.valid
      /\ e["cas"] \in {"", "api", s["cas"]}
  BY FieldsTyped DEF UpdateSettingsFromForm, Fields
<1> HIDE DEF e
<1>3. e["limit"] \in {0, 1}
  BY <1>2, FieldsTyped, FormRanges
<1>4. e \in Settings
  BY <1>1, <1>2, <1>3, FieldsTyped, FormRanges, TypedFields
<1> QED
  BY <1>4 DEF e

LEMMA UpdateConfigKeepsSaved ==
  ASSUME SavedInv, NEW form \in Forms, NEW toDB \in BOOLEAN, NEW fails,
         UpdateConfigHandler(form, toDB, fails)
  PROVE  SavedInv'
<1> DEFINE s == UpdateSettingsFromForm(web.settings, form)
<1>1. /\ TypeOK /\ RowsAreSaved /\ SavedSurvives /\ Running
      /\ UNCHANGED generated
  BY DEF SavedInv, UpdateConfigHandler, ConfigDBMode
<1>2. /\ web.opts \in Options /\ web.settings \in Settings
      /\ web.gid \in Instances
  BY <1>1 DEF TypeOK, Running, Processes
<1>3. s \in Settings
  BY <1>2, UpdateTyped
<1>4. CASE toDB /\ fails
  <2>1. UNCHANGED <<web, rows, saved, sealed, synced>>
    BY <1>4 DEF UpdateConfigHandler
  <2> QED
    BY <1>1, <2>1 DEF SavedInv, TypeOK, RowsAreSaved, SavedSurvives, HasSaved,
                      Running
<1>5. CASE ~(toDB /\ fails)
  <2>1. /\ web' = [web EXCEPT !.settings = s]
        /\ synced' = IF toDB THEN web.gid ELSE ""
        /\ IF toDB THEN Store(web.gid, s, web.opts.key)
           ELSE UNCHANGED <<rows, saved, sealed>>
    BY <1>5 DEF UpdateConfigHandler
  <2> HIDE DEF s
  <2>2. web' \in Processes /\ web'.settings = s
    BY <1>1, <1>3, <2>1, SettingsTyped
  <2>3. CASE toDB
    <3>1. web.opts.key \in Keys \cup {NoKey}
      BY <1>2, OptionRanges
    <3>2. /\ rows' \in [Instances -> Settings \cup {NoRow}]
          /\ saved' \in [Instances -> Settings \cup {NoRow}]
          /\ sealed' \in [Instances -> Keys \cup {NoKey}]
          /\ SameValues(saved'[web.gid], s) /\ RowsAreSaved'
      BY <1>1, <1>2, <1>3, <2>1, <2>3, <3>1, StoreKeepsValues
    <3>3. TypeOK'
      BY <1>1, <1>2, <2>1, <2>2, <2>3, <3>2 DEF TypeOK
    <3>4. SavedSurvives'
      BY <1>2, <1>3, <2>1, <2>2, <2>3, <3>2, SavedIsHad
    <3> QED
      BY <3>2, <3>3, <3>4 DEF SavedInv
  <2>4. CASE ~toDB
    <3>1. UNCHANGED <<rows, saved, sealed>> /\ synced' = ""
      BY <2>1, <2>4
    <3>2. TypeOK'
      BY <1>1, <2>1, <2>2, <3>1 DEF TypeOK
    <3>3. RowsAreSaved'
      BY <1>1, <3>1 DEF RowsAreSaved
    <3>4. SavedSurvives'
      BY <3>1 DEF SavedSurvives, HasSaved
    <3> QED
      BY <3>2, <3>3, <3>4 DEF SavedInv
  <2> QED
    BY <2>3, <2>4
<1> QED
  BY <1>4, <1>5

LEMMA ReplaceKeepsSaved ==
  ASSUME SavedInv, NEW i \in Instances, NEW r \in Settings \cup {NoRow},
         Replace(i, r)
  PROVE  SavedInv'
<1>1. /\ rows' = [rows EXCEPT ![i] = r] /\ saved' = [saved EXCEPT ![i] = NoRow]
      /\ sealed' = [sealed EXCEPT ![i] = NoKey]
      /\ Overtaken(i) /\ UNCHANGED <<web, generated>>
      /\ TypeOK /\ RowsAreSaved /\ SavedSurvives
  BY DEF Replace, SavedInv
<1>2. /\ rows' \in [Instances -> Settings \cup {NoRow}]
      /\ saved' \in [Instances -> Settings \cup {NoRow}]
      /\ sealed' \in [Instances -> Keys \cup {NoKey}]
      /\ \A j \in Instances : j # i => saved'[j] = saved[j]
      /\ RowsAreSaved'
  BY <1>1, RowWritten
<1>3. SavedSurvives' /\ synced' \in Instances \cup {""}
  BY <1>1, <1>2, OvertakenKeepsSaved
<1>4. TypeOK'
  BY <1>1, <1>2, <1>3 DEF TypeOK
<1> QED
  BY <1>2, <1>3, <1>4 DEF SavedInv

(* Settings keep their type, and what was saved is not lost, in every step *)
(* of the program, of its users and of other tools.                        *)
THEOREM InductiveSaved == Spec => []SavedInv
<1>1. Init => SavedInv
  BY PasswordRange DEF Init, SavedInv, TypeOK, RowsAreSaved, SavedSurvives,
                       HasSaved
<1>2. ASSUME SavedInv, [Next]_vars PROVE SavedInv'
  <2>1. ASSUME NEW o \in Options, SaveConfigToDB(o) PROVE SavedInv'
    BY <1>2, <2>1, SaveConfigKeepsSaved
  <2>2. ASSUME NEW o \in Options, Start(o) PROVE SavedInv'
    BY <1>2, <2>2, StartKeepsSaved
  <2>3. CASE Stop
    <3>1. /\ web' = NotRunning /\ synced' = ""
          /\ UNCHANGED <<rows, generated, saved, sealed>>
      BY <2>3 DEF Stop
    <3> QED
      BY <1>2, <3>1 DEF SavedInv, TypeOK, RowsAreSaved, SavedSurvives, HasSaved
  <2>4. CASE SaveConfigHandler
    <3>1. /\ Running /\ Store(web.gid, web.settings, web.opts.key)
          /\ synced' = web.gid /\ UNCHANGED <<web, generated>>
      BY <2>4 DEF SaveConfigHandler, ConfigDBMode
    <3>2. /\ web.gid \in Instances /\ web.settings \in Settings
          /\ web.opts \in Options /\ TypeOK /\ RowsAreSaved
      BY <1>2, <3>1 DEF SavedInv, TypeOK, Running, Processes
    <3>3. PICK s \in Settings : s = web.settings
      BY <3>2
    <3>4. /\ rows' \in [Instances -> Settings \cup {NoRow}]
          /\ saved' \in [Instances -> Settings \cup {NoRow}]
          /\ sealed' \in [Instances -> Keys \cup {NoKey}]
          /\ SameValues(saved'[web.gid], s) /\ RowsAreSaved'
      BY <3>1, <3>2, <3>3, OptionRanges, StoreKeepsValues
    <3>5. TypeOK'
      BY <3>1, <3>2, <3>4 DEF TypeOK
    <3>6. web'.settings = s
      BY <3>1, <3>3
    <3>7. SavedSurvives'
      BY <3>1, <3>2, <3>4, <3>6, SavedIsHad
    <3> QED
      BY <3>4, <3>5, <3>7 DEF SavedInv
  <2>5. CASE LoadConfigHandler
    BY <1>2, <2>5, LoadConfigKeepsSaved
  <2>6. CASE DeleteConfigHandler
    <3>1. web.gid \in Instances /\ Replace(web.gid, NoRow)
      BY <1>2, <2>6 DEF DeleteConfigHandler, ConfigDBMode, Running, SavedInv,
                        TypeOK, Processes
    <3> QED
      BY <1>2, <3>1, ReplaceKeepsSaved
  <2>7. ASSUME NEW form \in Forms, NEW toDB \in BOOLEAN, NEW fails \in BOOLEAN,
               UpdateConfigHandler(form, toDB, fails)
        PROVE  SavedInv'
    BY <1>2, <2>7, UpdateConfigKeepsSaved
  <2>8. ASSUME NEW blob \in Blobs, WriteBlob(blob) PROVE SavedInv'
    <3>1. blob.to \in Instances /\ blob.settings \in Settings
      BY ConfigAssumption
    <3> QED
      BY <1>2, <2>8, <3>1, ReplaceKeepsSaved DEF WriteBlob
  <2>9. CASE UNCHANGED vars
    BY <1>2, <2>9 DEF vars, SavedInv, TypeOK, RowsAreSaved, SavedSurvives,
                        HasSaved, Running
  <2> QED
    BY <1>2, <2>1, <2>2, <2>3, <2>4, <2>5, <2>6, <2>7, <2>8, <2>9 DEF Next
<1> QED
  BY <1>1, <1>2, PTL DEF Spec

(* Every variable has its type: the settings of a process, whatever command*)
(* line, table and forms they come from, are settings.                     *)
THEOREM TypeCorrect == Spec => []TypeOK
<1>1. SavedInv => TypeOK
  BY DEF SavedInv
<1> QED
  BY <1>1, InductiveSaved, PTL

(* A process whose settings come from the table, or went there last, has   *)
(* what was saved, through encryption, defaults, restarts, reloads and     *)
(* updates that failed (Store.Save, loadConfigHandler, updateConfigHandler,*)
(* applyCLIOverrides).                                                     *)
THEOREM SavedNotLost == Spec => []SavedSurvives
<1>1. SavedInv => SavedSurvives
  BY DEF SavedInv
<1> QED
  BY <1>1, InductiveSaved, PTL

=============================================================================
