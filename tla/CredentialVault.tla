--------------------------- MODULE CredentialVault ---------------------------
(***************************************************************************)
(* One credential of the vault (internal/credentials/credentials.service.  *)
(* go): the Portal's create, update and delete, and SSHAuth, which a       *)
(* Console calls to dial.                                                  *)
(*                                                                         *)
(* A row holds values that only make sense together: a private key, the    *)
(* passphrase that opens it and its public half; a become method and its   *)
(* secret.  Update is a read of the row, checks and changes in memory, and *)
(* a later write of every column (credential.repository.go), with any      *)
(* number of other requests in between.  Rows share nothing, so one is     *)
(* enough.  Encryption is left out: what was sealed is opened again.       *)
(***************************************************************************)
EXTENDS FiniteSets

CONSTANTS
    Clients,   \* Portal requests that run at once
    Keys,      \* SSH private keys
    Phrases,   \* passphrases
    NoPhrase,  \* the empty passphrase; no passphrase stored
    Absent,    \* a field the request does not have
    LockOf(_), \* LockOf(k): the passphrase that opens k, NoPhrase if none does
    Password,  \* the secret of a password credential (their values do not matter)
    NoKey,     \* no private key in the request; no public key
    NoRow      \* nothing in flight

ASSUME PhrasesAssumption ==
    /\ NoPhrase \notin Phrases
    /\ Absent \notin Phrases \cup {NoPhrase}
    /\ \A k \in Keys : LockOf(k) \in Phrases \cup {NoPhrase}
ASSUME KeysAssumption == NoKey \notin Keys /\ Password \notin Keys \cup {NoKey}

VARIABLES
    row,      \* the row in the table; NoRow before Create and after Delete
    created,  \* the id has been used
    edit,     \* the row each Update has in memory
    dialled   \* what the last SSHAuth came to

vault == <<row, created, edit, dialled>>

-----------------------------------------------------------------------------
Credential == [type: {"password", "ssh_key"},
               secret: Keys \cup {Password},
               public: Keys \cup {NoKey},      \* the key whose public half is stored
               phrase: Phrases \cup {NoPhrase},
               become: {"none", "sudo"},       \* su is like sudo
               becomeSecret: BOOLEAN]

ASSUME NoRowAssumption == NoRow \notin Credential

\* password: TRUE when one is sent.  become "absent" leaves method and user.
Request == [password: BOOLEAN, key: Keys \cup {NoKey},
            phrase: Phrases \cup {NoPhrase, Absent},
            become: {"absent", "none", "sudo"},
            becomeSecret: {"absent", "clear", "set"}]

\* parseSSHPrivateKey (golang.org/x/crypto/ssh): a locked key needs its own
\* passphrase, and one that is not locked refuses any.
Parses(key, phrase) == LockOf(key) = phrase

Fits(r) == r.type = "ssh_key" => Parses(r.secret, r.phrase)

-----------------------------------------------------------------------------
\* prepareSecret: the request's secret for a credential of this type, with its
\* public half; empty when it is missing or does not parse.
Prepared(type, req, phrase) ==
    IF type = "password"
    THEN {s \in {[secret |-> Password, public |-> NoKey]} : req.password}
    ELSE {[secret |-> k, public |-> k] :
            k \in {k \in Keys : req.key = k /\ Parses(k, phrase)}}

\* normalizeBecome and the become secret: `none` keeps no secret.
WithBecome(r, req) ==
    LET become == IF req.become = "absent" THEN r.become ELSE req.become IN
    [r EXCEPT
       !.become = become,
       !.becomeSecret = CASE become = "none" -> FALSE
                          [] become # "none" /\ req.becomeSecret = "absent" -> @
                          [] OTHER -> req.becomeSecret = "set"]

HasSecret(req) == req.password \/ req.key # NoKey
NewPhrase(req) == req.phrase \notin {NoPhrase, Absent}
PhraseIn(r, req) == IF req.phrase = Absent THEN r.phrase ELSE req.phrase

\* Update's checks: a passphrase is for SSH keys only, and a new one that comes
\* without a key must open the stored key.
PhraseAllowed(r, req) ==
    NewPhrase(req) =>
        /\ r.type = "ssh_key"
        /\ HasSecret(req) \/ Parses(r.secret, req.phrase)

\* What Update makes of the row it read: the row to write, none if refused.
Edited(r, req) ==
    {WithBecome([r EXCEPT !.secret = s.secret, !.public = s.public,
                          !.phrase = PhraseIn(r, req)], req) :
       s \in {s \in IF HasSecret(req) THEN Prepared(r.type, req, PhraseIn(r, req))
                    ELSE {[secret |-> r.secret, public |-> r.public]} :
                PhraseAllowed(r, req)}}

-----------------------------------------------------------------------------
VaultInit ==
    /\ row = NoRow
    /\ created = FALSE
    /\ edit = [c \in Clients |-> NoRow]
    /\ dialled = "nothing"

\* Service.Create: checked, then inserted.
CreateRow(type, req) ==
    /\ ~created
    /\ req.phrase # Absent
    /\ req.phrase # NoPhrase => type = "ssh_key"
    /\ \E s \in Prepared(type, req, req.phrase) :
         row' = WithBecome([type |-> type, secret |-> s.secret,
                            public |-> s.public, phrase |-> req.phrase,
                            become |-> "none", becomeSecret |-> FALSE], req)
    /\ created' = TRUE
    /\ UNCHANGED <<edit, dialled>>

Create == \E type \in {"password", "ssh_key"}, req \in Request : CreateRow(type, req)

\* Service.Update up to its write: GetByID, then checks and changes in memory.
UpdateReadFor(c, req) ==
    /\ edit[c] = NoRow
    /\ row # NoRow
    /\ \E r \in Edited(row, req) : edit' = [edit EXCEPT ![c] = r]
    /\ UNCHANGED <<row, created, dialled>>

UpdateRead(c) == \E req \in Request : UpdateReadFor(c, req)

\* Mutant of UpdateWrite: no Select("*"), columns that became empty are not
\* written.
UpdateWriteNonZero(c) ==
    /\ edit[c] # NoRow
    /\ row' = IF row = NoRow THEN NoRow
              ELSE [edit[c] EXCEPT
                      !.phrase = IF @ = NoPhrase THEN row.phrase ELSE @,
                      !.becomeSecret = @ \/ row.becomeSecret]
    /\ edit' = [edit EXCEPT ![c] = NoRow]
    /\ UNCHANGED <<created, dialled>>

\* CredentialRepository.Update: every column, if the row is still there.
UpdateWrite(c) ==
    /\ edit[c] # NoRow
    /\ row' = IF row = NoRow THEN NoRow ELSE edit[c]
    /\ edit' = [edit EXCEPT ![c] = NoRow]
    /\ UNCHANGED <<created, dialled>>

Delete ==
    /\ row # NoRow
    /\ row' = NoRow
    /\ UNCHANGED <<created, edit, dialled>>

\* SSHAuth: one read, then the key is parsed with the stored passphrase.
SSHAuth ==
    /\ dialled' = CASE row = NoRow -> "not found"
                    [] row # NoRow /\ Fits(row) -> "offered"
                    [] OTHER -> "invalid key"
    /\ UNCHANGED <<row, created, edit>>

VaultNext ==
    \/ Create \/ Delete \/ SSHAuth
    \/ \E c \in Clients : UpdateRead(c) \/ UpdateWrite(c)

VaultSpec == VaultInit /\ [][VaultNext]_vault

-----------------------------------------------------------------------------
(* Properties *)

VaultTypeOK ==
    /\ row \in Credential \cup {NoRow}
    /\ created \in BOOLEAN
    /\ edit \in [Clients -> Credential \cup {NoRow}]
    /\ dialled \in {"nothing", "not found", "offered", "invalid key"}

Rows == ({row} \cup {edit[c] : c \in Clients}) \ {NoRow}

\* Whatever updates overlap, the stored passphrase is the one of the stored
\* key: a passphrase that does not open the key next to it is never in the
\* table, nor on its way there.
PhraseOpensKey == \A r \in Rows : r.phrase # NoPhrase => r.type = "ssh_key" /\ Fits(r)

\* The public key the Portal shows for copying to a machine is that of the key
\* the Server will sign with.
PublicMatchesSecret ==
    \A r \in Rows :
        /\ r.type = "ssh_key" => r.secret \in Keys /\ r.public = r.secret
        /\ r.type = "password" => r.secret = Password /\ r.public = NoKey

\* `none` never keeps an escalation secret for a later `sudo` to find.
NoBecomeNoSecret == \A r \in Rows : r.become = "none" => ~r.becomeSecret

VaultInvariant ==
    /\ VaultTypeOK
    /\ PhraseOpensKey
    /\ PublicMatchesSecret
    /\ NoBecomeNoSecret

\* A change of the passphrase, to none as well, leaves one that opens
\* the stored key ("Validate new passphrase against stored private key",
\* credentials.service.go): SSHAuth never meets a key it cannot parse.
KeyAlwaysParses == dialled # "invalid key"
=============================================================================
