---------------------------- MODULE CredentialForm ----------------------------
(***************************************************************************)
(* The Portal's Credentials page (CredentialsPage.tsx, CredentialList.tsx, *)
(* CredentialForm.tsx) on the vault: one operator lists, generates, types, *)
(* saves and deletes while other clients write the same row.               *)
(*                                                                         *)
(* The form edits the copy the list had read, so it may be behind the row; *)
(* a blank field, a cleared one and a typed one must reach the Server as   *)
(* three different things.  Names, user names and error texts are left     *)
(* out; React applies what one callback sets together, so it is one step.  *)
(***************************************************************************)
EXTENDS CredentialVault, Naturals

CONSTANTS
    Operator,   \* the client that is the form
    Generated,  \* keys POST /generate-ssh returns: never with a passphrase
    NoCall,     \* no save under way
    MaxTyped,   \* bound on changes of fields
    MaxForms,   \* bound on forms opened
    MaxOthers   \* bound on requests of other clients

ASSUME OperatorAssumption == Operator \in Clients
ASSUME GeneratedAssumption ==
    Generated \subseteq Keys /\ \A k \in Generated : LockOf(k) = NoPhrase
ASSUME FormBounds == MaxTyped \in Nat /\ MaxForms \in Nat /\ MaxOthers \in Nat

VARIABLES
    page,    \* CredentialsPage and CredentialList
    form,    \* CredentialForm
    call,    \* its save: the fields it was built from, and how far it is
    counts   \* typed, forms, others: how much of the bounds is used

formVars == <<row, created, edit, dialled, page, form, call, counts>>

-----------------------------------------------------------------------------
\* item: the row as the list, then the form, has it (the API shows no secret);
\* mode: the page's, "generate" being create with generateSSHOnMount.
Page == [mode: {"list", "create", "generate", "edit"}, loading: BOOLEAN,
         item: Credential \cup {NoRow}]

\* password, becomeSecret: something was typed; preview: publicKeyPreview.
Fields == [type: {"password", "ssh_key"}, password: BOOLEAN,
           key: Keys \cup {NoKey}, phrase: Phrases \cup {NoPhrase},
           clear: BOOLEAN, preview: Keys \cup {NoKey},
           become: {"none", "sudo"}, becomeSecret: BOOLEAN, clearBecome: BOOLEAN,
           busy: {"no", "mounting", "generating", "saving"}]

\* seen (history): the rows stored while this save was under way.
Saves == [at: {"sent", "writing", "written"}, was: Fields, seen: SUBSET Credential]

ASSUME NoCallAssumption == NoCall \notin Saves

Editing == page.mode = "edit"

\* useState of a form that mounts for this mode and credential.
Blank(mode, item) ==
    [type |-> IF mode = "edit" THEN item.type
              ELSE IF mode = "generate" THEN "ssh_key" ELSE "password",
     password |-> FALSE, key |-> NoKey, phrase |-> NoPhrase, clear |-> FALSE,
     preview |-> IF mode = "edit" THEN item.public ELSE NoKey,
     become |-> IF mode = "edit" THEN item.become ELSE "none",
     becomeSecret |-> FALSE, clearBecome |-> FALSE,
     busy |-> IF mode = "generate" THEN "mounting" ELSE "no"]

\* Mutant of FormRequest: the passphrase is sent as it is, blank or not.
FormRequestPlain(f) ==
    [password |-> f.type = "password" /\ f.password,
     key |-> IF f.type = "ssh_key" THEN f.key ELSE NoKey,
     phrase |-> f.phrase,
     become |-> f.become,
     becomeSecret |-> IF f.become = "none" \/ (Editing /\ f.clearBecome) THEN "clear"
                      ELSE IF f.becomeSecret THEN "set" ELSE "absent"]

\* handleSubmit: UpdateCredentialInput or CreateCredentialInput.
FormRequest(f) ==
    [password |-> f.type = "password" /\ f.password,
     key |-> IF f.type = "ssh_key" THEN f.key ELSE NoKey,
     phrase |-> IF f.type = "ssh_key" /\ ~f.clear /\ f.phrase # NoPhrase THEN f.phrase
                ELSE IF Editing /\ ~(f.type = "ssh_key" /\ f.clear) THEN Absent
                ELSE NoPhrase,
     become |-> f.become,
     becomeSecret |-> IF f.become = "none" \/ f.clearBecome THEN "clear"
                      ELSE IF f.becomeSecret THEN "set" ELSE "absent"]

InitForm ==
    /\ VaultInit
    /\ page = [mode |-> "list", loading |-> TRUE, item |-> NoRow]
    /\ form = Blank("create", NoRow)
    /\ call = NoCall
    /\ counts = [typed |-> 0, forms |-> 0, others |-> 0]

Used(bound) == counts' = [counts EXCEPT ![bound] = @ + 1]

-----------------------------------------------------------------------------
(* The list *)

\* CredentialList's effect: the answer, or its failure.
ListLoads ==
    /\ page.mode = "list" /\ page.loading
    /\ \E item \in {row, NoRow} :
         page' = [page EXCEPT !.loading = FALSE, !.item = item]
    /\ UNCHANGED <<vault, form, call, counts>>

\* onCreate, onGenerateSSH, onEdit.
Open(mode) ==
    /\ page.mode = "list" /\ ~page.loading
    /\ mode = "edit" => page.item # NoRow
    /\ counts.forms < MaxForms /\ Used("forms")
    /\ page' = [page EXCEPT !.mode = mode]
    /\ form' = Blank(mode, page.item)
    /\ UNCHANGED <<vault, call>>

\* handleDelete: the row is filtered out once the Server has deleted it.
DeleteListed ==
    /\ page.mode = "list" /\ ~page.loading /\ page.item # NoRow
    /\ Delete
    /\ page' = [page EXCEPT !.item = NoRow]
    /\ UNCHANGED <<form, call, counts>>

-----------------------------------------------------------------------------
(* The fields.  None is locked while a request is under way. *)

Typed(f) ==
    /\ page.mode # "list"
    /\ counts.typed < MaxTyped /\ Used("typed")
    /\ f # form
    /\ form' = f
    /\ UNCHANGED <<vault, page, call>>

\* The type of a credential that exists, or is being generated, is fixed.
ChooseType ==
    /\ page.mode = "create"
    /\ \/ form.type = "password" /\ Typed([form EXCEPT !.type = "ssh_key"])
       \/ /\ form.type = "ssh_key"
          /\ Typed([form EXCEPT !.type = "password", !.preview = NoKey,
                                !.phrase = NoPhrase, !.clear = FALSE])

\* Mutant of TypeKey: the preview of the last key stays.
TypeKeyKeepsPreview ==
    /\ form.type = "ssh_key"
    /\ \E k \in (Keys \cup {NoKey}) \ {form.key} :
         Typed([form EXCEPT !.key = k])

\* The Portal cannot derive a public key: it shows none for a typed one.
TypeKey ==
    /\ form.type = "ssh_key"
    /\ \E k \in (Keys \cup {NoKey}) \ {form.key} :
         Typed([form EXCEPT !.key = k, !.preview = NoKey])

TypePhrase ==
    /\ form.type = "ssh_key" /\ ~form.clear
    /\ \E p \in Phrases \cup {NoPhrase} : Typed([form EXCEPT !.phrase = p])

\* Clear stored passphrase.
ToggleClear ==
    /\ form.type = "ssh_key" /\ Editing /\ page.item.phrase # NoPhrase
    /\ \/ form.clear /\ Typed([form EXCEPT !.clear = FALSE])
       \/ ~form.clear /\ Typed([form EXCEPT !.clear = TRUE, !.phrase = NoPhrase])

TypePassword ==
    /\ form.type = "password"
    /\ Typed([form EXCEPT !.password = ~@])

ChooseBecome == Typed([form EXCEPT !.become = IF @ = "none" THEN "sudo" ELSE "none"])

TypeBecomeSecret ==
    /\ form.become # "none" /\ ~form.clearBecome
    /\ Typed([form EXCEPT !.becomeSecret = ~@])

\* Clear stored become password.
ToggleClearBecome ==
    /\ form.become # "none" /\ Editing /\ page.item.becomeSecret
    /\ \/ form.clearBecome /\ Typed([form EXCEPT !.clearBecome = FALSE])
       \/ ~form.clearBecome /\ Typed([form EXCEPT !.clearBecome = TRUE,
                                                  !.becomeSecret = FALSE])

-----------------------------------------------------------------------------
(* Generate Ed25519 key *)

\* handleGenerateSSH.
Generate ==
    /\ page.mode # "list" /\ form.type = "ssh_key" /\ form.busy = "no"
    /\ counts.typed < MaxTyped /\ Used("typed")
    /\ form' = [form EXCEPT !.busy = "generating"]
    /\ UNCHANGED <<vault, page, call>>

\* The effect of a form opened to generate sets type, key and preview; the
\* button's handler empties the passphrase as well.
GenerateAnswered ==
    /\ form.busy \in {"mounting", "generating"}
    /\ \E k \in Generated :
         form' = [form EXCEPT
                    !.type = "ssh_key", !.key = k, !.preview = k, !.busy = "no",
                    !.phrase = IF form.busy = "generating" THEN NoPhrase ELSE @,
                    !.clear = IF form.busy = "generating" THEN FALSE ELSE @]
    /\ UNCHANGED <<vault, page, call, counts>>

GenerateFails ==
    /\ form.busy \in {"mounting", "generating"}
    /\ form' = [form EXCEPT !.busy = "no"]
    /\ UNCHANGED <<vault, page, call, counts>>

-----------------------------------------------------------------------------
(* Save and Cancel *)

\* handleSubmit; the browser refuses a new credential without a secret.
Submit ==
    /\ page.mode # "list" /\ form.busy = "no"
    /\ Editing \/ (IF form.type = "password" THEN form.password ELSE form.key # NoKey)
    /\ form' = [form EXCEPT !.busy = "saving"]
    /\ call' = [at |-> "sent", was |-> form, seen |-> {row} \ {NoRow}]
    /\ UNCHANGED <<vault, page, counts>>

\* createCredential, or the first half of updateCredential.
ServerTakes ==
    /\ call # NoCall /\ call.at = "sent"
    /\ IF Editing
       THEN UpdateReadFor(Operator, FormRequest(call.was))
            /\ call' = [call EXCEPT !.at = "writing"]
       ELSE CreateRow(call.was.type, FormRequest(call.was))
            /\ call' = [call EXCEPT !.at = "written"]
    /\ UNCHANGED <<page, form, counts>>

ServerWrites ==
    /\ call # NoCall /\ call.at = "writing"
    /\ UpdateWrite(Operator)
    /\ call' = [call EXCEPT !.at = "written"]
    /\ UNCHANGED <<page, form, counts>>

\* onSaved: back to the list, which mounts and loads.
Saved ==
    /\ call # NoCall /\ call.at = "written"
    /\ page' = [mode |-> "list", loading |-> TRUE, item |-> NoRow]
    /\ form' = Blank("create", NoRow)
    /\ call' = NoCall
    /\ UNCHANGED <<vault, counts>>

\* The Server refuses, or the request or its answer is lost.
SaveFails ==
    /\ call # NoCall /\ call.at \in {"sent", "written"}
    /\ form' = [form EXCEPT !.busy = "no"]
    /\ call' = NoCall
    /\ UNCHANGED <<vault, page, counts>>

Cancel ==
    /\ page.mode # "list" /\ form.busy = "no"
    /\ page' = [mode |-> "list", loading |-> TRUE, item |-> NoRow]
    /\ form' = Blank("create", NoRow)
    /\ UNCHANGED <<vault, call, counts>>

-----------------------------------------------------------------------------
\* A save that is not through yet meets what others store.
SaveSees ==
    call' = IF call # NoCall /\ call.at # "written"
            THEN [call EXCEPT !.seen = @ \cup ({row'} \ {NoRow})]
            ELSE call

\* Other Portals, and Consoles that dial.
Others ==
    /\ \/ /\ counts.others < MaxOthers /\ Used("others")
          /\ Create \/ Delete \/ \E c \in Clients \ {Operator} : UpdateRead(c)
       \/ /\ SSHAuth \/ \E c \in Clients \ {Operator} : UpdateWrite(c)
          /\ UNCHANGED counts
    /\ SaveSees
    /\ UNCHANGED <<page, form>>

NextForm ==
    \/ ListLoads \/ DeleteListed \/ \E mode \in {"create", "generate", "edit"} : Open(mode)
    \/ ChooseType \/ TypeKey \/ TypePhrase \/ ToggleClear \/ TypePassword
    \/ ChooseBecome \/ TypeBecomeSecret \/ ToggleClearBecome
    \/ Generate \/ GenerateAnswered \/ GenerateFails
    \/ Submit \/ ServerTakes \/ ServerWrites \/ Saved \/ SaveFails \/ Cancel
    \/ Others

SpecForm == InitForm /\ [][NextForm]_formVars

-----------------------------------------------------------------------------
(* Properties *)

\* The public key an operator copied from the form while a private key was in
\* it is that of the key the Server stores when that form is saved, whatever
\* was typed or generated, in whatever order, before and during the save.
CopiedKeyIsStored ==
    [][(call # NoCall /\ call' # NoCall /\ call'.at = "written" /\ call.at # "written")
         => (call.was.key # NoKey /\ call.was.preview # NoKey /\ row' # NoRow
               => row'.public = call.was.preview)]_formVars

\* r has what s has wherever the operator of form f typed and cleared nothing.
\* The become method is no such field: the form sends its copy of it always.
LeavesAlone(f, r, s) ==
    /\ f.key = NoKey /\ ~f.password => r.secret = s.secret /\ r.public = s.public
    /\ f.phrase = NoPhrase /\ ~f.clear => r.phrase = s.phrase
    /\ f.become # "none" /\ ~f.becomeSecret /\ ~f.clearBecome
         => r.becomeSecret = s.becomeSecret

\* An edit has been written over a row that is still there.
EditWritten ==
    call # NoCall /\ call' # NoCall /\ call.at = "writing" /\ call'.at = "written"
      /\ row' # NoRow

\* "leave blank to keep": the row a save has written has, in every field left
\* blank, what one and the same row had that was stored while that save was
\* under way, and never what the form's list had read before - though others
\* write before, between and after the Server's read and write.
BlankKeeps ==
    [][EditWritten => \E s \in call.seen : LeavesAlone(call.was, row', s)]_formVars

\* The same of the row the write replaces, what others stored since the Server
\* read it included; and of the become method, if the operator left that alone.
BlankKeepsLatest ==
    [][EditWritten => /\ LeavesAlone(call.was, row', row)
                      /\ call.was.become = page.item.become
                           => row'.become = row.become]_formVars

\* "Creates a key pair here so you can save the private key in the vault"
\* (CredentialForm.tsx): a generated key the operator did not touch is never
\* one the Server must refuse.
GeneratedKeySaves ==
    call # NoCall /\ call.at = "sent" /\ call.was.key \in Generated
      /\ call.was.preview = call.was.key /\ Editing /\ row # NoRow
      => Edited(row, FormRequest(call.was)) # {}
=============================================================================
