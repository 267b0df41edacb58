------------------------------ MODULE Accounts ------------------------------
(***************************************************************************)
(* User accounts, their profile pictures and the evidence files, which     *)
(* live in a storage of their own.  A request is a sequence of awaits; any *)
(* of them may fail, which ends the request.                               *)
(***************************************************************************)
EXTENDS Naturals, FiniteSets

CONSTANTS
    Users, Emails, Wallets, Parcels,
    Nothing,            \* no e-mail yet, no wallet
    AccountCalls,       \* requests under way
    MaxAccountCalls,    \* bound on the requests
    MaxFiles            \* bound on the files ever stored

ASSUME AccountAssumption == MaxAccountCalls \in Nat /\ MaxFiles \in Nat /\ Nothing \notin Emails \cup Wallets

VARIABLES
    account,     \* User documents; one without e-mail is not there
    parcels,     \* the deliveries of each user, and which of them are soft-deleted
    erased,
    retired,     \* the users whose driver profile is soft-deleted
    storage,     \* the keys stored, and how many have been given out
    issued,
    evidenceDocs,\* the keys of Evidence documents
    byHand,      \* an administrator has written a picture key
    accountCall, \* requests under way
    accountCalls \* how many there have been

accountVars ==
    <<account, parcels, erased, retired, storage, issued, evidenceDocs, byHand, accountCall, accountCalls>>

NoKey == 0
Keys == 1..MaxFiles

Account == [email: Emails \cup {Nothing}, wallet: Wallets \cup {Nothing}, role: {"user", "admin"},
            status: {"active", "suspended", "banned"}, isDeleted: BOOLEAN, picture: Keys \cup {NoKey}]

NewAccount(email) ==
    [email |-> email, wallet |-> Nothing, role |-> "user", status |-> "active", isDeleted |-> FALSE, picture |-> NoKey]

Here(u) == account[u].email # Nothing

NoAccountCall == [pc |-> "idle"]

AccountTypeOK ==
    /\ account \in [Users -> Account]
    /\ parcels \in [Users -> SUBSET Parcels] /\ erased \subseteq Parcels /\ retired \subseteq Users
    /\ issued \in 0..MaxFiles /\ storage \subseteq 1..issued /\ evidenceDocs \subseteq Keys
    /\ byHand \in BOOLEAN /\ accountCalls \in 0..MaxAccountCalls
    /\ \A c \in AccountCalls : accountCall[c].pc \in
         {"idle", "register", "wallet", "suspend", "restore", "evidence", "record", "picture", "savePicture",
          "clearPicture", "removeFile", "retire", "find", "erase", "cleanup", "delete"}

\* Some users have registered, each with an address of their own, and some of them with a picture.
AccountInit ==
    /\ issued \in 0..MaxFiles /\ storage = 1..issued
    /\ \E email \in [Users -> Emails \cup {Nothing}], picture \in [Users -> storage \cup {NoKey}] :
         /\ \A u, v \in Users : u # v /\ email[u] = email[v] => email[u] = Nothing
         /\ \A u, v \in Users : u # v /\ picture[u] = picture[v] => picture[u] = NoKey
         /\ \A u \in Users : email[u] = Nothing => picture[u] = NoKey
         /\ account = [u \in Users |-> [NewAccount(email[u]) EXCEPT !.picture = picture[u]]]
    /\ parcels = [u \in Users |-> {}] /\ erased = {} /\ retired = {}
    /\ evidenceDocs = {} /\ byHand = FALSE
    /\ accountCall = [c \in AccountCalls |-> NoAccountCall] /\ accountCalls = 0

AccountGoes(c, rec) == accountCall' = [accountCall EXCEPT ![c] = rec]

AccountCallArrives(c, rec) ==
    /\ accountCall[c] = NoAccountCall /\ accountCalls < MaxAccountCalls
    /\ accountCalls' = accountCalls + 1
    /\ AccountGoes(c, rec)
    /\ UNCHANGED <<account, parcels, erased, retired, storage, issued, evidenceDocs, byHand>>

AccountAt(c, pc) == accountCall[c].pc = pc /\ UNCHANGED accountCalls

ParcelVars == <<parcels, erased, retired>>
FileVars == <<storage, issued, evidenceDocs>>

AccountCallFails(c) ==
    /\ accountCall[c] # NoAccountCall
    /\ AccountGoes(c, NoAccountCall)
    /\ UNCHANGED <<account, ParcelVars, FileVars, byHand, accountCalls>>

-----------------------------------------------------------------------------
(* Accounts *)

\* The unique indexes on email and walletAddress; soft-deleted accounts count.
Taken(u, field, value) == \E v \in Users \ {u} : account[v][field] = value

RegisterUser(c) ==
    \/ \E u \in Users, e \in Emails :
         /\ ~Here(u) /\ \A v \in Users : account[v].email # e
         /\ AccountCallArrives(c, [pc |-> "register", user |-> u, email |-> e])
    \/ /\ AccountAt(c, "register")
       /\ LET u == accountCall[c].user IN
            account' = IF Here(u) \/ Taken(u, "email", accountCall[c].email) THEN account
                       ELSE [account EXCEPT ![u] = NewAccount(accountCall[c].email)]
       /\ AccountGoes(c, NoAccountCall)
       /\ UNCHANGED <<ParcelVars, FileVars, byHand>>

UpdateWallet(c) ==
    \/ \E u \in Users, w \in Wallets :
         Here(u) /\ ~Taken(u, "wallet", w) /\ AccountCallArrives(c, [pc |-> "wallet", user |-> u, wallet |-> w])
    \/ /\ AccountAt(c, "wallet")
       /\ LET u == accountCall[c].user IN
            account' = IF Taken(u, "wallet", accountCall[c].wallet) THEN account
                       ELSE [account EXCEPT ![u].wallet = accountCall[c].wallet]
       /\ AccountGoes(c, NoAccountCall)
       /\ UNCHANGED <<ParcelVars, FileVars, byHand>>

\* The fields an administrator may write: the role, and the key of the picture, too.
AllowedWrite(u) ==
    \/ \E r \in {"user", "admin"} : account' = [account EXCEPT ![u].role = r] /\ UNCHANGED byHand
    \/ ~byHand /\ byHand' = TRUE /\ \E k \in Keys : account' = [account EXCEPT ![u].picture = k]

\* One findOneAndUpdate.
UpdateUser ==
    \E u \in Users :
        /\ Here(u) /\ ~account[u].isDeleted
        /\ accountCalls < MaxAccountCalls /\ accountCalls' = accountCalls + 1
        /\ AllowedWrite(u)
        /\ UNCHANGED <<ParcelVars, FileVars, accountCall>>

\* An administrator cannot be suspended, as far as the role read says.
SuspendUser(c) ==
    \/ \E u \in Users, s \in {"suspended", "banned"} :
         /\ Here(u) /\ account[u].role # "admin" /\ account[u].status # s
         /\ AccountCallArrives(c, [pc |-> "suspend", user |-> u, status |-> s])
    \/ /\ AccountAt(c, "suspend")
       /\ account' = [account EXCEPT ![accountCall[c].user].status = accountCall[c].status]
       /\ AccountGoes(c, NoAccountCall)
       /\ UNCHANGED <<ParcelVars, FileVars, byHand>>

RestoreUser(c) ==
    \/ \E u \in Users : account[u].isDeleted /\ AccountCallArrives(c, [pc |-> "restore", user |-> u])
    \/ /\ AccountAt(c, "restore")
       /\ account' = [account EXCEPT ![accountCall[c].user].isDeleted = FALSE]
       /\ AccountGoes(c, NoAccountCall)
       /\ UNCHANGED <<ParcelVars, FileVars, byHand>>

ParcelAppears ==
    \E u \in Users, y \in Parcels :
        /\ Here(u) /\ \A v \in Users : y \notin parcels[v]
        /\ parcels' = [parcels EXCEPT ![u] = @ \cup {y}]
        /\ UNCHANGED <<account, erased, retired, FileVars, byHand, accountCall, accountCalls>>

-----------------------------------------------------------------------------
(* Files *)

Upload(c, next) ==
    /\ issued < MaxFiles
    /\ issued' = issued + 1 /\ storage' = storage \cup {issued + 1}
    /\ AccountGoes(c, next)

RequestEvidenceUpload(c) == AccountCallArrives(c, [pc |-> "evidence"])

\* The bytes are stored before the document is written.
UploadEvidence(c) ==
    \/ /\ AccountAt(c, "evidence")
       /\ Upload(c, [pc |-> "record", key |-> issued + 1])
       /\ UNCHANGED <<account, ParcelVars, evidenceDocs, byHand>>
    \/ /\ AccountAt(c, "record")
       /\ evidenceDocs' = evidenceDocs \cup {accountCall[c].key}
       /\ AccountGoes(c, NoAccountCall)
       /\ UNCHANGED <<account, ParcelVars, storage, issued, byHand>>

\* A removal that fails is only logged, and the request goes on.
RemoveStoredFile(c) ==
    /\ AccountAt(c, "removeFile")
    /\ storage' \in {storage, storage \ {accountCall[c].key}}
    /\ AccountGoes(c, accountCall[c].then)
    /\ UNCHANGED <<account, ParcelVars, issued, evidenceDocs, byHand>>

\* The old file goes last.
Removing(key, then) == IF key = NoKey THEN then ELSE [pc |-> "removeFile", key |-> key, then |-> then]

RequestPictureUpload(c) ==
    \E u \in Users : Here(u) /\ AccountCallArrives(c, [pc |-> "picture", user |-> u, old |-> account[u].picture])

UploadProfilePicture(c) ==
    \/ /\ AccountAt(c, "picture")
       /\ Upload(c, [pc |-> "savePicture", user |-> accountCall[c].user, old |-> accountCall[c].old, key |-> issued + 1])
       /\ UNCHANGED <<account, ParcelVars, evidenceDocs, byHand>>
    \/ /\ AccountAt(c, "savePicture")
       /\ account' = [account EXCEPT ![accountCall[c].user].picture = accountCall[c].key]
       /\ AccountGoes(c, Removing(accountCall[c].old, NoAccountCall))
       /\ UNCHANGED <<ParcelVars, FileVars, byHand>>

DeleteProfilePicture(c) ==
    \E u \in Users :
        /\ Here(u) /\ account[u].picture # NoKey
        /\ AccountCallArrives(c, [pc |-> "clearPicture", user |-> u, key |-> account[u].picture, then |-> NoAccountCall])

\* Mutant: the file is removed first.
ClearThenRemoveSwapped(c) ==
    /\ storage' = storage \ {accountCall[c].key}
    /\ AccountGoes(c, accountCall[c].then)
    /\ UNCHANGED account

\* The document first, and then the file.
ClearThenRemove(c) ==
    /\ account' = [account EXCEPT ![accountCall[c].user].picture = NoKey]
    /\ AccountGoes(c, Removing(accountCall[c].key, accountCall[c].then))
    /\ UNCHANGED storage

ClearPicture(c) ==
    /\ AccountAt(c, "clearPicture")
    /\ ClearThenRemove(c)
    /\ UNCHANGED <<ParcelVars, issued, evidenceDocs, byHand>>

-----------------------------------------------------------------------------
(* softDeleteUser: driver profile, deliveries one by one, picture, and last the account. *)

RequestDeletion(c) ==
    \E u \in Users : Here(u) /\ ~account[u].isDeleted /\ AccountCallArrives(c, [pc |-> "retire", user |-> u])

SoftDeleteUser(c) ==
    LET u == accountCall[c].user IN
    \/ /\ AccountAt(c, "retire")
       /\ retired' = retired \cup {u}
       /\ AccountGoes(c, [pc |-> "find", user |-> u])
       /\ UNCHANGED <<account, parcels, erased, FileVars, byHand>>
    \/ /\ AccountAt(c, "find")
       /\ AccountGoes(c, [pc |-> "erase", user |-> u, left |-> parcels[u] \ erased])
       /\ UNCHANGED <<account, ParcelVars, FileVars, byHand>>
    \/ /\ AccountAt(c, "erase")
       /\ \E y \in accountCall[c].left : erased' = erased \cup {y} /\ AccountGoes(c, [accountCall[c] EXCEPT !.left = @ \ {y}])
       /\ UNCHANGED <<account, parcels, retired, FileVars, byHand>>
    \/ /\ AccountAt(c, "erase") /\ accountCall[c].left = {}
       /\ LET last == [pc |-> "delete", user |-> u] IN
            AccountGoes(c, IF account[u].picture = NoKey THEN last
                           ELSE [pc |-> "clearPicture", user |-> u, key |-> account[u].picture, then |-> last])
       /\ UNCHANGED <<account, ParcelVars, FileVars, byHand>>
    \/ /\ AccountAt(c, "delete")
       /\ account' = [account EXCEPT ![u].isDeleted = TRUE]
       /\ AccountGoes(c, NoAccountCall)
       /\ UNCHANGED <<ParcelVars, FileVars, byHand>>

AccountStep ==
    \/ \E c \in AccountCalls :
         \/ RegisterUser(c) \/ UpdateWallet(c) \/ SuspendUser(c) \/ RestoreUser(c) \/ RequestDeletion(c) \/ SoftDeleteUser(c)
         \/ RequestEvidenceUpload(c) \/ UploadEvidence(c) \/ RequestPictureUpload(c) \/ UploadProfilePicture(c) \/ DeleteProfilePicture(c) \/ ClearPicture(c)
         \/ RemoveStoredFile(c) \/ AccountCallFails(c)
    \/ UpdateUser
    \/ ParcelAppears

-----------------------------------------------------------------------------
(* Correctness *)

\* Every key that a document holds names a stored file, whichever await of whichever upload or
\* deletion failed ("a DB record never references a file that failed to upload"), as long as no
\* administrator writes keys: deleting a picture whose key is a piece of evidence deletes the evidence.
KeysHaveFiles ==
    ~byHand => evidenceDocs \subseteq storage /\ \A u \in Users : account[u].picture \in storage \cup {NoKey}

=============================================================================
