------------------------------- MODULE Accounts -------------------------------
(***************************************************************************)
(* The accounts of beSeen-api and their avatars: a registration and an     *)
(* update of a profile write a User document that names an object in the   *)
(* object storage.  The two stores have no transaction in common: the      *)
(* object is put before the document is written, and deleted when the      *)
(* write fails or has replaced it.                                         *)
(*                                                                         *)
(* Abstracted: an account is its wallet; avatar and avatarObjectKey, always *)
(* written together, are one field; public keys, which a registration may  *)
(* clash on as it may on a username, and the session that it opens         *)
(* (Sessions) are left out, and so are the other fields of a profile.      *)
(***************************************************************************)

CONSTANTS
  Wallets,
  Usernames,
  Avatars,          \* object keys: a key has a random part and is used once
  AccountRequests,  \* requests that run at the same time
  NoAvatar,
  NoUsername,       \* a profile update that does not set the username
  Orders            \* bound: what the requests ask for

\* A file and removeAvatar exclude each other.
Order ==
  [kind : {"register"}, wallet : Wallets, username : Usernames, change : {"keep", "new"}]
    \union [kind : {"update"}, wallet : Wallets, username : Usernames \union {NoUsername},
            change : {"keep", "new", "remove"}]

ASSUME AccountAssumption ==
  NoAvatar \notin Avatars /\ NoUsername \notin Usernames /\ Orders \subseteq Order

VARIABLES
  user,            \* User documents by wallet
  stored,          \* objects in the object storage
  trace,           \* how objects came to be without a document, and the reverse
  accountRequest   \* local state of a request

accountVars == <<user, stored, trace, accountRequest>>

-----------------------------------------------------------------------------
(* State *)

Unregistered == [username |-> NoUsername, avatar |-> NoAvatar]
Account == [username : Usernames, avatar : Avatars \union {NoAvatar}]
IsAccount(w) == user[w] # Unregistered

\* check: the username is to be looked up; upload: the avatar is to be put;
\* write: the account is to be saved; delete: an object is to be deleted.
\* previous: the avatar that an update read; new: the avatar it is to save.
AccountIdle == [pc |-> "idle"]
Working ==
  [pc : {"check", "upload", "write"}, order : Order,
   previous : Avatars \union {NoAvatar}, new : Avatars \union {NoAvatar}]
Deleting == [pc : {"delete"}, avatar : Avatars]

\* used: keys that were generated; lost: avatars of a write that was applied
\* and reported as failed; replaced: avatars that a document named when an
\* update that had read another one was saved; left: avatars that were put by
\* a failed call, whose delete failed, or whose request stopped.
AccountsTypeOK ==
  /\ user \in [Wallets -> {Unregistered} \union Account]
  /\ stored \in SUBSET Avatars
  /\ trace \in [used : SUBSET Avatars, lost : SUBSET Avatars, replaced : SUBSET Avatars,
                left : SUBSET Avatars]
  /\ accountRequest \in [AccountRequests -> {AccountIdle} \union Working \union Deleting]

AccountsInit ==
  /\ user = [w \in Wallets |-> Unregistered]
  /\ stored = {}
  /\ trace = [used |-> {}, lost |-> {}, replaced |-> {}, left |-> {}]
  /\ accountRequest = [p \in AccountRequests |-> AccountIdle]

Proceed(p, r) == accountRequest' = [accountRequest EXCEPT ![p] = r]

\* Another account has the username.
IsTaken(n, w) == \E v \in Wallets \ {w} : IsAccount(v) /\ user[v].username = n

\* What a request does with an avatar that it is to delete, if any.
ThenDelete(o) == IF o = NoAvatar THEN AccountIdle ELSE [pc |-> "delete", avatar |-> o]

-----------------------------------------------------------------------------
(* Beginning a request *)

\* registerUser, after the wallet was verified.
StartRegistration(p, order) ==
  /\ accountRequest[p] = AccountIdle
  /\ order.kind = "register"
  /\ Proceed(p, [pc |-> IF order.change = "new" THEN "upload" ELSE "write", order |-> order,
                 previous |-> NoAvatar, new |-> NoAvatar])
  /\ UNCHANGED <<user, stored, trace>>

\* updateCurrentUser reads the account.
StartUpdate(p, order) ==
  LET current == user[order.wallet]
      rename == order.username \notin {NoUsername, current.username}
  IN
  /\ accountRequest[p] = AccountIdle
  /\ order.kind = "update"
  /\ IsAccount(order.wallet)
  /\ Proceed(p, [pc |-> IF rename THEN "check" ELSE IF order.change = "new" THEN "upload" ELSE "write",
                 order |-> [order EXCEPT !.username = IF rename THEN @ ELSE NoUsername],
                 previous |-> current.avatar, new |-> NoAvatar])
  /\ UNCHANGED <<user, stored, trace>>

CheckUsername(p) ==
  LET r == accountRequest[p] IN
  /\ r.pc = "check"
  /\ Proceed(p, IF IsTaken(r.order.username, r.order.wallet) THEN AccountIdle
                ELSE [r EXCEPT !.pc = IF r.order.change = "new" THEN "upload" ELSE "write"])
  /\ UNCHANGED <<user, stored, trace>>

-----------------------------------------------------------------------------
(* uploadAvatar *)

Upload(p, o) ==
  LET r == accountRequest[p] IN
  /\ r.pc = "upload"
  /\ o \notin trace.used
  /\ \/ /\ stored' = stored \union {o}
        /\ trace' = [trace EXCEPT !.used = trace.used \union {o}]
        /\ Proceed(p, [r EXCEPT !.pc = "write", !.new = o])
     \/ \* The answer is an error, and the request ends with it.
        /\ stored' \in {stored, stored \union {o}}
        /\ trace' = [trace EXCEPT !.used = trace.used \union {o}, !.left = trace.left \union {o}]
        /\ Proceed(p, AccountIdle)
  /\ UNCHANGED user

-----------------------------------------------------------------------------
(* Writing the account *)

\* The transaction of a registration finds the wallet and the username free,
\* and the unique indexes keep others out until it commits.
MayRegister(r) == ~IsAccount(r.order.wallet) /\ ~IsTaken(r.order.username, r.order.wallet)

\* user.save() of an update: the unique index over usernames decides.
MaySave(r) == r.order.username = NoUsername \/ ~IsTaken(r.order.username, r.order.wallet)

MayWrite(r) == IF r.order.kind = "register" THEN MayRegister(r) ELSE MaySave(r)

\* An update writes the fields that differ from what it read.
NextAvatar(r) ==
  IF r.order.change = "new" THEN r.new
  ELSE IF r.order.change = "remove" /\ r.previous # NoAvatar THEN NoAvatar
  ELSE user[r.order.wallet].avatar

NextUsername(r) == IF r.order.username = NoUsername THEN user[r.order.wallet].username ELSE r.order.username

Replaced(r) ==
  IF user[r.order.wallet].avatar \notin {NextAvatar(r), r.previous, NoAvatar}
  THEN {user[r.order.wallet].avatar} ELSE {}

\* Mutant: the previous avatar is looked up when it is to be deleted.
DeleteCurrent(r) == IF r.order.change = "keep" THEN NoAvatar ELSE NextAvatar(r)

\* The avatar to delete after a save.
Obsolete(r) == IF r.order.change = "keep" THEN NoAvatar ELSE r.previous

\* Mutant: only errors are cleaned up after.
AfterRefusal(r) == IF r.order.kind = "register" THEN AccountIdle ELSE ThenDelete(r.new)

\* The avatar is deleted after an error and after a refusal alike.
AfterFailure(r) == ThenDelete(r.new)

Write(p) ==
  LET r == accountRequest[p]
      written == [user EXCEPT ![r.order.wallet] =
                    [username |-> NextUsername(r), avatar |-> NextAvatar(r)]]
  IN
  /\ r.pc = "write"
  /\ MayWrite(r)
  /\ user' = written
  /\ \/ /\ trace' = [trace EXCEPT !.replaced = trace.replaced \union Replaced(r)]
        /\ Proceed(p, IF r.order.kind = "register" THEN AccountIdle ELSE ThenDelete(Obsolete(r)))
     \/ \* The write is applied, and reported as failed.
        /\ trace' = [trace EXCEPT
             !.replaced = trace.replaced \union Replaced(r),
             !.lost = trace.lost \union ({r.new} \ {NoAvatar}),
             !.left = trace.left \union ({Obsolete(r)} \ {NoAvatar})]
        /\ Proceed(p, AfterFailure(r))
  /\ UNCHANGED stored

\* The write is refused, or fails.
FailToWrite(p) ==
  /\ accountRequest[p].pc = "write"
  /\ Proceed(p, AfterFailure(accountRequest[p]))
  /\ UNCHANGED <<user, stored, trace>>

-----------------------------------------------------------------------------
(* deleteAvatar, in removeUploadedAvatar and deleteAvatarBestEffort *)

DeleteAvatar(p) ==
  LET o == accountRequest[p].avatar IN
  /\ accountRequest[p].pc = "delete"
  /\ \/ stored' = stored \ {o} /\ UNCHANGED trace
     \/ trace' = [trace EXCEPT !.left = trace.left \union {o}] /\ UNCHANGED stored
  /\ Proceed(p, AccountIdle)
  /\ UNCHANGED user

\* The avatars that a request is to name or to delete.
Held(r) == IF r.pc = "delete" THEN {r.avatar}
           ELSE IF r.pc = "write" THEN {r.new} \ {NoAvatar} ELSE {}

\* The process stops.
Crash(p) ==
  /\ accountRequest[p] # AccountIdle
  /\ trace' = [trace EXCEPT !.left = trace.left \union Held(accountRequest[p])]
  /\ Proceed(p, AccountIdle)
  /\ UNCHANGED <<user, stored>>

-----------------------------------------------------------------------------
AccountsNext ==
  \E p \in AccountRequests :
    \/ \E order \in Orders : StartRegistration(p, order) \/ StartUpdate(p, order)
    \/ CheckUsername(p)
    \/ \E o \in Avatars : Upload(p, o)
    \/ Write(p)
    \/ FailToWrite(p)
    \/ DeleteAvatar(p)
    \/ Crash(p)

AccountsSpec == AccountsInit /\ [][AccountsNext]_accountVars

-----------------------------------------------------------------------------
(* Properties *)

Named == {user[w].avatar : w \in {v \in Wallets : IsAccount(v)}} \ {NoAvatar}

\* The avatar that an account names can be loaded, and no other account names
\* it, whichever updates of the same account overlap and wherever they fail.
\* The exception is the code's own: when a write that was applied is reported
\* as failed, its avatar is deleted all the same.
NamedAvatarIsStored ==
  /\ \A w \in Wallets : user[w].avatar \in stored \union trace.lost \union {NoAvatar}
  /\ \A v, w \in Wallets :
       v # w /\ user[v].avatar = user[w].avatar => user[v].avatar = NoAvatar

\* No request leaves an object behind that nothing names: what is stored is
\* named, or about to be named or deleted.  The exceptions are objects whose
\* put or delete failed, or whose request stopped, and objects that an update
\* replaced without having read them, because another one was saved first.
StoredAvatarIsNeeded ==
  \A o \in stored :
    \/ o \in Named
    \/ \E p \in AccountRequests : o \in Held(accountRequest[p])
    \/ o \in trace.left \union trace.replaced
=============================================================================
