---------------------------- MODULE AccountsProofs ----------------------------
(***************************************************************************)
(* Theorems about Accounts, for any wallets, usernames, avatars and        *)
(* requests.  Avatars go one way: a key is generated once, is about to be  *)
(* named by one request only, is named by one account only, and once a     *)
(* request is to delete it nobody will name it again.  The code relies on  *)
(* this when it deletes an avatar that it read before its upload.          *)
(***************************************************************************)
EXTENDS Accounts, TLAPS

\* The avatars that a request is to name, that it read, and is to delete.
ToName(r) == IF r.pc = "write" THEN {r.new} \ {NoAvatar} ELSE {}
HasRead(r) == IF r.pc \in {"check", "upload", "write"} THEN {r.previous} \ {NoAvatar} ELSE {}
ToDelete(r) == IF r.pc = "delete" THEN {r.avatar} ELSE {}
KnowsOf(r) == ToName(r) \union HasRead(r) \union ToDelete(r)

OrderOK(r) ==
  r.pc \in {"check", "upload", "write"} =>
    /\ r.pc # "write" \/ r.order.change # "new" => r.new = NoAvatar
    /\ r.pc = "upload" => r.order.change = "new"
    /\ r.order.kind = "update" => IsAccount(r.order.wallet)

OrderInv == \A p \in AccountRequests : OrderOK(accountRequest[p])

UsedInv ==
  /\ stored \subseteq trace.used
  /\ \A w \in Wallets : user[w].avatar \in trace.used \union {NoAvatar}
  /\ \A p \in AccountRequests : KnowsOf(accountRequest[p]) \subseteq trace.used

\* An avatar that is to be named is stored and known to its request alone.
ToNameInv ==
  \A p \in AccountRequests : \A o \in ToName(accountRequest[p]) :
    /\ o \in stored
    /\ \A w \in Wallets : user[w].avatar # o
    /\ \A q \in AccountRequests :
         /\ o \notin HasRead(accountRequest[q]) \union ToDelete(accountRequest[q])
         /\ q # p => o \notin ToName(accountRequest[q])

HasReadInv ==
  \A p \in AccountRequests : \A o \in HasRead(accountRequest[p]) :
    \A w \in Wallets : user[w].avatar = o => w = accountRequest[p].order.wallet

ToDeleteInv ==
  \A p \in AccountRequests : \A o \in ToDelete(accountRequest[p]) :
    \A w \in Wallets : user[w].avatar = o => o \in trace.lost

AvatarInv == UsedInv /\ ToNameInv /\ HasReadInv /\ ToDeleteInv
Goal == NamedAvatarIsStored /\ StoredAvatarIsNeeded

AccountsIInv == AccountsTypeOK /\ OrderInv /\ AvatarInv /\ Goal

-----------------------------------------------------------------------------
(* Types *)

LEMMA WorkingRequest ==
  ASSUME AccountsTypeOK, NEW p \in AccountRequests,
         accountRequest[p].pc \in {"check", "upload", "write"}
  PROVE  accountRequest[p] \in Working
BY DEF AccountsTypeOK, AccountIdle, Deleting

LEMMA DeletingRequest ==
  ASSUME AccountsTypeOK, NEW p \in AccountRequests, accountRequest[p].pc = "delete"
  PROVE  accountRequest[p] \in Deleting
BY DEF AccountsTypeOK, AccountIdle, Working

LEMMA OrderTypes ==
  ASSUME NEW o \in Order
  PROVE  /\ o.wallet \in Wallets /\ o.kind \in {"register", "update"}
         /\ o.change \in {"keep", "new", "remove"}
         /\ o.username \in Usernames \union {NoUsername}
         /\ o.kind = "register" => o.username \in Usernames /\ o.change # "remove"
BY DEF Order

LEMMA ThenDeleteType ==
  ASSUME NEW o \in Avatars \union {NoAvatar}
  PROVE  ThenDelete(o) \in {AccountIdle} \union Deleting
BY DEF ThenDelete, Deleting

LEMMA ProceedType ==
  ASSUME AccountsTypeOK, NEW p \in AccountRequests,
         NEW r \in {AccountIdle} \union Working \union Deleting, Proceed(p, r)
  PROVE  accountRequest' \in [AccountRequests -> {AccountIdle} \union Working \union Deleting]
BY DEF AccountsTypeOK, Proceed

LEMMA AvatarTypes ==
  ASSUME AccountsTypeOK, NEW w \in Wallets
  PROVE  /\ user[w].avatar \in Avatars \union {NoAvatar}
         /\ ~IsAccount(w) => user[w].avatar = NoAvatar
         /\ IsAccount(w) => user[w] \in Account
BY DEF AccountsTypeOK, IsAccount, Account, Unregistered

\* What a request saves is an account, and its next steps follow from what it
\* knew.
LEMMA WriteSaves ==
  ASSUME AccountsTypeOK, OrderInv, NEW p \in AccountRequests, Write(p)
  PROVE  \E r \in Working, a \in Account, d \in {AccountIdle} \union Deleting :
           /\ r = accountRequest[p] /\ r.pc = "write" /\ r.order.wallet \in Wallets
           /\ a.avatar = NextAvatar(r)
           /\ user' = [user EXCEPT ![r.order.wallet] = a]
           /\ accountRequest' = [accountRequest EXCEPT ![p] = d]
           /\ \/ /\ trace' = [trace EXCEPT !.replaced = trace.replaced \union Replaced(r)]
                 /\ d = IF r.order.kind = "register" THEN AccountIdle ELSE ThenDelete(Obsolete(r))
              \/ /\ trace' = [trace EXCEPT
                      !.replaced = trace.replaced \union Replaced(r),
                      !.lost = trace.lost \union ({r.new} \ {NoAvatar}),
                      !.left = trace.left \union ({Obsolete(r)} \ {NoAvatar})]
                 /\ d = ThenDelete(r.new)
           /\ Obsolete(r) \in Avatars \union {NoAvatar}
<1>1. PICK r : r = accountRequest[p]
  OBVIOUS
<1>2. r \in Working /\ r.pc = "write"
  BY <1>1, WorkingRequest DEF Write
<1>3. /\ r.order \in Order
      /\ r.previous \in Avatars \union {NoAvatar} /\ r.new \in Avatars \union {NoAvatar}
  BY <1>2 DEF Working
<1>4. /\ r.order.wallet \in Wallets /\ r.order.kind \in {"register", "update"}
      /\ r.order.username \in Usernames \union {NoUsername}
      /\ r.order.kind = "register" => r.order.username \in Usernames
  BY <1>3, OrderTypes
<1>5. NextAvatar(r) \in Avatars \union {NoAvatar}
  BY <1>3, <1>4, AvatarTypes DEF NextAvatar
<1>6. NextUsername(r) \in Usernames
  <2>1. CASE r.order.username = NoUsername
    <3>1. IsAccount(r.order.wallet)
      BY <1>1, <1>2, <1>4, <2>1, AccountAssumption DEF OrderInv, OrderOK
    <3>2. user[r.order.wallet].username \in Usernames
      BY <1>4, <3>1, AvatarTypes DEF Account
    <3> QED
      BY <2>1, <3>2 DEF NextUsername
  <2>2. CASE r.order.username # NoUsername
    BY <1>4, <2>2 DEF NextUsername
  <2> QED
    BY <2>1, <2>2
<1> DEFINE a == [username |-> NextUsername(r), avatar |-> NextAvatar(r)]
<1>7. a \in Account /\ a.avatar = NextAvatar(r)
  BY <1>5, <1>6 DEF Account
<1>8. user' = [user EXCEPT ![r.order.wallet] = a]
  BY <1>1 DEF Write
<1>9. Obsolete(r) \in Avatars \union {NoAvatar}
  BY <1>3 DEF Obsolete
<1>10. PICK d :
         /\ accountRequest' = [accountRequest EXCEPT ![p] = d]
         /\ \/ /\ trace' = [trace EXCEPT !.replaced = trace.replaced \union Replaced(r)]
               /\ d = IF r.order.kind = "register" THEN AccountIdle ELSE ThenDelete(Obsolete(r))
            \/ /\ trace' = [trace EXCEPT
                    !.replaced = trace.replaced \union Replaced(r),
                    !.lost = trace.lost \union ({r.new} \ {NoAvatar}),
                    !.left = trace.left \union ({Obsolete(r)} \ {NoAvatar})]
               /\ d = ThenDelete(r.new)
  <2> HIDE DEF a
  <2> QED
    BY <1>1 DEF Write, Proceed, AfterFailure
<1>11. d \in {AccountIdle} \union Deleting
  BY <1>3, <1>9, <1>10, ThenDeleteType
<1> HIDE DEF a
<1> QED
  BY <1>1, <1>2, <1>4, <1>7, <1>8, <1>9, <1>10, <1>11

LEMMA AccountsTypeStep ==
  ASSUME AccountsTypeOK, OrderInv, AccountsNext
  PROVE  AccountsTypeOK'
<1> USE DEF AccountsTypeOK
<1>1. ASSUME NEW p \in AccountRequests, NEW order \in Orders, StartRegistration(p, order)
      PROVE  AccountsTypeOK'
  <2>1. PICK r : /\ r = [pc |-> IF order.change = "new" THEN "upload" ELSE "write", order |-> order,
                         previous |-> NoAvatar, new |-> NoAvatar]
                 /\ Proceed(p, r)
    BY <1>1 DEF StartRegistration
  <2>2. r \in Working
    BY <2>1, AccountAssumption DEF Working
  <2> QED
    BY <1>1, <2>1, <2>2, ProceedType DEF StartRegistration
<1>2. ASSUME NEW p \in AccountRequests, NEW order \in Orders, StartUpdate(p, order)
      PROVE  AccountsTypeOK'
  <2>1. PICK c, n : /\ c \in {"check", "upload", "write"} /\ n \in {order.username, NoUsername}
                    /\ Proceed(p, [pc |-> c, order |-> [order EXCEPT !.username = n],
                                   previous |-> user[order.wallet].avatar, new |-> NoAvatar])
    BY <1>2 DEF StartUpdate
  <2>2. order \in [kind : {"update"}, wallet : Wallets, username : Usernames \union {NoUsername},
                   change : {"keep", "new", "remove"}]
    BY <1>2, AccountAssumption DEF StartUpdate, Order
  <2>3. [order EXCEPT !.username = n] \in Order
    BY <2>1, <2>2 DEF Order
  <2>4. user[order.wallet].avatar \in Avatars \union {NoAvatar}
    BY <2>2, AvatarTypes
  <2>5. PICK r : /\ r = [pc |-> c, order |-> [order EXCEPT !.username = n],
                         previous |-> user[order.wallet].avatar, new |-> NoAvatar]
                 /\ Proceed(p, r)
    BY <2>1
  <2>6. r \in Working
    BY <2>1, <2>3, <2>4, <2>5 DEF Working
  <2> QED
    BY <1>2, <2>5, <2>6, ProceedType DEF StartUpdate
<1>3. ASSUME NEW p \in AccountRequests, CheckUsername(p)  PROVE AccountsTypeOK'
  <2>1. accountRequest[p] \in Working
    BY <1>3, WorkingRequest DEF CheckUsername
  <2>2. PICK r : /\ Proceed(p, r)
                 /\ \/ r = AccountIdle
                    \/ \E c \in {"upload", "write"} : r = [accountRequest[p] EXCEPT !.pc = c]
    BY <1>3 DEF CheckUsername
  <2>3. r \in {AccountIdle} \union Working
    BY <2>1, <2>2 DEF Working
  <2> QED
    BY <1>3, <2>2, <2>3, ProceedType DEF CheckUsername
<1>4. ASSUME NEW p \in AccountRequests, NEW o \in Avatars, Upload(p, o)  PROVE AccountsTypeOK'
  <2>1. accountRequest[p] \in Working
    BY <1>4, WorkingRequest DEF Upload
  <2>2. PICK r : /\ Proceed(p, r)
                 /\ r = AccountIdle \/ r = [accountRequest[p] EXCEPT !.pc = "write", !.new = o]
    BY <1>4 DEF Upload
  <2>3. r \in {AccountIdle} \union Working
    BY <2>1, <2>2 DEF Working
  <2>4. /\ stored' \in SUBSET Avatars /\ user' = user
        /\ trace' \in [used : SUBSET Avatars, lost : SUBSET Avatars, replaced : SUBSET Avatars,
                       left : SUBSET Avatars]
    <3>1. PICK l : /\ l \in SUBSET Avatars
                   /\ trace' = [trace EXCEPT !.used = trace.used \union {o}, !.left = l]
      <4>1. CASE trace' = [trace EXCEPT !.used = trace.used \union {o}]
        <5>1. trace' = [trace EXCEPT !.used = trace.used \union {o}, !.left = trace.left]
          BY <4>1
        <5> QED
          BY <5>1
      <4>2. CASE trace' = [trace EXCEPT !.used = trace.used \union {o}, !.left = trace.left \union {o}]
        BY <4>2
      <4> QED
        BY <1>4, <4>1, <4>2 DEF Upload
    <3>2. trace.used \union {o} \in SUBSET Avatars
      OBVIOUS
    <3>3. stored' \in SUBSET Avatars /\ user' = user
      BY <1>4 DEF Upload
    <3> QED
      BY <3>1, <3>2, <3>3
  <2> QED
    BY <2>2, <2>3, <2>4, ProceedType
<1>5. ASSUME NEW p \in AccountRequests, Write(p)  PROVE AccountsTypeOK'
  <2>1. PICK r \in Working, a \in Account, d \in {AccountIdle} \union Deleting :
          /\ r.order.wallet \in Wallets
          /\ user' = [user EXCEPT ![r.order.wallet] = a]
          /\ accountRequest' = [accountRequest EXCEPT ![p] = d]
          /\ \/ trace' = [trace EXCEPT !.replaced = trace.replaced \union Replaced(r)]
             \/ trace' = [trace EXCEPT
                     !.replaced = trace.replaced \union Replaced(r),
                     !.lost = trace.lost \union ({r.new} \ {NoAvatar}),
                     !.left = trace.left \union ({Obsolete(r)} \ {NoAvatar})]
          /\ Obsolete(r) \in Avatars \union {NoAvatar}
    BY <1>5, WriteSaves
  <2>2. Replaced(r) \subseteq Avatars
    BY <2>1, AvatarTypes DEF Replaced
  <2>3. {r.new} \ {NoAvatar} \subseteq Avatars /\ {Obsolete(r)} \ {NoAvatar} \subseteq Avatars
    BY <2>1 DEF Working
  <2>4. trace' \in [used : SUBSET Avatars, lost : SUBSET Avatars, replaced : SUBSET Avatars,
                    left : SUBSET Avatars]
    BY <2>1, <2>2, <2>3
  <2>5. user' \in [Wallets -> {Unregistered} \union Account]
    BY <2>1
  <2>6. accountRequest' \in [AccountRequests -> {AccountIdle} \union Working \union Deleting]
    BY <2>1
  <2>7. stored' = stored
    BY <1>5 DEF Write
  <2> QED
    BY <2>4, <2>5, <2>6, <2>7
<1>6. ASSUME NEW p \in AccountRequests, FailToWrite(p)  PROVE AccountsTypeOK'
  <2>1. accountRequest[p].new \in Avatars \union {NoAvatar}
    BY <1>6, WorkingRequest DEF FailToWrite, Working
  <2>2. ThenDelete(accountRequest[p].new) \in {AccountIdle} \union Deleting
    BY <2>1, ThenDeleteType
  <2> QED
    BY <1>6, <2>2, ProceedType DEF FailToWrite, AfterFailure
<1>7. ASSUME NEW p \in AccountRequests, DeleteAvatar(p)  PROVE AccountsTypeOK'
  <2>1. accountRequest[p].avatar \in Avatars
    BY <1>7, DeletingRequest DEF DeleteAvatar, Deleting
  <2> QED
    BY <1>7, <2>1, ProceedType DEF DeleteAvatar
<1>8. ASSUME NEW p \in AccountRequests, Crash(p)  PROVE AccountsTypeOK'
  <2>1. Held(accountRequest[p]) \subseteq Avatars
    BY WorkingRequest, DeletingRequest DEF Held, Working, Deleting
  <2> QED
    BY <1>8, <2>1, ProceedType DEF Crash
<1> QED
  BY <1>1, <1>2, <1>3, <1>4, <1>5, <1>6, <1>7, <1>8 DEF AccountsNext

-----------------------------------------------------------------------------
(* Orders *)

LEMMA AccountsStay ==
  ASSUME AccountsTypeOK, OrderInv, AccountsNext, NEW w \in Wallets, IsAccount(w)
  PROVE  IsAccount(w)'
<1>1. CASE user' = user
  BY <1>1 DEF IsAccount
<1>2. ASSUME NEW p \in AccountRequests, Write(p)  PROVE IsAccount(w)'
  <2>1. PICK v \in Wallets, a \in Account : user' = [user EXCEPT ![v] = a]
    BY <1>2, WriteSaves
  <2>2. a # Unregistered
    BY AccountAssumption DEF Account, Unregistered
  <2> QED
    BY <2>1, <2>2 DEF AccountsTypeOK, IsAccount
<1> QED
  BY <1>1, <1>2
  DEF AccountsNext, StartRegistration, StartUpdate, CheckUsername, Upload, FailToWrite,
      DeleteAvatar, Crash

\* What a request goes on with is in order.
LEMMA OrderGoesOn ==
  ASSUME AccountsTypeOK, OrderInv, AccountsNext, NEW p \in AccountRequests
  PROVE  OrderOK(accountRequest'[p])
<1> USE DEF AccountsTypeOK
<1>1. CASE accountRequest'[p] = accountRequest[p]
  BY <1>1 DEF OrderInv
<1>2. CASE accountRequest'[p] \in {AccountIdle} \union Deleting
  BY <1>2 DEF OrderOK, AccountIdle, Deleting
<1>3. ASSUME NEW q \in AccountRequests, NEW r, Proceed(q, r)
      PROVE  accountRequest'[p] = IF p = q THEN r ELSE accountRequest[p]
  BY <1>3 DEF Proceed
<1>4. ASSUME NEW q \in AccountRequests, NEW order \in Orders, StartRegistration(q, order)
      PROVE  OrderOK(accountRequest'[p])
  <2>1. PICK r : /\ r = [pc |-> IF order.change = "new" THEN "upload" ELSE "write", order |-> order,
                         previous |-> NoAvatar, new |-> NoAvatar]
                 /\ Proceed(q, r)
    BY <1>4 DEF StartRegistration
  <2>2. OrderOK(r)
    BY <1>4, <2>1 DEF StartRegistration, OrderOK
  <2> QED
    BY <1>1, <1>3, <2>1, <2>2
<1>5. ASSUME NEW q \in AccountRequests, NEW order \in Orders, StartUpdate(q, order)
      PROVE  OrderOK(accountRequest'[p])
  <2>1. PICK c, n : /\ c \in {"check", "upload", "write"} /\ (c = "upload" => order.change = "new")
                    /\ Proceed(q, [pc |-> c, order |-> [order EXCEPT !.username = n],
                                   previous |-> user[order.wallet].avatar, new |-> NoAvatar])
    BY <1>5 DEF StartUpdate
  <2>2. order \in [kind : {"update"}, wallet : Wallets, username : Usernames \union {NoUsername},
                   change : {"keep", "new", "remove"}]
    BY <1>5, AccountAssumption DEF StartUpdate, Order
  <2>3. PICK r : /\ r = [pc |-> c, order |-> [order EXCEPT !.username = n],
                         previous |-> user[order.wallet].avatar, new |-> NoAvatar]
                 /\ Proceed(q, r)
    BY <2>1
  <2>4. r.order.wallet = order.wallet /\ r.order.change = order.change /\ r.new = NoAvatar /\ r.pc = c
    BY <2>2, <2>3
  <2>5. OrderOK(r)
    BY <1>5, <2>1, <2>4 DEF StartUpdate, OrderOK
  <2> QED
    BY <1>1, <1>3, <2>3, <2>5
<1>6. ASSUME NEW q \in AccountRequests, CheckUsername(q)
      PROVE  OrderOK(accountRequest'[p])
  <2>1. accountRequest[q] \in Working /\ OrderOK(accountRequest[q]) /\ accountRequest[q].pc = "check"
    BY <1>6, WorkingRequest DEF CheckUsername, OrderInv
  <2>2. PICK r : /\ Proceed(q, r)
                 /\ \/ r = AccountIdle
                    \/ r = [accountRequest[q] EXCEPT
                             !.pc = IF accountRequest[q].order.change = "new" THEN "upload" ELSE "write"]
    BY <1>6 DEF CheckUsername
  <2>3. CASE r = AccountIdle
    BY <1>1, <1>2, <1>3, <2>2, <2>3
  <2>4. CASE r # AccountIdle
    <3>1. PICK c : /\ c \in {"upload", "write"} /\ (c = "upload" <=> accountRequest[q].order.change = "new")
                   /\ r = [accountRequest[q] EXCEPT !.pc = c]
      BY <2>2, <2>4
    <3>2. r.pc = c /\ r.order = accountRequest[q].order /\ r.new = accountRequest[q].new
      BY <2>1, <3>1 DEF Working
    <3>3. OrderOK(r)
      BY <2>1, <3>1, <3>2 DEF OrderOK
    <3> QED
      BY <1>1, <1>3, <2>2, <3>3
  <2> QED
    BY <2>3, <2>4
<1>7. ASSUME NEW q \in AccountRequests, NEW o \in Avatars, Upload(q, o)
      PROVE  OrderOK(accountRequest'[p])
  <2>1. accountRequest[q] \in Working /\ OrderOK(accountRequest[q]) /\ accountRequest[q].pc = "upload"
    BY <1>7, WorkingRequest DEF Upload, OrderInv
  <2>2. PICK r : /\ Proceed(q, r)
                 /\ r = AccountIdle \/ r = [accountRequest[q] EXCEPT !.pc = "write", !.new = o]
    BY <1>7 DEF Upload
  <2>3. CASE r = AccountIdle
    BY <1>1, <1>2, <1>3, <2>2, <2>3
  <2>4. CASE r # AccountIdle
    <3>1. r.pc = "write" /\ r.order = accountRequest[q].order
      BY <2>1, <2>2, <2>4 DEF Working
    <3>2. OrderOK(r)
      BY <2>1, <3>1 DEF OrderOK
    <3> QED
      BY <1>1, <1>3, <2>2, <3>2
  <2> QED
    BY <2>3, <2>4
<1>8. ASSUME NEW q \in AccountRequests, Write(q)
      PROVE  OrderOK(accountRequest'[p])
  <2>1. PICK d \in {AccountIdle} \union Deleting : accountRequest' = [accountRequest EXCEPT ![q] = d]
    BY <1>8, WriteSaves
  <2> QED
    BY <1>1, <1>2, <2>1
<1>9. ASSUME NEW q \in AccountRequests, FailToWrite(q)
      PROVE  OrderOK(accountRequest'[p])
  <2>1. accountRequest[q].new \in Avatars \union {NoAvatar}
    BY <1>9, WorkingRequest DEF FailToWrite, Working
  <2>2. PICK r \in {AccountIdle} \union Deleting : Proceed(q, r)
    BY <1>9, <2>1, ThenDeleteType DEF FailToWrite, AfterFailure
  <2> QED
    BY <1>1, <1>2, <1>3, <2>2
<1>10. ASSUME NEW q \in AccountRequests, DeleteAvatar(q) \/ Crash(q)
       PROVE  OrderOK(accountRequest'[p])
  <2>1. Proceed(q, AccountIdle)
    BY <1>10 DEF DeleteAvatar, Crash
  <2> QED
    BY <1>1, <1>2, <1>3, <2>1
<1> QED
  BY <1>4, <1>5, <1>6, <1>7, <1>8, <1>9, <1>10 DEF AccountsNext

LEMMA OrderStep ==
  ASSUME AccountsTypeOK, OrderInv, AccountsNext
  PROVE  OrderInv'
<1>1. ASSUME NEW p \in AccountRequests  PROVE OrderOK(accountRequest[p])'
  <2>1. PICK r : r = accountRequest'[p] /\ OrderOK(r)
    BY OrderGoesOn
  <2>2. r.pc \in {"check", "upload", "write"} => r.order.wallet \in Wallets
    <3>1. r \in {AccountIdle} \union Working \union Deleting
      BY <2>1, AccountsTypeStep DEF AccountsTypeOK
    <3> QED
      BY <3>1, OrderTypes DEF AccountIdle, Working, Deleting
  <2>3. OrderOK(r)'
    BY <2>1, <2>2, AccountsStay DEF OrderOK
  <2> QED
    BY <2>1, <2>3 DEF OrderOK
<1> QED
  BY <1>1 DEF OrderInv

-----------------------------------------------------------------------------
(* Avatars *)

LEMMA HeldIsKnown ==
  ASSUME NEW r
  PROVE  Held(r) = ToName(r) \union ToDelete(r)
BY DEF Held, ToName, ToDelete

LEMMA KnowsNothing ==
  ASSUME NEW d \in {AccountIdle} \union Deleting
  PROVE  ToName(d) = {} /\ HasRead(d) = {}
BY DEF AccountIdle, Deleting, ToName, HasRead

LEMMA DeletesThat ==
  ASSUME NEW o
  PROVE  /\ ToDelete(ThenDelete(o)) = {o} \ {NoAvatar} /\ ToDelete(AccountIdle) = {}
BY DEF ToDelete, ThenDelete, AccountIdle

\* A request that names nothing more, and deletes at most what it was to name.
LEMMA SettlingKeeps ==
  ASSUME AccountsTypeOK, AvatarInv, Goal, NEW p \in AccountRequests, NEW r, NEW d,
         r = accountRequest[p], accountRequest' = [accountRequest EXCEPT ![p] = d],
         UNCHANGED user,
         trace.lost = trace'.lost, trace.used \subseteq trace'.used,
         trace.replaced \subseteq trace'.replaced, trace.left \subseteq trace'.left,
         stored \ ToDelete(r) \subseteq stored', stored' \subseteq trace'.used,
         ToName(d) = {}, HasRead(d) \subseteq HasRead(r),
         HasRead(d) # {} => d.order.wallet = r.order.wallet,
         ToDelete(d) \subseteq ToDelete(r) \union ToName(r),
         \A o \in stored' : \/ o \in trace'.left \union ToDelete(d)
                            \/ o \in stored \ (ToName(r) \union ToDelete(r))
  PROVE  AvatarInv' /\ Goal'
<1>1. \A q \in AccountRequests : accountRequest'[q] = IF q = p THEN d ELSE accountRequest[q]
  BY DEF AccountsTypeOK
<1>2. ASSUME NEW q \in AccountRequests
      PROVE  /\ ToName(accountRequest'[q]) = IF q = p THEN {} ELSE ToName(accountRequest[q])
             /\ HasRead(accountRequest'[q]) \subseteq HasRead(accountRequest[q])
             /\ HasRead(accountRequest'[q]) # {} =>
                  accountRequest'[q].order.wallet = accountRequest[q].order.wallet
             /\ ToDelete(accountRequest'[q]) \subseteq
                  ToDelete(accountRequest[q]) \union (IF q = p THEN ToName(r) ELSE {})
  BY <1>1
<1>3. UsedInv'
  <2>1. ASSUME NEW q \in AccountRequests
        PROVE  KnowsOf(accountRequest'[q]) \subseteq trace'.used
    <3>1. KnowsOf(accountRequest'[q]) \subseteq KnowsOf(accountRequest[q])
      BY <1>2 DEF KnowsOf
    <3> QED
      BY <3>1 DEF AvatarInv, UsedInv
  <2> QED
    BY <2>1 DEF AvatarInv, UsedInv, KnowsOf, ToName, HasRead, ToDelete
<1>4. ToNameInv'
  <2>1. ASSUME NEW q \in AccountRequests, NEW o \in ToName(accountRequest'[q])
        PROVE  /\ o \in stored'
               /\ \A w \in Wallets : user'[w].avatar # o
               /\ \A x \in AccountRequests :
                    /\ o \notin HasRead(accountRequest'[x]) \union ToDelete(accountRequest'[x])
                    /\ x # q => o \notin ToName(accountRequest'[x])
    <3>1. o \in ToName(accountRequest[q]) /\ q # p
      BY <1>2, <2>1
    <3>2. /\ o \in stored /\ o \notin ToDelete(r) \union ToName(r)
          /\ \A w \in Wallets : user[w].avatar # o
      BY <3>1 DEF AvatarInv, ToNameInv
    <3>3. \A x \in AccountRequests :
             /\ o \notin HasRead(accountRequest[x]) \union ToDelete(accountRequest[x])
             /\ x # q => o \notin ToName(accountRequest[x])
      BY <3>1 DEF AvatarInv, ToNameInv
    <3> QED
      BY <1>2, <3>2, <3>3
  <2> QED
    BY <2>1 DEF ToNameInv, ToName, HasRead, ToDelete
<1>5. HasReadInv'
  <2>1. ASSUME NEW q \in AccountRequests, NEW o \in HasRead(accountRequest'[q]),
               NEW w \in Wallets, user'[w].avatar = o
        PROVE  w = accountRequest'[q].order.wallet
    BY <1>2, <2>1 DEF AvatarInv, HasReadInv
  <2> QED
    BY <2>1 DEF HasReadInv, HasRead
<1>6. ToDeleteInv'
  <2>1. ASSUME NEW q \in AccountRequests, NEW o \in ToDelete(accountRequest'[q]),
               NEW w \in Wallets, user'[w].avatar = o
        PROVE  o \in trace'.lost
    BY <1>2, <2>1 DEF AvatarInv, ToDeleteInv, ToNameInv
  <2> QED
    BY <2>1 DEF ToDeleteInv, ToDelete
<1>7. NamedAvatarIsStored'
  BY DEF Goal, AvatarInv, ToDeleteInv, NamedAvatarIsStored
<1>8. StoredAvatarIsNeeded'
  <2>1. ASSUME NEW o \in stored'
        PROVE  \/ o \in Named
               \/ \E q \in AccountRequests : o \in ToName(accountRequest'[q]) \union ToDelete(accountRequest'[q])
               \/ o \in trace'.left \union trace'.replaced
    <3>1. CASE o \in trace'.left \union ToDelete(d)
      BY <1>1, <3>1
    <3>2. CASE o \in stored \ (ToName(r) \union ToDelete(r))
      <4>1. \/ o \in Named
            \/ \E q \in AccountRequests : o \in ToName(accountRequest[q]) \union ToDelete(accountRequest[q])
            \/ o \in trace.left \union trace.replaced
        BY <3>2, HeldIsKnown DEF Goal, StoredAvatarIsNeeded
      <4> QED
        BY <1>1, <3>2, <4>1
    <3> QED
      BY <3>1, <3>2
  <2>2. Named' = Named
    BY DEF Named, IsAccount
  <2> QED
    BY <2>1, <2>2, HeldIsKnown DEF StoredAvatarIsNeeded, Held, ToName, ToDelete
<1> QED
  BY <1>3, <1>4, <1>5, <1>6, <1>7, <1>8 DEF AvatarInv, Goal

\* An update knows of the avatar that its account names, which no other
\* account names.
LEMMA ReadingKeeps ==
  ASSUME AccountsTypeOK, AvatarInv, Goal, NEW p \in AccountRequests, NEW d, NEW v \in Wallets,
         accountRequest[p] = AccountIdle, accountRequest' = [accountRequest EXCEPT ![p] = d],
         UNCHANGED <<user, stored, trace>>,
         ToName(d) = {}, ToDelete(d) = {},
         HasRead(d) \subseteq {user[v].avatar} \ {NoAvatar}, d.order.wallet = v
  PROVE  AvatarInv' /\ Goal'
<1>1. \A q \in AccountRequests : accountRequest'[q] = IF q = p THEN d ELSE accountRequest[q]
  BY DEF AccountsTypeOK
<1>2. /\ \A w \in Wallets : user[w].avatar = user[v].avatar /\ user[v].avatar # NoAvatar => w = v
      /\ user[v].avatar \in trace.used \union {NoAvatar}
  BY DEF Goal, NamedAvatarIsStored, AvatarInv, UsedInv
<1>3. ToName(AccountIdle) = {} /\ ToDelete(AccountIdle) = {}
  BY DEF ToName, ToDelete, AccountIdle
<1>4. UsedInv'
  <2>1. ASSUME NEW q \in AccountRequests
        PROVE  KnowsOf(accountRequest'[q]) \subseteq trace.used
    <3>1. CASE q = p
      BY <1>1, <1>2, <3>1 DEF KnowsOf
    <3>2. CASE q # p
      BY <1>1, <3>2 DEF AvatarInv, UsedInv
    <3> QED
      BY <3>1, <3>2
  <2> QED
    BY <2>1 DEF AvatarInv, UsedInv, KnowsOf, ToName, HasRead, ToDelete
<1>5. ToNameInv'
  <2>1. ASSUME NEW q \in AccountRequests, NEW o \in ToName(accountRequest'[q])
        PROVE  /\ o \in stored
               /\ \A w \in Wallets : user[w].avatar # o
               /\ \A x \in AccountRequests :
                    /\ o \notin HasRead(accountRequest'[x]) \union ToDelete(accountRequest'[x])
                    /\ x # q => o \notin ToName(accountRequest'[x])
    <3>1. o \in ToName(accountRequest[q]) /\ q # p
      BY <1>1, <2>1
    <3>2. o \in stored /\ \A w \in Wallets : user[w].avatar # o
      BY <3>1 DEF AvatarInv, ToNameInv
    <3>3. \A x \in AccountRequests :
             /\ o \notin HasRead(accountRequest[x]) \union ToDelete(accountRequest[x])
             /\ x # q => o \notin ToName(accountRequest[x])
      BY <3>1 DEF AvatarInv, ToNameInv
    <3> QED
      BY <1>1, <3>2, <3>3
  <2> QED
    BY <2>1 DEF ToNameInv, ToName, HasRead, ToDelete
<1>6. HasReadInv'
  <2>1. ASSUME NEW q \in AccountRequests, NEW o \in HasRead(accountRequest'[q]),
               NEW w \in Wallets, user[w].avatar = o
        PROVE  w = accountRequest'[q].order.wallet
    BY <1>1, <1>2, <2>1 DEF AvatarInv, HasReadInv
  <2> QED
    BY <2>1 DEF HasReadInv, HasRead
<1>7. ToDeleteInv'
  <2>1. \A q \in AccountRequests : ToDelete(accountRequest'[q]) \subseteq ToDelete(accountRequest[q])
    BY <1>1
  <2> QED
    BY <2>1 DEF AvatarInv, ToDeleteInv, ToDelete
<1>8. NamedAvatarIsStored'
  BY DEF Goal, NamedAvatarIsStored
<1>9. StoredAvatarIsNeeded'
  <2>1. \A q \in AccountRequests : Held(accountRequest[q]) \subseteq Held(accountRequest'[q])
    BY <1>1, <1>3, HeldIsKnown
  <2>2. Named' = Named
    BY DEF Named, IsAccount
  <2> QED
    BY <2>1, <2>2 DEF Goal, StoredAvatarIsNeeded, Held
<1> QED
  BY <1>4, <1>5, <1>6, <1>7, <1>8, <1>9 DEF AvatarInv, Goal

\* The key of an avatar that was put is known to its request alone.
LEMMA PuttingKeeps ==
  ASSUME AccountsTypeOK, AvatarInv, Goal, NEW p \in AccountRequests, NEW r, NEW d, NEW o \in Avatars,
         r = accountRequest[p], accountRequest' = [accountRequest EXCEPT ![p] = d],
         UNCHANGED user, o \notin trace.used,
         stored' = stored \union {o},
         trace'.used = trace.used \union {o},
         trace'.lost = trace.lost, trace'.replaced = trace.replaced, trace'.left = trace.left,
         ToName(r) = {}, ToName(d) = {o}, HasRead(d) \subseteq HasRead(r), ToDelete(r) = {},
         ToDelete(d) = {}, d.order.wallet = r.order.wallet
  PROVE  AvatarInv' /\ Goal'
<1>1. \A q \in AccountRequests : accountRequest'[q] = IF q = p THEN d ELSE accountRequest[q]
  BY DEF AccountsTypeOK
<1>2. /\ \A w \in Wallets : user[w].avatar # o
      /\ \A q \in AccountRequests : o \notin KnowsOf(accountRequest[q])
  BY AccountAssumption DEF AvatarInv, UsedInv
<1>3. UsedInv'
  <2>1. ASSUME NEW q \in AccountRequests
        PROVE  KnowsOf(accountRequest'[q]) \subseteq trace'.used
    <3>1. KnowsOf(accountRequest[q]) \subseteq trace.used
      BY DEF AvatarInv, UsedInv
    <3> QED
      BY <1>1, <3>1 DEF KnowsOf
  <2> QED
    BY <2>1 DEF AvatarInv, UsedInv, KnowsOf, ToName, HasRead, ToDelete
<1>4. ToNameInv'
  <2>1. ASSUME NEW q \in AccountRequests, NEW n \in ToName(accountRequest'[q])
        PROVE  /\ n \in stored'
               /\ \A w \in Wallets : user[w].avatar # n
               /\ \A x \in AccountRequests :
                    /\ n \notin HasRead(accountRequest'[x]) \union ToDelete(accountRequest'[x])
                    /\ x # q => n \notin ToName(accountRequest'[x])
    <3>1. CASE q = p
      BY <1>1, <1>2, <2>1, <3>1 DEF KnowsOf
    <3>2. CASE q # p
      <4>1. n \in ToName(accountRequest[q]) /\ n # o
        BY <1>1, <1>2, <2>1, <3>2 DEF KnowsOf
      <4>2. n \in stored /\ \A w \in Wallets : user[w].avatar # n
        BY <4>1 DEF AvatarInv, ToNameInv
      <4>3. \A x \in AccountRequests :
               /\ n \notin HasRead(accountRequest[x]) \union ToDelete(accountRequest[x])
               /\ x # q => n \notin ToName(accountRequest[x])
        BY <4>1 DEF AvatarInv, ToNameInv
      <4> QED
        BY <1>1, <4>1, <4>2, <4>3
    <3> QED
      BY <3>1, <3>2
  <2> QED
    BY <2>1 DEF ToNameInv, ToName, HasRead, ToDelete
<1>5. HasReadInv'
  <2>1. ASSUME NEW q \in AccountRequests, NEW n \in HasRead(accountRequest'[q]),
               NEW w \in Wallets, user[w].avatar = n
        PROVE  w = accountRequest'[q].order.wallet
    BY <1>1, <2>1 DEF AvatarInv, HasReadInv
  <2> QED
    BY <2>1 DEF HasReadInv, HasRead
<1>6. ToDeleteInv'
  <2>1. \A q \in AccountRequests : ToDelete(accountRequest'[q]) \subseteq ToDelete(accountRequest[q])
    BY <1>1
  <2> QED
    BY <2>1 DEF AvatarInv, ToDeleteInv, ToDelete
<1>7. NamedAvatarIsStored'
  BY DEF Goal, NamedAvatarIsStored
<1>8. StoredAvatarIsNeeded'
  <2>1. \A q \in AccountRequests : Held(accountRequest[q]) \subseteq Held(accountRequest'[q])
    BY <1>1, HeldIsKnown
  <2>2. o \in Held(accountRequest'[p])
    BY <1>1, HeldIsKnown
  <2>3. Named' = Named
    BY DEF Named, IsAccount
  <2> QED
    BY <2>1, <2>2, <2>3 DEF Goal, StoredAvatarIsNeeded, Held
<1> QED
  BY <1>3, <1>4, <1>5, <1>6, <1>7, <1>8 DEF AvatarInv, Goal

\* What an update deletes after its save is named by nobody: it was read from
\* the account that was saved, and the save has put another in its place.
LEMMA WritingKeeps ==
  ASSUME AccountsTypeOK, OrderInv, AvatarInv, Goal, NEW p \in AccountRequests, Write(p)
  PROVE  AvatarInv' /\ Goal'
<1>1. PICK r \in Working, a \in Account, d \in {AccountIdle} \union Deleting :
        /\ r = accountRequest[p] /\ r.pc = "write" /\ r.order.wallet \in Wallets
        /\ a.avatar = NextAvatar(r)
        /\ user' = [user EXCEPT ![r.order.wallet] = a]
        /\ accountRequest' = [accountRequest EXCEPT ![p] = d]
        /\ \/ /\ trace' = [trace EXCEPT !.replaced = trace.replaced \union Replaced(r)]
              /\ d = IF r.order.kind = "register" THEN AccountIdle ELSE ThenDelete(Obsolete(r))
           \/ /\ trace' = [trace EXCEPT
                   !.replaced = trace.replaced \union Replaced(r),
                   !.lost = trace.lost \union ({r.new} \ {NoAvatar}),
                   !.left = trace.left \union ({Obsolete(r)} \ {NoAvatar})]
              /\ d = ThenDelete(r.new)
        /\ Obsolete(r) \in Avatars \union {NoAvatar}
  BY WriteSaves
<1>2. PICK w, old, new :
        /\ w = r.order.wallet /\ old = user[w].avatar /\ new = NextAvatar(r)
        /\ w \in Wallets
  BY <1>1
<1>3. /\ \A v \in Wallets : user'[v] = IF v = w THEN a ELSE user[v]
      /\ \A q \in AccountRequests : accountRequest'[q] = IF q = p THEN d ELSE accountRequest[q]
      /\ a.avatar = new
  BY <1>1, <1>2 DEF AccountsTypeOK
<1>4. ToName(r) = {r.new} \ {NoAvatar} /\ HasRead(r) = {r.previous} \ {NoAvatar} /\ ToDelete(r) = {}
  BY <1>1 DEF ToName, HasRead, ToDelete
<1>5. /\ new = old \/ new = NoAvatar \/ new \in ToName(r)
      /\ \A o \in ToName(r) : new = o
      /\ \A o \in {Obsolete(r)} \ {NoAvatar} : o \in HasRead(r)
      /\ new # old /\ old # NoAvatar => old \in Replaced(r) \union {Obsolete(r)}
  <2>1. r.order.change # "new" => r.new = NoAvatar
    BY <1>1 DEF OrderInv, OrderOK
  <2> QED
    BY <1>1, <1>2, <1>4, <2>1 DEF NextAvatar, Obsolete, Replaced
<1>6. /\ trace'.used = trace.used /\ trace.lost \subseteq trace'.lost
      /\ trace'.replaced = trace.replaced \union Replaced(r) /\ trace.left \subseteq trace'.left
      /\ stored' = stored
  <2>1. stored' = stored
    BY DEF Write
  <2>2. CASE trace' = [trace EXCEPT !.replaced = trace.replaced \union Replaced(r)]
    BY <2>1, <2>2 DEF AccountsTypeOK
  <2>3. CASE trace' = [trace EXCEPT
               !.replaced = trace.replaced \union Replaced(r),
               !.lost = trace.lost \union ({r.new} \ {NoAvatar}),
               !.left = trace.left \union ({Obsolete(r)} \ {NoAvatar})]
    BY <2>1, <2>3 DEF AccountsTypeOK
  <2> QED
    BY <1>1, <2>2, <2>3
<1>7. \A o \in ToName(r) :
        /\ o \in stored /\ o # NoAvatar
        /\ \A v \in Wallets : user[v].avatar # o
        /\ \A q \in AccountRequests :
             /\ o \notin HasRead(accountRequest[q]) \union ToDelete(accountRequest[q])
             /\ q # p => o \notin ToName(accountRequest[q])
  BY <1>1, <1>4 DEF AvatarInv, ToNameInv
<1>8. ToName(d) = {} /\ HasRead(d) = {} /\ ToDelete(d) \subseteq HasRead(r) \union ToName(r)
  BY <1>1, <1>4, <1>5, KnowsNothing, DeletesThat
<1>9. \A o \in ToDelete(d) \cap ToName(r) : o \in trace'.lost
  <2>1. \A o \in HasRead(r) : o \notin ToName(r)
    BY <1>1, <1>7
  <2>2. CASE d = IF r.order.kind = "register" THEN AccountIdle ELSE ThenDelete(Obsolete(r))
    BY <1>5, <2>1, <2>2, DeletesThat
  <2>3. CASE trace'.lost = trace.lost \union ({r.new} \ {NoAvatar})
    BY <1>4, <2>3
  <2> QED
    BY <1>1, <2>2, <2>3 DEF AccountsTypeOK
<1>10. \A o \in ToDelete(d) \cap HasRead(r) : new # o
  <2>1. \A o \in HasRead(r) : o \notin ToName(r) /\ o # NoAvatar
    BY <1>1, <1>4, <1>7
  <2>2. CASE d = ThenDelete(Obsolete(r))
    <3>1. ASSUME Obsolete(r) # NoAvatar  PROVE new # Obsolete(r)
      BY <1>1, <1>2, <1>4, <1>5, <2>1, <3>1, OrderTypes DEF NextAvatar, Obsolete, Working
    <3> QED
      BY <2>2, <3>1, DeletesThat
  <2>3. CASE d = AccountIdle
    BY <2>3, DeletesThat
  <2>4. CASE d = ThenDelete(r.new)
    BY <1>4, <2>1, <2>4, DeletesThat
  <2> QED
    BY <1>1, <2>2, <2>3, <2>4
<1>11. IsAccount(w) /\ new # old /\ old # NoAvatar =>
         old \in ToDelete(d) \union trace'.left \union trace'.replaced
  <2>1. IsAccount(w) => r.order.kind # "register"
    BY <1>1, <1>2 DEF Write, MayWrite, MayRegister
  <2>2. CASE d = IF r.order.kind = "register" THEN AccountIdle ELSE ThenDelete(Obsolete(r))
    BY <1>5, <1>6, <2>1, <2>2, DeletesThat
  <2>3. CASE trace'.left = trace.left \union ({Obsolete(r)} \ {NoAvatar})
    BY <1>5, <1>6, <2>3
  <2> QED
    BY <1>1, <2>2, <2>3 DEF AccountsTypeOK
<1>12. UsedInv'
  <2>1. ASSUME NEW q \in AccountRequests
        PROVE  KnowsOf(accountRequest'[q]) \subseteq trace.used
    <3>1. KnowsOf(accountRequest[q]) \subseteq trace.used /\ KnowsOf(r) \subseteq trace.used
      BY <1>1 DEF AvatarInv, UsedInv
    <3> QED
      BY <1>3, <1>8, <3>1 DEF KnowsOf
  <2>2. new \in trace.used \union {NoAvatar}
    BY <1>1, <1>2, <1>5 DEF AvatarInv, UsedInv, KnowsOf
  <2> QED
    BY <1>3, <1>6, <2>1, <2>2 DEF AvatarInv, UsedInv, KnowsOf, ToName, HasRead, ToDelete
<1>13. ToNameInv'
  <2>1. ASSUME NEW q \in AccountRequests, NEW o \in ToName(accountRequest'[q])
        PROVE  /\ o \in stored
               /\ \A v \in Wallets : user'[v].avatar # o
               /\ \A x \in AccountRequests :
                    /\ o \notin HasRead(accountRequest'[x]) \union ToDelete(accountRequest'[x])
                    /\ x # q => o \notin ToName(accountRequest'[x])
    <3>1. o \in ToName(accountRequest[q]) /\ q # p
      BY <1>3, <1>8, <2>1
    <3>2. /\ o \in stored /\ \A v \in Wallets : user[v].avatar # o
          /\ \A x \in AccountRequests :
               /\ o \notin HasRead(accountRequest[x]) \union ToDelete(accountRequest[x])
               /\ x # q => o \notin ToName(accountRequest[x])
      BY <3>1 DEF AvatarInv, ToNameInv
    <3>3. o \notin HasRead(r) \union ToName(r) /\ o # NoAvatar
      BY <1>1, <3>1, <3>2 DEF ToName
    <3>4. new # o
      BY <1>2, <1>5, <3>2, <3>3
    <3> QED
      BY <1>3, <1>8, <3>2, <3>3, <3>4
  <2> QED
    BY <1>6, <2>1 DEF ToNameInv, ToName, HasRead, ToDelete
<1>14. HasReadInv'
  <2>1. ASSUME NEW q \in AccountRequests, NEW o \in HasRead(accountRequest'[q]),
               NEW v \in Wallets, user'[v].avatar = o
        PROVE  v = accountRequest'[q].order.wallet
    <3>1. q # p /\ o \in HasRead(accountRequest[q]) /\ accountRequest'[q] = accountRequest[q]
      BY <1>3, <1>8, <2>1
    <3>2. o # NoAvatar /\ o \notin ToName(r)
      BY <1>7, <3>1 DEF HasRead
    <3>3. user[v].avatar = o
      BY <1>2, <1>3, <1>5, <2>1, <3>2
    <3> QED
      BY <3>1, <3>3 DEF AvatarInv, HasReadInv
  <2> QED
    BY <2>1 DEF HasReadInv, HasRead
<1>15. ToDeleteInv'
  <2>1. ASSUME NEW q \in AccountRequests, NEW o \in ToDelete(accountRequest'[q]),
               NEW v \in Wallets, user'[v].avatar = o
        PROVE  o \in trace'.lost
    <3>1. CASE q = p /\ o \in ToName(r)
      BY <1>3, <1>9, <2>1, <3>1
    <3>2. CASE q = p /\ o \in HasRead(r)
      <4>1. new # o
        BY <1>3, <1>10, <2>1, <3>2
      <4>2. v # w /\ user[v].avatar = o
        BY <1>3, <2>1, <4>1
      <4> QED
        BY <1>1, <1>2, <3>2, <4>2 DEF AvatarInv, HasReadInv
    <3>3. CASE q # p
      <4>1. o \in ToDelete(accountRequest[q])
        BY <1>3, <2>1, <3>3
      <4>2. o # NoAvatar /\ o \notin ToName(r)
        BY <1>7, <4>1, AccountAssumption, DeletingRequest DEF ToDelete, Deleting
      <4>3. user[v].avatar = o
        BY <1>2, <1>3, <1>5, <2>1, <4>2
      <4> QED
        BY <1>6, <4>1, <4>3 DEF AvatarInv, ToDeleteInv
    <3> QED
      BY <1>3, <1>8, <2>1, <3>1, <3>2, <3>3
  <2> QED
    BY <2>1 DEF ToDeleteInv, ToDelete
<1>16. NamedAvatarIsStored'
  <2>1. new \in stored \union trace.lost \union {NoAvatar}
    BY <1>2, <1>5, <1>7 DEF Goal, NamedAvatarIsStored
  <2>2. \A v \in Wallets : v # w /\ user[v].avatar = new => new = NoAvatar
    BY <1>2, <1>5, <1>7 DEF Goal, NamedAvatarIsStored
  <2> QED
    BY <1>3, <1>6, <2>1, <2>2 DEF Goal, NamedAvatarIsStored
<1>17. StoredAvatarIsNeeded'
  <2>1. /\ \A v \in Wallets : v # w => (IsAccount(v)' <=> IsAccount(v))
        /\ IsAccount(w)'
    BY <1>1, <1>2, <1>3, AccountAssumption DEF IsAccount, Account, Unregistered
  <2>2. ASSUME NEW o, o # NoAvatar, NEW v \in Wallets, IsAccount(v)', user'[v].avatar = o
        PROVE  o \in Named'
    BY <2>2 DEF Named
  <2>3. ASSUME NEW o \in stored
        PROVE  \/ o \in Named'
               \/ \E q \in AccountRequests : o \in ToName(accountRequest'[q]) \union ToDelete(accountRequest'[q])
               \/ o \in trace'.left \union trace'.replaced
    <3>1. CASE o \in Named
      <4>1. PICK v \in Wallets : IsAccount(v) /\ user[v].avatar = o /\ o # NoAvatar
        BY <3>1 DEF Named
      <4>2. CASE v # w \/ new = old
        BY <1>2, <1>3, <2>1, <2>2, <4>1, <4>2
      <4>3. CASE v = w /\ new # old
        BY <1>2, <1>3, <1>11, <4>1, <4>3
      <4> QED
        BY <4>2, <4>3
    <3>2. CASE \E q \in AccountRequests : o \in ToName(accountRequest[q]) \union ToDelete(accountRequest[q])
      <4>1. PICK q \in AccountRequests : o \in ToName(accountRequest[q]) \union ToDelete(accountRequest[q])
        BY <3>2
      <4>2. CASE q # p
        BY <1>3, <4>1, <4>2
      <4>3. CASE q = p
        <5>1. o \in ToName(r) /\ new = o /\ o # NoAvatar
          BY <1>1, <1>4, <1>5, <4>1, <4>3
        <5> QED
          BY <1>2, <1>3, <2>1, <2>2, <5>1
      <4> QED
        BY <4>2, <4>3
    <3>3. CASE o \in trace.left \union trace.replaced
      BY <1>6, <3>3
    <3> QED
      BY <3>1, <3>2, <3>3, HeldIsKnown DEF Goal, StoredAvatarIsNeeded
  <2> QED
    BY <1>6, <2>3, HeldIsKnown DEF StoredAvatarIsNeeded, Held, ToName, ToDelete
<1> QED
  BY <1>12, <1>13, <1>14, <1>15, <1>16, <1>17 DEF AvatarInv, Goal

LEMMA AvatarStep ==
  ASSUME AccountsIInv, AccountsNext
  PROVE  AvatarInv' /\ Goal'
<1> USE DEF AccountsIInv
<1>0. /\ stored \subseteq trace.used
      /\ \A p \in AccountRequests : KnowsOf(accountRequest[p]) \subseteq trace.used
  BY DEF AvatarInv, UsedInv
<1>1. ASSUME NEW p \in AccountRequests, NEW order \in Orders, StartRegistration(p, order)
      PROVE  AvatarInv' /\ Goal'
  <2>1. PICK d : /\ d = [pc |-> IF order.change = "new" THEN "upload" ELSE "write", order |-> order,
                         previous |-> NoAvatar, new |-> NoAvatar]
                 /\ Proceed(p, d)
    BY <1>1 DEF StartRegistration
  <2>2. PICK r : r = accountRequest[p]
    OBVIOUS
  <2>3. /\ ToName(d) = {} /\ HasRead(d) = {} /\ ToDelete(d) = {}
        /\ ToName(r) = {} /\ HasRead(r) = {} /\ ToDelete(r) = {}
    BY <1>1, <2>1, <2>2 DEF StartRegistration, ToName, HasRead, ToDelete, AccountIdle
  <2> QED
    BY <1>0, <1>1, <2>1, <2>2, <2>3, SettlingKeeps DEF StartRegistration, Proceed
<1>2. ASSUME NEW p \in AccountRequests, NEW order \in Orders, StartUpdate(p, order)
      PROVE  AvatarInv' /\ Goal'
  <2>1. PICK c, n : /\ c \in {"check", "upload", "write"} /\ n \in {order.username, NoUsername}
                    /\ Proceed(p, [pc |-> c, order |-> [order EXCEPT !.username = n],
                                   previous |-> user[order.wallet].avatar, new |-> NoAvatar])
    BY <1>2 DEF StartUpdate
  <2>2. order \in [kind : {"update"}, wallet : Wallets, username : Usernames \union {NoUsername},
                   change : {"keep", "new", "remove"}]
    BY <1>2, AccountAssumption DEF StartUpdate, Order
  <2>3. PICK d : /\ d = [pc |-> c, order |-> [order EXCEPT !.username = n],
                         previous |-> user[order.wallet].avatar, new |-> NoAvatar]
                 /\ Proceed(p, d)
    BY <2>1
  <2>4. d.order.wallet = order.wallet /\ order.wallet \in Wallets
    BY <2>2, <2>3
  <2>5. ToName(d) = {} /\ ToDelete(d) = {} /\ HasRead(d) \subseteq {user[order.wallet].avatar} \ {NoAvatar}
    BY <2>1, <2>3 DEF ToName, HasRead, ToDelete
  <2> QED
    BY <1>2, <2>3, <2>4, <2>5, ReadingKeeps DEF StartUpdate, Proceed
<1>3. ASSUME NEW p \in AccountRequests, CheckUsername(p)  PROVE AvatarInv' /\ Goal'
  <2>1. PICK r : r = accountRequest[p]
    OBVIOUS
  <2>2. r \in Working /\ r.pc = "check" /\ r.new = NoAvatar
    BY <1>3, <2>1, WorkingRequest DEF CheckUsername, OrderInv, OrderOK
  <2>3. PICK d : /\ Proceed(p, d)
                 /\ \/ d = AccountIdle
                    \/ \E c \in {"upload", "write"} : d = [r EXCEPT !.pc = c]
    BY <1>3, <2>1 DEF CheckUsername
  <2>4. d = AccountIdle \/ (/\ d.pc \in {"upload", "write"} /\ d.order = r.order
                            /\ d.previous = r.previous /\ d.new = r.new)
    BY <2>2, <2>3 DEF Working
  <2>5. /\ ToName(d) = {} /\ HasRead(d) \subseteq HasRead(r) /\ ToDelete(d) = {}
        /\ ToName(r) = {} /\ ToDelete(r) = {} /\ (HasRead(d) # {} => d.order = r.order)
    BY <2>2, <2>4 DEF ToName, HasRead, ToDelete, AccountIdle
  <2> QED
    BY <1>0, <1>3, <2>1, <2>3, <2>5, SettlingKeeps DEF CheckUsername, Proceed
<1>4. ASSUME NEW p \in AccountRequests, NEW o \in Avatars, Upload(p, o)  PROVE AvatarInv' /\ Goal'
  <2>1. PICK r : r = accountRequest[p]
    OBVIOUS
  <2>2. r \in Working /\ r.pc = "upload" /\ o \notin trace.used /\ o # NoAvatar /\ user' = user
    BY <1>4, <2>1, WorkingRequest, AccountAssumption DEF Upload
  <2>3. ToName(r) = {} /\ ToDelete(r) = {}
    BY <2>2 DEF ToName, ToDelete
  <2>4. CASE /\ stored' = stored \union {o}
             /\ trace' = [trace EXCEPT !.used = trace.used \union {o}]
             /\ Proceed(p, [r EXCEPT !.pc = "write", !.new = o])
    <3>1. PICK d : d = [r EXCEPT !.pc = "write", !.new = o] /\ Proceed(p, d)
      BY <2>4
    <3>2. d.pc = "write" /\ d.new = o /\ d.previous = r.previous /\ d.order = r.order
      BY <2>2, <3>1 DEF Working
    <3>3. ToName(d) = {o} /\ HasRead(d) \subseteq HasRead(r) /\ ToDelete(d) = {}
      BY <2>2, <3>2 DEF ToName, HasRead, ToDelete
    <3>4. /\ trace'.used = trace.used \union {o} /\ trace'.lost = trace.lost
          /\ trace'.replaced = trace.replaced /\ trace'.left = trace.left
      BY <2>4 DEF AccountsTypeOK
    <3>5. stored' = stored \union {o} /\ accountRequest' = [accountRequest EXCEPT ![p] = d]
      BY <2>4, <3>1 DEF Proceed
    <3>6. d.order.wallet = r.order.wallet
      BY <3>2
    <3> QED
      BY <2>1, <2>2, <2>3, <3>3, <3>4, <3>5, <3>6, PuttingKeeps
  <2>5. CASE /\ stored' \in {stored, stored \union {o}}
             /\ trace' = [trace EXCEPT !.used = trace.used \union {o}, !.left = trace.left \union {o}]
             /\ Proceed(p, AccountIdle)
    <3>1. PICK d : d = AccountIdle /\ Proceed(p, d)
      BY <2>5
    <3>2. ToName(d) = {} /\ HasRead(d) = {} /\ ToDelete(d) = {}
      BY <3>1 DEF ToName, HasRead, ToDelete, AccountIdle
    <3>3. /\ trace'.used = trace.used \union {o} /\ trace'.lost = trace.lost
          /\ trace'.replaced = trace.replaced /\ trace'.left = trace.left \union {o}
      BY <2>5 DEF AccountsTypeOK
    <3>4. stored \subseteq stored' /\ stored' \subseteq stored \union {o}
      BY <2>5
    <3> QED
      BY <1>0, <2>1, <2>2, <2>3, <3>1, <3>2, <3>3, <3>4, SettlingKeeps DEF Proceed
  <2> QED
    BY <1>4, <2>1, <2>4, <2>5 DEF Upload
<1>5. ASSUME NEW p \in AccountRequests, Write(p)  PROVE AvatarInv' /\ Goal'
  BY <1>5, WritingKeeps
<1>6. ASSUME NEW p \in AccountRequests, FailToWrite(p)  PROVE AvatarInv' /\ Goal'
  <2>1. PICK r, d : r = accountRequest[p] /\ d = ThenDelete(r.new) /\ Proceed(p, d)
    BY <1>6 DEF FailToWrite, AfterFailure
  <2>2. r.pc = "write" /\ r.new \in Avatars \union {NoAvatar}
    BY <1>6, <2>1, WorkingRequest DEF FailToWrite, Working
  <2>3. ToName(r) = {r.new} \ {NoAvatar} /\ ToDelete(r) = {}
    BY <2>2 DEF ToName, ToDelete
  <2>4. ToName(d) = {} /\ HasRead(d) = {} /\ ToDelete(d) = {r.new} \ {NoAvatar}
    BY <2>1, <2>2, KnowsNothing, DeletesThat, ThenDeleteType
  <2> QED
    BY <1>0, <1>6, <2>1, <2>3, <2>4, SettlingKeeps DEF FailToWrite, Proceed
<1>7. ASSUME NEW p \in AccountRequests, DeleteAvatar(p) \/ Crash(p)  PROVE AvatarInv' /\ Goal'
  <2>1. PICK r, d : r = accountRequest[p] /\ d = AccountIdle /\ Proceed(p, d)
    BY <1>7 DEF DeleteAvatar, Crash
  <2>2. ToName(d) = {} /\ HasRead(d) = {} /\ ToDelete(d) = {}
    BY <2>1 DEF ToName, HasRead, ToDelete, AccountIdle
  <2>3. CASE DeleteAvatar(p) /\ stored' = stored \ {r.avatar} /\ trace' = trace
    <3>1. ToName(r) = {} /\ ToDelete(r) = {r.avatar} /\ user' = user
      BY <2>1, <2>3 DEF DeleteAvatar, ToName, ToDelete
    <3> QED
      BY <1>0, <2>1, <2>2, <2>3, <3>1, SettlingKeeps DEF Proceed
  <2>4. CASE Crash(p) \/ (DeleteAvatar(p) /\ stored' = stored)
    <3>1. ToName(r) \union ToDelete(r) = Held(r) /\ UNCHANGED <<user, stored>>
      BY <2>1, <2>4, HeldIsKnown DEF DeleteAvatar, Crash
    <3>2. trace' = [trace EXCEPT !.left = trace.left \union Held(r)]
               \/ (r.pc = "delete" /\ trace' = [trace EXCEPT !.left = trace.left \union {r.avatar}])
               \/ (r.avatar \notin stored /\ r.pc = "delete" /\ trace' = trace)
      BY <2>1, <2>4 DEF DeleteAvatar, Crash
    <3>3. r.pc = "delete" => Held(r) = {r.avatar}
      BY DEF Held
    <3>4. /\ trace'.used = trace.used /\ trace'.lost = trace.lost /\ trace'.replaced = trace.replaced
          /\ trace.left \subseteq trace'.left /\ Held(r) \cap stored \subseteq trace'.left
      BY <3>2, <3>3 DEF AccountsTypeOK
    <3> QED
      BY <1>0, <2>1, <2>2, <3>1, <3>4, SettlingKeeps DEF Proceed
  <2> QED
    BY <1>7, <2>1, <2>3, <2>4 DEF DeleteAvatar
<1> QED
  BY <1>1, <1>2, <1>3, <1>4, <1>5, <1>6, <1>7 DEF AccountsNext

-----------------------------------------------------------------------------
(* The theorems *)

LEMMA AccountsInitIInv == AccountsInit => AccountsIInv
<1> SUFFICES ASSUME AccountsInit  PROVE AccountsIInv
  OBVIOUS
<1>1. AccountsTypeOK
  BY DEF AccountsInit, AccountsTypeOK
<1>2. \A p \in AccountRequests :
        /\ KnowsOf(accountRequest[p]) = {} /\ OrderOK(accountRequest[p])
  BY DEF AccountsInit, KnowsOf, ToName, HasRead, ToDelete, OrderOK, AccountIdle
<1>3. \A w \in Wallets : user[w].avatar = NoAvatar
  BY DEF AccountsInit, Unregistered
<1>4. OrderInv /\ AvatarInv
  BY <1>2, <1>3
  DEF AccountsInit, OrderInv, AvatarInv, UsedInv, ToNameInv, HasReadInv, ToDeleteInv, KnowsOf
<1>5. Goal
  BY <1>3 DEF AccountsInit, Goal, NamedAvatarIsStored, StoredAvatarIsNeeded
<1> QED
  BY <1>1, <1>4, <1>5 DEF AccountsIInv

LEMMA AccountsStepIInv == AccountsIInv /\ [AccountsNext]_accountVars => AccountsIInv'
<1> SUFFICES ASSUME AccountsIInv, [AccountsNext]_accountVars  PROVE AccountsIInv'
  OBVIOUS
<1>1. CASE AccountsNext
  BY <1>1, AccountsTypeStep, OrderStep, AvatarStep DEF AccountsIInv
<1>2. CASE UNCHANGED accountVars
  BY <1>2
  DEF accountVars, AccountsIInv, AccountsTypeOK, OrderInv, OrderOK, IsAccount, AvatarInv, UsedInv, ToNameInv,
      HasReadInv, ToDeleteInv, Goal, NamedAvatarIsStored, StoredAvatarIsNeeded, Named
<1> QED
  BY <1>1, <1>2

\* In every reachable state an avatar has one owner: a request, an account, or
\* a request that deletes it.
THEOREM AccountsInvariant == AccountsSpec => []AccountsIInv
<1> QED
  BY AccountsInitIInv, AccountsStepIInv, PTL DEF AccountsSpec

\* Overlapping registrations and updates, and uploads, saves and deletes that
\* fail, never take the avatar of an account away, except for a save that was
\* applied and reported as failed.
THEOREM AvatarsStayStored == AccountsSpec => []NamedAvatarIsStored
<1>1. AccountsIInv => NamedAvatarIsStored
  BY DEF AccountsIInv, Goal
<1> QED
  BY <1>1, AccountsInvariant, PTL

\* removeUploadedAvatar and deleteAvatarBestEffort leave no object behind but
\* those that a failed call, a stopped process or an overlapping update leaves.
THEOREM AvatarsAreNeeded == AccountsSpec => []StoredAvatarIsNeeded
<1>1. AccountsIInv => StoredAvatarIsNeeded
  BY DEF AccountsIInv, Goal
<1> QED
  BY <1>1, AccountsInvariant, PTL
=============================================================================
