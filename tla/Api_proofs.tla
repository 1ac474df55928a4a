----------------------------- MODULE Api_proofs -----------------------------
(***************************************************************************)
(* What Api guarantees for every number of users, requests, tokens and     *)
(* files, and for versions of every length:                                *)
(*   ApiTyping     the variables keep their types;                         *)
(*   MadeAdmins    nobody acts as an administrator who was not made one;   *)
(*   LastAdmin     the last administrator is not demoted;                  *)
(*   WholeFiles    what is stored and downloaded is one whole version.     *)
(***************************************************************************)
EXTENDS Api, FiniteSetTheorems, SequenceTheorems, TLAPS

(* The connections are idle while the master is down, and do one thing.    *)
OneThing == \A c \in Client : /\ ~up => Idle(c)
                              /\ req[c] = NoRequest \/ transfer[c] = NoTransfer

ApiInv == AccountsInv /\ FilesInv /\ OneThing /\ uploads \in 0..MaxUploads

-----------------------------------------------------------------------------
(* Users, roles and tokens *)

(* Of two administrators one is not the one in question. *)
LEMMA AnotherOne ==
  ASSUME NEW S, IsFiniteSet(S), Cardinality(S) > 1, NEW e
  PROVE  \E a \in S : a # e
<1> SUFFICES ASSUME \A a \in S : a = e PROVE FALSE
  OBVIOUS
<1>1. S \subseteq {e}
  OBVIOUS
<1>2. IsFiniteSet({e}) /\ Cardinality({e}) = 1
  BY FS_Singleton
<1>3. Cardinality(S) <= 1
  BY <1>1, <1>2, FS_Subset
<1>4. Cardinality(S) \in Nat
  BY FS_CardinalityType
<1> QED BY <1>3, <1>4

(* The fields of a request, and of one that goes on to another step. *)
LEMMA RequestFields ==
  ASSUME NEW r \in Request
  PROVE  r.op \in {"register", "login", "role"} /\ r.user \in Email /\ r.role \in Role
  BY DEF Request

LEMMA RequestGoesOn ==
  ASSUME NEW r \in Request, r.op = "role", NEW s \in {"read", "count", "write"}
  PROVE  /\ [r EXCEPT !.step = s] \in Request
         /\ [r EXCEPT !.step = s].op = "role" /\ [r EXCEPT !.step = s].step = s
         /\ [r EXCEPT !.step = s].user = r.user /\ [r EXCEPT !.step = s].role = r.role
<1>1. r \in [op : {"role"}, step : {"read", "count", "write"}, user : Email, role : Role]
  BY DEF Request
<1>2. [r EXCEPT !.step = s]
        \in [op : {"role"}, step : {"read", "count", "write"}, user : Email, role : Role]
  BY <1>1
<1>3. [r EXCEPT !.step = s].step = s /\ [r EXCEPT !.step = s].op = "role"
      /\ [r EXCEPT !.step = s].user = r.user /\ [r EXCEPT !.step = s].role = r.role
  BY <1>1
<1> QED BY <1>2, <1>3 DEF Request

LEMMA NewRequests ==
  ASSUME NEW e \in Email, NEW r \in Role
  PROVE  /\ [op |-> "register", user |-> e, role |-> r] \in Request
         /\ [op |-> "login", user |-> e, role |-> r] \in Request
         /\ \A s \in {"read", "write"} :
              [op |-> "role", step |-> s, user |-> e, role |-> r] \in Request
  BY DEF Request

(* A request that goes on to another step. *)
LEMMA GoneTo ==
  ASSUME AccountsTypeOK, NEW c \in Client, NEW s \in {"read", "count", "write"},
         Doing(c, "role"), Goto(c, s)
  PROVE  /\ req' \in [Client -> Request \cup {NoRequest}]
         /\ \A d \in Client \ {c} : req'[d] = req[d]
         /\ req'[c] # NoRequest /\ req'[c].op = "role" /\ req'[c].step = s
         /\ req'[c].user = req[c].user /\ req'[c].role = req[c].role
<1>1. req[c] \in Request /\ req[c].op = "role"
  BY DEF AccountsTypeOK, Doing
<1>2. req'[c] = [req[c] EXCEPT !.step = s] /\ \A d \in Client \ {c} : req'[d] = req[d]
  BY DEF AccountsTypeOK, Goto
<1>3. req'[c] \in Request /\ req'[c].op = "role" /\ req'[c].step = s
      /\ req'[c].user = req[c].user /\ req'[c].role = req[c].role
  <2> DEFINE r == req[c]  t == [r EXCEPT !.step = s]
  <2>1. r \in Request /\ r.op = "role"
    BY <1>1
  <2> HIDE DEF r
  <2>2. /\ t \in Request /\ t.op = "role" /\ t.step = s
        /\ t.user = r.user /\ t.role = r.role
    BY <2>1, RequestGoesOn
  <2> HIDE DEF t
  <2>3. req'[c] = t
    BY <1>2 DEF t, r
  <2> QED BY <2>2, <2>3 DEF r
<1>4. req' \in [Client -> Request \cup {NoRequest}]
  BY <1>2, <1>3 DEF AccountsTypeOK, Goto
<1> QED BY <1>2, <1>3, <1>4, NoRequestAssumption

LEMMA Answered ==
  ASSUME AccountsTypeOK, NEW c \in Client, Answer(c)
  PROVE  /\ req' \in [Client -> Request \cup {NoRequest}]
         /\ \A d \in Client \ {c} : req'[d] = req[d]
         /\ req'[c] = NoRequest
  BY DEF AccountsTypeOK, Answer

LEMMA Asked ==
  ASSUME AccountsTypeOK, NEW c \in Client, NEW r \in Request, Ask(c, r)
  PROVE  /\ req' \in [Client -> Request \cup {NoRequest}]
         /\ \A d \in Client \ {c} : req'[d] = req[d]
         /\ req'[c] = r /\ req'[c] # NoRequest
  BY NoRequestAssumption DEF AccountsTypeOK, Ask

LEMMA AccountsInitInv == AccountsInit => AccountsInv
  BY AccountsAssumption, Zenon
  DEF AccountsInit, AccountsInv, AccountsTypeOK, AdminsAreMade, RequestSound, AdminRemains,
      DemotionSound, Admins, Doing, AtStep

(* The account that the start-up makes is an administrator's. *)
LEMMA BootstrapKeeps ==
  ASSUME AccountsInv, BootstrapAdmin, \A c \in Client : req[c] = NoRequest
  PROVE  AccountsInv'
<1> USE DEF AccountsInv
<1>1. AccountsTypeOK'
  BY AccountsAssumption DEF AccountsTypeOK, BootstrapAdmin, Role
<1>2. Admins \subseteq Admins'
  BY DEF AccountsTypeOK, BootstrapAdmin, Admins
<1>3. wasAdmin' # wasAdmin => Admins' # {}
  BY AccountsAssumption DEF AccountsTypeOK, BootstrapAdmin, Admins
<1>4. AdminsAreMade'
  BY DEF AccountsTypeOK, BootstrapAdmin, Admins, AdminsAreMade
<1>5. AdminRemains'
  BY <1>2, <1>3 DEF BootstrapAdmin, AdminRemains
<1>6. RequestSound' /\ DemotionSound'
  BY DEF BootstrapAdmin, RequestSound, DemotionSound, Doing, AtStep
<1> QED BY <1>1, <1>4, <1>5, <1>6

LEMMA StopKeeps ==
  ASSUME AccountsInv, StopMaster
  PROVE  AccountsInv'
<1>1. AccountsTypeOK'
  BY DEF AccountsInv, AccountsTypeOK, StopMaster
<1>2. \A c \in Client : req'[c] = NoRequest
  BY DEF StopMaster
<1>3. AdminsAreMade' /\ AdminRemains'
  BY DEF AccountsInv, StopMaster, AdminsAreMade, AdminRemains, Admins
<1>4. RequestSound' /\ DemotionSound'
  BY <1>2 DEF RequestSound, DemotionSound, Doing, AtStep
<1> QED BY <1>1, <1>3, <1>4 DEF AccountsInv

(* Nobody registers as an administrator. *)
LEMMA RegisterKeeps ==
  ASSUME AccountsInv, NEW c \in Client, NEW e \in Email, NEW r \in Role, Register(c, e, r)
  PROVE  AccountsInv'
<1> DEFINE rq == [op |-> "register", user |-> e, role |-> r]
<1>1. rq \in Request /\ r \in SelfRole /\ r # "admin"
  BY NewRequests, AccountsAssumption DEF Register, Allowed
<1>2. /\ req' \in [Client -> Request \cup {NoRequest}]
      /\ \A d \in Client \ {c} : req'[d] = req[d]
      /\ req'[c] = rq /\ req'[c] # NoRequest
  <2> HIDE DEF rq
  <2> QED BY <1>1, Asked DEF AccountsInv, Register, rq
<1>3. AccountsTypeOK'
  BY <1>2 DEF AccountsInv, AccountsTypeOK, Register
<1>4. role' = [role EXCEPT ![e] = r] /\ role[e] = "none" /\ role \in [Email -> Role \cup {"none"}]
      /\ UNCHANGED <<up, tokens, wasAdmin, overlap>>
  BY DEF AccountsInv, AccountsTypeOK, Register
<1>5. Admins' = Admins
  BY <1>1, <1>4 DEF Admins
<1>6. AdminsAreMade' /\ AdminRemains'
  BY <1>4, <1>5 DEF AccountsInv, AdminsAreMade, AdminRemains
<1>7. RequestSound'
  BY <1>1, <1>2, <1>4 DEF AccountsInv, RequestSound, Doing
<1>8. ASSUME NEW d \in Client, AtStep(d, "write")', req'[d].role # "admin", ~overlap
      PROVE  role'[req'[d].user] # "admin" \/ \E a \in Admins' : a # req'[d].user
  <2>1. d # c
    BY <1>2, <1>8 DEF AtStep, Doing
  <2>2. req'[d] = req[d] /\ req[d] \in Request
    BY <2>1, <1>2, <1>8 DEF AtStep, Doing, AccountsInv, AccountsTypeOK
  <2>3. req[d].user \in Email
    BY <2>2, RequestFields
  <2>4. role[req[d].user] # "admin" \/ \E a \in Admins : a # req[d].user
    BY <1>8, <2>2 DEF AccountsInv, DemotionSound, AtStep, Doing
  <2> QED BY <2>2, <2>3, <2>4, <1>4, <1>1, <1>5
<1>9. DemotionSound'
  BY <1>4, <1>8 DEF DemotionSound
<1> QED BY <1>3, <1>6, <1>7, <1>9 DEF AccountsInv

LEMMA LoginKeeps ==
  ASSUME AccountsInv, NEW c \in Client, NEW e \in Email, Login(c, e)
  PROVE  AccountsInv'
<1> DEFINE rq == [op |-> "login", user |-> e, role |-> role[e]]
<1>1. rq \in Request
  BY NewRequests DEF AccountsInv, AccountsTypeOK, Login
<1>2. /\ req' \in [Client -> Request \cup {NoRequest}]
      /\ \A d \in Client \ {c} : req'[d] = req[d]
      /\ req'[c] = rq /\ req'[c] # NoRequest
  <2> HIDE DEF rq
  <2> QED BY <1>1, Asked DEF AccountsInv, Login, rq
<1>3. AccountsTypeOK'
  BY <1>2 DEF AccountsInv, AccountsTypeOK, Login
<1>4. UNCHANGED <<up, role, tokens, wasAdmin, overlap>> /\ Admins' = Admins
  BY DEF Login, Admins
<1>5. AdminsAreMade' /\ AdminRemains'
  BY <1>4 DEF AccountsInv, AdminsAreMade, AdminRemains
<1>6. role[e] = "admin" => e \in wasAdmin
  BY DEF AccountsInv, AdminsAreMade, Admins
<1>7. RequestSound'
  BY <1>2, <1>4, <1>6 DEF AccountsInv, RequestSound, Doing
<1>8. DemotionSound'
  BY <1>2, <1>4 DEF AccountsInv, DemotionSound, AtStep, Doing
<1> QED BY <1>3, <1>5, <1>7, <1>8 DEF AccountsInv

(* A token is minted with a role that the user had when it was read. *)
LEMMA MintKeeps ==
  ASSUME AccountsInv, NEW c \in Client, MintToken(c)
  PROVE  AccountsInv'
<1> DEFINE t == [sub |-> req[c].user, role |-> req[c].role]
<1>1. req[c] \in Request /\ (Doing(c, "register") \/ Doing(c, "login"))
  BY DEF AccountsInv, AccountsTypeOK, MintToken, Doing
<1>2. t \in Token /\ (t.role = "admin" => t.sub \in wasAdmin)
  BY <1>1, RequestFields DEF Token, AccountsInv, RequestSound
<1>3. tokens' = tokens \cup {t} /\ UNCHANGED <<up, role, wasAdmin, overlap>>
  BY DEF MintToken, Hand
<1> HIDE DEF t
<1>4. /\ req' \in [Client -> Request \cup {NoRequest}]
      /\ \A d \in Client \ {c} : req'[d] = req[d]
      /\ req'[c] = NoRequest
  BY Answered DEF AccountsInv, MintToken
<1>5. AccountsTypeOK'
  BY <1>2, <1>3, <1>4 DEF AccountsInv, AccountsTypeOK
<1>6. Admins' = Admins
  BY <1>3 DEF Admins
<1>7. AdminsAreMade' /\ AdminRemains'
  BY <1>2, <1>3, <1>6 DEF AccountsInv, AdminsAreMade, AdminRemains
<1>8. RequestSound' /\ DemotionSound'
  BY <1>3, <1>4, <1>6 DEF AccountsInv, RequestSound, DemotionSound, AtStep, Doing
<1> QED BY <1>5, <1>7, <1>8 DEF AccountsInv

LEMMA RefuseKeeps ==
  ASSUME AccountsInv, NEW c \in Client, Refuse(c)
  PROVE  AccountsInv'
<1>1. UNCHANGED <<up, role, tokens, wasAdmin, overlap>> /\ Admins' = Admins
  BY DEF Refuse, Admins
<1>2. /\ req' \in [Client -> Request \cup {NoRequest}]
      /\ \A d \in Client \ {c} : req'[d] = req[d]
      /\ req'[c] = NoRequest
  BY Answered DEF AccountsInv, Refuse
<1>3. AccountsTypeOK' /\ AdminsAreMade' /\ AdminRemains'
  BY <1>1, <1>2 DEF AccountsInv, AccountsTypeOK, AdminsAreMade, AdminRemains
<1>4. RequestSound' /\ DemotionSound'
  BY <1>1, <1>2 DEF AccountsInv, RequestSound, DemotionSound, AtStep, Doing
<1> QED BY <1>3, <1>4 DEF AccountsInv

LEMMA ExpireKeeps ==
  ASSUME AccountsInv, NEW t \in tokens, Expire(t)
  PROVE  AccountsInv'
<1>1. UNCHANGED <<up, role, req, wasAdmin, overlap>> /\ Admins' = Admins /\ tokens' \subseteq tokens
  BY DEF Expire, Admins
<1>2. AccountsTypeOK' /\ AdminsAreMade'
  BY <1>1 DEF AccountsInv, AccountsTypeOK, AdminsAreMade
<1>3. AdminRemains' /\ RequestSound' /\ DemotionSound'
  BY <1>1 DEF AccountsInv, AdminRemains, RequestSound, DemotionSound, AtStep, Doing
<1> QED BY <1>2, <1>3 DEF AccountsInv

(* The steps of update_user_role before the UPDATE change only the request. *)
LEMMA OnlyRequest ==
  ASSUME AccountsInv, NEW c \in Client, UNCHANGED <<up, role, tokens, wasAdmin, overlap>>,
         req' \in [Client -> Request \cup {NoRequest}],
         \A d \in Client \ {c} : req'[d] = req[d],
         req'[c] # NoRequest => req'[c].op = "role",
         /\ req'[c] # NoRequest /\ req'[c].step = "write" /\ req'[c].role # "admin" /\ ~overlap
         => role[req'[c].user] # "admin" \/ \E a \in Admins : a # req'[c].user
  PROVE  AccountsInv'
<1>1. AccountsTypeOK' /\ Admins' = Admins
  BY DEF AccountsInv, AccountsTypeOK, Admins
<1>2. AdminsAreMade' /\ AdminRemains'
  BY <1>1 DEF AccountsInv, AdminsAreMade, AdminRemains
<1>3. RequestSound'
  BY DEF AccountsInv, RequestSound, Doing
<1>4. DemotionSound'
  BY <1>1 DEF AccountsInv, DemotionSound, AtStep, Doing
<1> QED BY <1>1, <1>2, <1>3, <1>4 DEF AccountsInv

LEMMA UpdateKeeps ==
  ASSUME AccountsInv, NEW c \in Client, NEW t \in tokens, NEW e \in Email, NEW r \in Role,
         UpdateUserRole(c, t, e, r)
  PROVE  AccountsInv'
<1> DEFINE s == IF r = "admin" THEN "write" ELSE "read"
           rq == [op |-> "role", step |-> s, user |-> e, role |-> r]
<1>1. rq \in Request /\ rq.op = "role" /\ (rq.step = "write" => rq.role = "admin")
  BY NewRequests
<1>2. Ask(c, rq) /\ UNCHANGED <<up, role, tokens, wasAdmin, overlap>>
  BY DEF UpdateUserRole
<1> HIDE DEF rq
<1>3. /\ req' \in [Client -> Request \cup {NoRequest}]
      /\ \A d \in Client \ {c} : req'[d] = req[d]
      /\ req'[c] = rq
  BY <1>1, <1>2, Asked DEF AccountsInv
<1> QED BY <1>1, <1>2, <1>3, OnlyRequest

LEMMA ReadKeeps ==
  ASSUME AccountsInv, NEW c \in Client, ReadTarget(c)
  PROVE  AccountsInv'
<1>1. Doing(c, "role") /\ UNCHANGED <<up, role, tokens, wasAdmin, overlap>> /\ AccountsTypeOK
  BY DEF ReadTarget, AtStep, AccountsInv
<1>2. CASE Answer(c)
  BY <1>1, <1>2, Answered, OnlyRequest
<1>3. CASE Goto(c, "count")
  BY <1>1, <1>3, GoneTo, OnlyRequest
<1>4. CASE role[req[c].user] \in SelfRole /\ Goto(c, "write")
  <2>1. role[req[c].user] # "admin"
    BY <1>4, AccountsAssumption
  <2>2. /\ req' \in [Client -> Request \cup {NoRequest}]
        /\ \A d \in Client \ {c} : req'[d] = req[d]
        /\ req'[c].op = "role" /\ req'[c].user = req[c].user
    BY <1>1, <1>4, GoneTo
  <2> QED BY <1>1, <2>1, <2>2, OnlyRequest
<1> QED BY <1>2, <1>3, <1>4 DEF ReadTarget

(* The count finds another administrator than the one to demote. *)
LEMMA CountKeeps ==
  ASSUME AccountsInv, NEW c \in Client, CountAdmins(c)
  PROVE  AccountsInv'
<1>1. Doing(c, "role") /\ UNCHANGED <<up, role, tokens, wasAdmin, overlap>> /\ AccountsTypeOK
  BY DEF CountAdmins, AtStep, AccountsInv
<1>2. CASE Answer(c)
  BY <1>1, <1>2, Answered, OnlyRequest
<1>3. CASE Enough /\ Goto(c, "write")
  <2>1. IsFiniteSet(Admins)
    BY AccountsAssumption, FS_Subset DEF Admins
  <2>2. \E a \in Admins : a # req[c].user
    BY <1>3, <2>1, AnotherOne DEF Enough
  <2>3. /\ req' \in [Client -> Request \cup {NoRequest}]
        /\ \A d \in Client \ {c} : req'[d] = req[d]
        /\ req'[c].op = "role" /\ req'[c].user = req[c].user
    BY <1>1, <1>3, GoneTo
  <2> QED BY <1>1, <2>2, <2>3, OnlyRequest
<1> QED BY <1>2, <1>3 DEF CountAdmins

(* The update leaves the other administrator that was counted. *)
LEMMA WriteKeeps ==
  ASSUME AccountsInv, NEW c \in Client, WriteRole(c)
  PROVE  AccountsInv'
<1> DEFINE e == req[c].user  r == req[c].role
<1>1. AtStep(c, "write") /\ req[c] \in Request
  BY DEF AccountsInv, AccountsTypeOK, WriteRole, AtStep, Doing
<1>2. e \in Email /\ r \in Role
  BY <1>1, RequestFields
<1>3. /\ role' = IF role[e] = "none" THEN role ELSE [role EXCEPT ![e] = r]
      /\ wasAdmin' = IF role'[e] = "admin" THEN wasAdmin \cup {e} ELSE wasAdmin
      /\ overlap' = (overlap \/ \E d \in Client \ {c} : AtStep(d, "count") \/ AtStep(d, "write"))
      /\ UNCHANGED <<up, tokens>>
  BY DEF WriteRole
<1>4. /\ req' \in [Client -> Request \cup {NoRequest}]
      /\ \A d \in Client \ {c} : req'[d] = req[d]
      /\ req'[c] = NoRequest
  BY Answered DEF AccountsInv, WriteRole
<1>5. ~overlap /\ r # "admin" => role[e] # "admin" \/ \E a \in Admins : a # e
  BY <1>1 DEF AccountsInv, DemotionSound
<1> HIDE DEF e, r
<1>6. role \in [Email -> Role \cup {"none"}] /\ Admins \subseteq wasAdmin /\ wasAdmin \subseteq Email
  BY DEF AccountsInv, AccountsTypeOK, AdminsAreMade
<1>7. /\ role' \in [Email -> Role \cup {"none"}]
      /\ \A f \in Email \ {e} : role'[f] = role[f]
      /\ role'[e] = IF role[e] = "none" THEN "none" ELSE r
  BY <1>2, <1>3, <1>6
<1>8. overlap' \in BOOLEAN /\ (~overlap' => ~overlap)
  BY <1>3, Zenon DEF AccountsInv, AccountsTypeOK
<1>9. AccountsTypeOK'
  BY <1>2, <1>3, <1>4, <1>6, <1>7, <1>8 DEF AccountsInv, AccountsTypeOK
<1>10. AdminsAreMade'
  BY <1>2, <1>3, <1>6, <1>7 DEF AccountsInv, AdminsAreMade, Admins
<1>11. AdminRemains'
  <2> SUFFICES ASSUME wasAdmin' # {}, ~overlap' PROVE Admins' # {}
    BY DEF AdminRemains
  <2>1. CASE role'[e] = "admin"
    BY <1>2, <2>1 DEF Admins
  <2>2. CASE role'[e] # "admin"
    <3>1. Admins # {}
      BY <1>3, <1>8, <2>2 DEF AccountsInv, AdminRemains
    <3>2. \E a \in Admins : a # e
      BY <1>2, <1>5, <1>7, <1>8, <2>2, <3>1 DEF Admins
    <3> QED BY <1>7, <3>2 DEF Admins
  <2> QED BY <2>1, <2>2
<1>12. RequestSound'
  BY <1>3, <1>4 DEF AccountsInv, RequestSound, Doing
<1>13. DemotionSound'
  <2> SUFFICES ASSUME ~overlap', NEW d \in Client, AtStep(d, "write")' PROVE FALSE
    BY DEF DemotionSound
  <2>1. d # c /\ AtStep(d, "write")
    BY <1>4 DEF AtStep, Doing
  <2> QED BY <1>3, <2>1
<1> QED BY <1>9, <1>10, <1>11, <1>12, <1>13 DEF AccountsInv

LEMMA RequestsKeep ==
  ASSUME AccountsInv, RequestStep
  PROVE  AccountsInv'
<1>1. ASSUME NEW t \in tokens, Expire(t) PROVE AccountsInv'
  BY <1>1, ExpireKeeps
<1>2. ASSUME NEW c \in Client, NEW e \in Email, Login(c, e) PROVE AccountsInv'
  BY <1>2, LoginKeeps
<1>3. ASSUME NEW c \in Client, NEW e \in Email, NEW r \in Role, Register(c, e, r)
      PROVE  AccountsInv'
  BY <1>3, RegisterKeeps
<1>4. ASSUME NEW c \in Client, NEW e \in Email, NEW t \in tokens, NEW r \in Role,
             UpdateUserRole(c, t, e, r)
      PROVE  AccountsInv'
  BY <1>4, UpdateKeeps
<1>5. ASSUME NEW c \in Client,
             \/ MintToken(c) \/ Refuse(c) \/ ReadTarget(c) \/ CountAdmins(c) \/ WriteRole(c)
      PROVE  AccountsInv'
  BY <1>5, MintKeeps, RefuseKeeps, ReadKeeps, CountKeeps, WriteKeeps
<1> QED BY <1>1, <1>2, <1>3, <1>4, <1>5 DEF RequestStep

-----------------------------------------------------------------------------
(* Files *)

LEMMA TransferKinds ==
  ASSUME FilesTypeOK, NEW u \in User, transfer[u] # NoTransfer
  PROVE  /\ transfer[u].file \in File
         /\ \/ transfer[u].op = "upload" /\ transfer[u] \in Upload
            \/ transfer[u].op = "download" /\ transfer[u] \in Download
<1>1. transfer[u] \in Upload \/ transfer[u] \in Download
  BY DEF FilesTypeOK
<1>2. CASE transfer[u] \in Upload
  BY <1>2 DEF Upload
<1>3. CASE transfer[u] \in Download
  BY <1>3 DEF Download
<1> QED BY <1>1, <1>2, <1>3

(* A step of one connection on the file it uploads leaves the others sound. *)
LEMMA OthersSound ==
  ASSUME FilesInv, NEW u \in User,
         \A w \in User \ {u} : transfer'[w] = transfer[w],
         \A f \in File : Uploading(f)' \subseteq Uploading(f),
         torn \subseteq torn',
         \A f \in torn' : f \in torn \/ u \in Uploading(f),
         \A f \in File : \/ content'[f] = content[f]
                         \/ u \in Uploading(f) /\ content'[f] # NoFile
  PROVE  \A w \in User \ {u} : WriterSound(w)' /\ ReaderSound(w)'
<1> SUFFICES ASSUME NEW w \in User \ {u} PROVE WriterSound(w)' /\ ReaderSound(w)'
  OBVIOUS
<1> DEFINE t == transfer[w]  f == t.file
<1>1. transfer'[w] = t /\ WriterSound(w) /\ ReaderSound(w) /\ FilesTypeOK
  BY DEF FilesInv
<1>2. ASSUME t # NoTransfer, t.op = "upload" PROVE WriterSound(w)' /\ ReaderSound(w)'
  <2>1. f \in File
    BY <1>1, <1>2, TransferKinds
  <2>2. w \in Uploading(f)
    BY <1>2 DEF Uploading
  <2>3. f \notin torn' => f \notin torn /\ u \notin Uploading(f) /\ content'[f] = content[f]
    BY <1>1, <1>2, <2>1, <2>2 DEF WriterSound
  <2>4. content[f] # NoFile => content'[f] # NoFile
    BY <2>1
  <2>5. f \notin torn' => \A x \in Uploading(f)' : x = w
    BY <1>1, <1>2, <2>1, <2>3 DEF WriterSound
  <2> QED BY <1>1, <1>2, <2>3, <2>4, <2>5 DEF WriterSound, ReaderSound
<1>3. ASSUME t # NoTransfer, t.op = "download" PROVE WriterSound(w)' /\ ReaderSound(w)'
  <2>1. f \in File
    BY <1>1, <1>3, TransferKinds
  <2>2. content[f] # NoFile => content'[f] # NoFile
    BY <2>1
  <2>3. WriterSound(w)'
    BY <1>1, <1>3 DEF WriterSound
  <2>4. CASE t.clean /\ t.step # "sent"
    <3>1. f \notin torn /\ Uploading(f) = {}
      BY <1>1, <1>3, <2>4 DEF ReaderSound
    <3>2. content'[f] = content[f] /\ Uploading(f)' = {}
      BY <2>1, <3>1
    <3>3. f \notin torn'
      BY <3>1
    <3> QED BY <1>1, <1>3, <2>2, <2>3, <2>4, <3>2, <3>3 DEF ReaderSound
  <2>5. CASE ~(t.clean /\ t.step # "sent")
    BY <1>1, <1>3, <2>2, <2>3, <2>5 DEF ReaderSound
  <2> QED BY <2>4, <2>5
<1>4. CASE t = NoTransfer
  BY <1>1, <1>4 DEF WriterSound, ReaderSound
<1> QED BY <1>1, <1>2, <1>3, <1>4, TransferKinds

(* A file that nobody touches stays sound, unless it is uploaded from now. *)
LEMMA UntouchedSound ==
  ASSUME FilesInv, NEW u \in User, NEW f \in File,
         Uploading(f) \subseteq Uploading(f)',
         content'[f] = content[f], rows'[f] = rows[f],
         f \in torn => f \in torn'
  PROVE  FileSound(f)'
<1>1. FileSound(f)
  BY DEF FilesInv
<1>2. CASE f \in torn' \/ Uploading(f)' # {}
  BY <1>2 DEF FileSound
<1>3. CASE f \notin torn' /\ Uploading(f)' = {}
  <2>1. f \notin torn /\ Uploading(f) = {}
    BY <1>3
  <2> QED BY <1>1, <1>3, <2>1 DEF FileSound
<1> QED BY <1>2, <1>3

(* What the steps of a transfer change in its record. *)
LEMMA UploadStep ==
  ASSUME NEW r \in Upload, NEW s \in {"open", "write", "row"}
  PROVE  /\ [r EXCEPT !.step = s] \in Upload /\ [r EXCEPT !.step = s].step = s
         /\ [r EXCEPT !.step = s].op = "upload" /\ [r EXCEPT !.step = s].file = r.file
         /\ [r EXCEPT !.step = s].version = r.version /\ [r EXCEPT !.step = s].done = r.done
  BY DEF Upload

LEMMA UploadDone ==
  ASSUME NEW r \in Upload, NEW n \in Nat
  PROVE  /\ [r EXCEPT !.done = n] \in Upload /\ [r EXCEPT !.done = n].done = n
         /\ [r EXCEPT !.done = n].op = "upload" /\ [r EXCEPT !.done = n].file = r.file
         /\ [r EXCEPT !.done = n].version = r.version /\ [r EXCEPT !.done = n].step = r.step
  BY DEF Upload

LEMMA DownloadStat ==
  ASSUME NEW r \in Download, NEW n \in Nat
  PROVE  [r EXCEPT !.size = n, !.step = "read"]
           = [op |-> "download", file |-> r.file, step |-> "read", size |-> n, body |-> r.body,
              clean |-> r.clean]
<1> DEFINE y == [r EXCEPT !.size = n, !.step = "read"]
<1>1. r \in [op : {"download"}, file : {r.file}, step : {r.step}, size : {r.size},
             body : {r.body}, clean : {r.clean}]
  BY DEF Download
<1>2. y \in [op : {"download"}, file : {r.file}, step : {"read"}, size : {n},
            body : {r.body}, clean : {r.clean}]
  BY <1>1
<1> HIDE DEF y
<1>3. y = [op |-> "download", file |-> r.file, step |-> "read", size |-> n, body |-> r.body,
           clean |-> r.clean]
  BY <1>2
<1> QED BY <1>3 DEF y

LEMMA DownloadBody ==
  ASSUME NEW r \in Download, NEW b \in Seq(Block)
  PROVE  /\ [r EXCEPT !.body = b] \in Download /\ [r EXCEPT !.body = b].body = b
         /\ [r EXCEPT !.body = b].op = "download" /\ [r EXCEPT !.body = b].file = r.file
         /\ [r EXCEPT !.body = b].size = r.size /\ [r EXCEPT !.body = b].step = r.step
         /\ [r EXCEPT !.body = b].clean = r.clean
  BY DEF Download

LEMMA DownloadSent ==
  ASSUME NEW r \in Download
  PROVE  /\ [r EXCEPT !.step = "sent"] \in Download /\ [r EXCEPT !.step = "sent"].step = "sent"
         /\ [r EXCEPT !.step = "sent"].op = "download" /\ [r EXCEPT !.step = "sent"].file = r.file
         /\ [r EXCEPT !.step = "sent"].size = r.size /\ [r EXCEPT !.step = "sent"].body = r.body
         /\ [r EXCEPT !.step = "sent"].clean = r.clean
  BY DEF Download

LEMMA DownloadDisturbed ==
  ASSUME NEW r \in Download
  PROVE  /\ [r EXCEPT !.clean = FALSE] \in Download /\ [r EXCEPT !.clean = FALSE].clean = FALSE
         /\ [r EXCEPT !.clean = FALSE].op = "download"
         /\ [r EXCEPT !.clean = FALSE].file = r.file /\ [r EXCEPT !.clean = FALSE].size = r.size
         /\ [r EXCEPT !.clean = FALSE].body = r.body /\ [r EXCEPT !.clean = FALSE].step = r.step
  BY DEF Download

(* A connection that goes on with another record, or with none. *)
LEMMA GoesOn ==
  ASSUME FilesTypeOK, NEW u \in User, NEW x, transfer' = [transfer EXCEPT ![u] = x]
  PROVE  transfer'[u] = x /\ \A w \in User \ {u} : transfer'[w] = transfer[w]
  BY DEF FilesTypeOK

LEMMA Closed ==
  ASSUME FilesTypeOK, NEW u \in User, Close(u)
  PROVE  /\ transfer'[u] = NoTransfer /\ \A w \in User \ {u} : transfer'[w] = transfer[w]
         /\ transfer' \in [User -> Upload \cup Download \cup {NoTransfer}]
         /\ \A f \in File : Uploading(f)' = Uploading(f) \ {u}
         /\ WriterSound(u)' /\ ReaderSound(u)'
<1>1. transfer'[u] = NoTransfer /\ (\A w \in User \ {u} : transfer'[w] = transfer[w])
      /\ transfer' \in [User -> Upload \cup Download \cup {NoTransfer}]
  BY DEF FilesTypeOK, Close
<1>2. \A f \in File : Uploading(f)' = Uploading(f) \ {u}
  BY <1>1 DEF Uploading
<1>3. WriterSound(u)' /\ ReaderSound(u)'
  BY <1>1 DEF WriterSound, ReaderSound
<1> QED BY <1>1, <1>2, <1>3

-----------------------------------------------------------------------------
(* The steps of a download *)

LEMMA FilesInitInv == FilesInit => FilesInv
<1> SUFFICES ASSUME FilesInit PROVE FilesInv
  OBVIOUS
<1>1. FilesTypeOK
  BY EmptySeq DEF FilesInit, FilesTypeOK
<1>2. \A u \in User : WriterSound(u) /\ ReaderSound(u)
  BY DEF FilesInit, WriterSound, ReaderSound
<1>3. \A f \in File : FileSound(f)
  BY DEF FilesInit, FileSound
<1> QED BY <1>1, <1>2, <1>3 DEF FilesInv

(* A step of a reader changes nothing but its record. *)
LEMMA ReaderStep ==
  ASSUME FilesInv, NEW u \in User, NEW x \in Download, Uploading(x.file) \subseteq User,
         \A f \in File : u \notin Uploading(f), x.op = "download",
         transfer' = [transfer EXCEPT ![u] = x], UNCHANGED <<content, rows, torn>>,
         ReaderSound(u)'
  PROVE  FilesInv'
<1>1. transfer'[u] = x /\ (\A w \in User \ {u} : transfer'[w] = transfer[w]) /\ FilesTypeOK
  BY GoesOn DEF FilesInv
<1>2. FilesTypeOK'
  BY <1>1 DEF FilesTypeOK
<1>3. \A f \in File : Uploading(f)' = Uploading(f)
  BY <1>1 DEF Uploading
<1>4. \A w \in User \ {u} : WriterSound(w)' /\ ReaderSound(w)'
  BY <1>1, <1>3, OthersSound
<1>5. WriterSound(u)'
  BY <1>1 DEF WriterSound
<1>6. \A f \in File : FileSound(f)'
  BY <1>3, UntouchedSound
<1> QED BY <1>2, <1>4, <1>5, <1>6 DEF FilesInv

LEMMA OpenKeeps ==
  ASSUME FilesInv, NEW u \in User, NEW f \in File, OpenForReading(u, f)
  PROVE  FilesInv'
<1> DEFINE x == [op |-> "download", file |-> f, step |-> "stat", size |-> 0, body |-> <<>>,
                 clean |-> f \notin torn /\ Uploading(f) = {}]
<1>1. x \in Download /\ x.op = "download" /\ x.file = f /\ x.step = "stat" /\ x.body = <<>>
      /\ x # NoTransfer
  <2>1. (f \notin torn /\ Uploading(f) = {}) \in BOOLEAN
    OBVIOUS
  <2>2. <<>> \in Seq(Block)
    BY EmptySeq
  <2>3. x \in Download
    BY <2>1, <2>2 DEF Download
  <2> QED BY <2>3, FilesAssumption
<1>2. x.clean => f \notin torn /\ Uploading(f) = {}
  OBVIOUS
<1>3. /\ transfer' = [transfer EXCEPT ![u] = x] /\ transfer[u] = NoTransfer
      /\ content[f] # NoFile /\ UNCHANGED <<content, rows, torn>> /\ FilesTypeOK
  BY DEF OpenForReading, FilesInv
<1> HIDE DEF x
<1>4. transfer'[u] = x /\ \A w \in User \ {u} : transfer'[w] = transfer[w]
  BY <1>3, GoesOn
<1>5. Uploading(f)' = Uploading(f)
  BY <1>1, <1>3, <1>4 DEF Uploading
<1>6. ReaderSound(u)'
  BY <1>1, <1>2, <1>3, <1>4, <1>5 DEF ReaderSound
<1>7. \A g \in File : u \notin Uploading(g)
  BY <1>3 DEF Uploading
<1>8. Uploading(x.file) \subseteq User
  BY DEF Uploading
<1> QED BY <1>1, <1>3, <1>6, <1>7, <1>8, ReaderStep

(* What holds of a reader before its step. *)
LEMMA ReaderFacts ==
  ASSUME FilesInv, NEW u \in User, transfer[u] # NoTransfer, transfer[u].op = "download"
  PROVE  /\ FilesTypeOK /\ ReaderSound(u) /\ transfer[u] \in Download
         /\ transfer[u].file \in File /\ Uploading(transfer[u].file) \subseteq User
         /\ \A g \in File : u \notin Uploading(g)
<1>1. FilesTypeOK /\ ReaderSound(u)
  BY DEF FilesInv
<1>2. transfer[u] \in Download /\ transfer[u].file \in File
  BY <1>1, TransferKinds
<1> QED BY <1>1, <1>2 DEF Uploading

LEMMA StatKeeps ==
  ASSUME FilesInv, NEW u \in User, Stat(u)
  PROVE  FilesInv'
<1> PICK t : t = transfer[u]
  OBVIOUS
<1> PICK f : f = t.file
  OBVIOUS
<1> PICK n : n = Len(content[f])
  OBVIOUS
<1> DEFINE x == [op |-> "download", file |-> t.file, step |-> "read", size |-> n, body |-> t.body,
                 clean |-> t.clean]
<1>1. /\ t # NoTransfer /\ t.op = "download" /\ t.step = "stat"
      /\ transfer' = [transfer EXCEPT ![u].size = n, ![u].step = "read"]
      /\ UNCHANGED <<content, rows, torn>>
  BY DEF Stat, Does
<1>2. /\ FilesTypeOK /\ ReaderSound(u) /\ t \in Download /\ f \in File
      /\ Uploading(f) \subseteq User /\ \A g \in File : u \notin Uploading(g)
  BY <1>1, ReaderFacts
<1>3. content[f] # NoFile /\ t.body = <<>>
  BY <1>1, <1>2 DEF ReaderSound
<1>4. content[f] \in Seq(Block) /\ n \in Nat
  BY <1>2, <1>3, LenProperties DEF FilesTypeOK
<1>5. transfer' = [transfer EXCEPT ![u] = x]
  <2>1. transfer' = [transfer EXCEPT ![u] = [t EXCEPT !.size = n, !.step = "read"]]
    BY <1>1, <1>2 DEF FilesTypeOK
  <2>2. [t EXCEPT !.size = n, !.step = "read"] = x
    BY <1>2, <1>4, DownloadStat
  <2> HIDE DEF x
  <2> QED BY <2>1, <2>2
<1>6. /\ x \in Download /\ x.step = "read" /\ x.size = n /\ x.op = "download"
      /\ x.file = f /\ x.body = <<>> /\ x.clean = t.clean
  BY <1>2, <1>3, <1>4 DEF Download
<1> HIDE DEF x
<1>7. transfer'[u] = x /\ \A w \in User \ {u} : transfer'[w] = transfer[w]
  BY <1>2, <1>5, GoesOn
<1>8. Uploading(f)' = Uploading(f)
  <2>1. /\ transfer'[u].op # "upload" /\ transfer[u].op # "upload"
        /\ \A w \in User \ {u} : transfer'[w] = transfer[w]
    BY <1>1, <1>6, <1>7
  <2> QED BY <2>1 DEF Uploading
<1>9. ReaderSound(u)'
  <2>1. x.clean => x.file \notin torn' /\ Uploading(x.file)' = {}
    <3>1. t.clean => t.file \notin torn /\ Uploading(t.file) = {}
      BY <1>1, <1>2 DEF ReaderSound
    <3>2. x.clean = t.clean /\ x.file = f /\ torn' = torn /\ t.file = f
      BY <1>1, <1>6
    <3> QED BY <1>8, <3>1, <3>2
  <2>2. Len(x.body) = 0
    BY <1>6
  <2>3. /\ content'[x.file] # NoFile /\ x.size = Len(content'[x.file])
        /\ Len(x.body) <= x.size
        /\ \A i \in 1..Len(x.body) : x.body[i] = content'[x.file][i]
    BY <1>1, <1>3, <1>4, <1>6, <2>2
  <2>4. x.op = "download" /\ x.step = "read"
    BY <1>6
  <2> QED BY <1>7, <2>1, <2>3, <2>4, Zenon DEF ReaderSound
<1> QED BY <1>1, <1>2, <1>5, <1>6, <1>9, ReaderStep

(* A reader without disturbance has read the beginning of the file. *)
LEMMA ReadKeepsFiles ==
  ASSUME FilesInv, NEW u \in User, ReadBlock(u)
  PROVE  FilesInv'
<1> PICK t : t = transfer[u]
  OBVIOUS
<1> PICK f : f = t.file
  OBVIOUS
<1> PICK s : s = content[f]
  OBVIOUS
<1>1. /\ t # NoTransfer /\ t.op = "download" /\ t.step = "read"
      /\ UNCHANGED <<content, rows, torn>>
  BY DEF ReadBlock, Does
<1>2. /\ FilesTypeOK /\ ReaderSound(u) /\ t \in Download /\ f \in File
      /\ Uploading(f) \subseteq User /\ \A g \in File : u \notin Uploading(g)
  BY <1>1, ReaderFacts
<1>3. s # NoFile
  BY <1>1, <1>2 DEF ReaderSound
<1>4. s \in Seq(Block) /\ Len(s) \in Nat /\ t.body \in Seq(Block) /\ Len(t.body) \in Nat
  <2>1. s \in Seq(Block) /\ t.body \in Seq(Block)
    BY <1>2, <1>3 DEF FilesTypeOK, Download
  <2> QED BY <2>1, LenProperties
<1>5. t.clean => /\ f \notin torn /\ Uploading(f) = {} /\ t.size = Len(s) /\ Len(t.body) <= Len(s)
                 /\ \A i \in 1..Len(t.body) : t.body[i] = s[i]
  BY <1>1, <1>2 DEF ReaderSound
<1>6. CASE /\ Len(t.body) + 1 <= Len(s)
           /\ transfer' = [transfer EXCEPT ![u].body = Append(@, s[Len(t.body) + 1])]
  <2> DEFINE b == Append(t.body, s[Len(t.body) + 1])
             x == [t EXCEPT !.body = b]
  <2>1. s[Len(t.body) + 1] \in Block
    BY <1>4, <1>6, ElementOfSeq
  <2>2. /\ b \in Seq(Block) /\ Len(b) = Len(t.body) + 1
        /\ \A i \in 1..Len(b) : b[i] = IF i = Len(t.body) + 1 THEN s[Len(t.body) + 1] ELSE t.body[i]
    BY <1>4, <2>1, AppendProperties
  <2> HIDE DEF b
  <2>3. transfer' = [transfer EXCEPT ![u] = x]
    BY <1>2, <1>6 DEF FilesTypeOK, b
  <2>4. /\ x \in Download /\ x.step = "read" /\ x.size = t.size /\ x.op = "download"
        /\ x.file = f /\ x.body = b /\ x.clean = t.clean
    BY <1>1, <1>2, <2>2, DownloadBody
  <2> HIDE DEF x
  <2>5. transfer'[u] = x /\ \A w \in User \ {u} : transfer'[w] = transfer[w]
    BY <1>2, <2>3, GoesOn
  <2>6. Uploading(f)' = Uploading(f)
    BY <1>1, <2>4, <2>5 DEF Uploading
  <2>7. t.clean => Len(b) <= Len(s) /\ \A i \in 1..Len(b) : b[i] = s[i]
    BY <1>4, <1>5, <1>6, <2>2
  <2>8. ReaderSound(u)'
    BY <1>1, <1>3, <1>5, <2>4, <2>5, <2>6, <2>7 DEF ReaderSound
  <2> QED BY <1>1, <1>2, <2>3, <2>4, <2>8, ReaderStep
<1>7. CASE /\ ~(Len(t.body) + 1 <= Len(s))
           /\ transfer' = [transfer EXCEPT ![u].step = "sent"]
  <2> DEFINE x == [t EXCEPT !.step = "sent"]
  <2>1. transfer' = [transfer EXCEPT ![u] = x]
    BY <1>2, <1>7 DEF FilesTypeOK
  <2>2. /\ x \in Download /\ x.step = "sent" /\ x.size = t.size /\ x.op = "download"
        /\ x.file = f /\ x.body = t.body /\ x.clean = t.clean
    BY <1>2, DownloadSent
  <2> HIDE DEF x
  <2>3. transfer'[u] = x
    BY <1>2, <2>1, GoesOn
  <2>4. ASSUME t.clean PROVE \E v \in Version : Wrote(t.body, v, Size[v]) /\ t.size = Size[v]
    <3>1. \E v \in Version : Wrote(s, v, Size[v])
      BY <1>2, <1>3, <1>5, <2>4 DEF FilesInv, FileSound
    <3>2. Len(t.body) = Len(s)
      BY <1>4, <1>5, <1>7, <2>4
    <3> QED BY <1>5, <2>4, <3>1, <3>2 DEF Wrote
  <2>5. ReaderSound(u)'
    BY <1>1, <2>2, <2>3, <2>4 DEF ReaderSound
  <2> QED BY <1>1, <1>2, <2>1, <2>2, <2>5, ReaderStep
<1>8. \/ /\ Len(t.body) + 1 <= Len(s)
         /\ transfer' = [transfer EXCEPT ![u].body = Append(@, s[Len(t.body) + 1])]
      \/ /\ ~(Len(t.body) + 1 <= Len(s))
         /\ transfer' = [transfer EXCEPT ![u].step = "sent"]
  BY DEF ReadBlock
<1> QED BY <1>6, <1>7, <1>8

LEMMA EndDownloadKeeps ==
  ASSUME FilesInv, NEW u \in User, EndDownload(u)
  PROVE  FilesInv'
<1>1. Close(u) /\ UNCHANGED <<content, rows, torn>> /\ FilesTypeOK /\ \A f \in File : u \notin Uploading(f)
  BY DEF EndDownload, FilesInv, Uploading
<1>2. /\ \A w \in User \ {u} : transfer'[w] = transfer[w]
      /\ transfer' \in [User -> Upload \cup Download \cup {NoTransfer}]
      /\ \A f \in File : Uploading(f)' = Uploading(f)
      /\ WriterSound(u)' /\ ReaderSound(u)'
  BY <1>1, Closed
<1>3. FilesTypeOK'
  BY <1>1, <1>2 DEF FilesTypeOK
<1>4. \A w \in User \ {u} : WriterSound(w)' /\ ReaderSound(w)'
  BY <1>1, <1>2, OthersSound
<1>5. \A f \in File : FileSound(f)'
  BY <1>1, <1>2, UntouchedSound
<1> QED BY <1>2, <1>3, <1>4, <1>5 DEF FilesInv

-----------------------------------------------------------------------------
(* The steps of an upload *)

LEMMA BeginKeeps ==
  ASSUME FilesInv, NEW u \in User, NEW f \in File, NEW v \in Version, BeginUpload(u, f, v)
  PROVE  FilesInv'
<1> DEFINE x == [op |-> "upload", file |-> f, version |-> v, step |-> "open", done |-> 0]
<1>1. x \in Upload /\ x.op = "upload" /\ x.file = f /\ x.version = v /\ x.step = "open" /\ x.done = 0
      /\ x # NoTransfer
  <2>1. x \in Upload
    BY DEF Upload
  <2> QED BY <2>1, FilesAssumption
<1>2. /\ transfer' = [Disturb(f) EXCEPT ![u] = x] /\ transfer[u] = NoTransfer
      /\ torn' = IF Uploading(f) = {} THEN torn \ {f} ELSE torn \cup {f}
      /\ UNCHANGED <<content, rows>> /\ FilesTypeOK
  BY DEF BeginUpload, FilesInv
<1> HIDE DEF x
<1>3. transfer'[u] = x /\ \A w \in User \ {u} : transfer'[w] = Disturb(f)[w]
  BY <1>2 DEF Disturb
<1>4. ASSUME NEW w \in User \ {u}, transfer[w] = NoTransfer \/ transfer[w].op # "download"
             \/ transfer[w].file # f \/ transfer[w].step = "sent"
      PROVE  transfer'[w] = transfer[w]
  BY <1>3, <1>4 DEF Disturb
<1>5. ASSUME NEW w \in User \ {u}, transfer[w] # NoTransfer, transfer[w].op = "download",
             transfer[w].file = f, transfer[w].step # "sent"
      PROVE  /\ transfer'[w] \in Download /\ transfer'[w] # NoTransfer
             /\ transfer'[w].op = "download" /\ transfer'[w].clean = FALSE
             /\ transfer'[w].file = f /\ transfer'[w].size = transfer[w].size
             /\ transfer'[w].body = transfer[w].body /\ transfer'[w].step = transfer[w].step
  <2> PICK r : r = transfer[w]
    OBVIOUS
  <2> DEFINE y == [r EXCEPT !.clean = FALSE]
  <2>1. r \in Download
    BY <1>2, <1>5, TransferKinds
  <2>2. transfer'[w] = y
    BY <1>3, <1>5 DEF Disturb
  <2>3. /\ y \in Download /\ y.clean = FALSE /\ y.op = "download" /\ y.file = r.file
        /\ y.size = r.size /\ y.body = r.body /\ y.step = r.step
    BY <2>1, DownloadDisturbed
  <2> HIDE DEF y
  <2> QED BY <1>5, <2>2, <2>3, FilesAssumption
<1>6. ASSUME NEW w \in User \ {u}
      PROVE  /\ transfer'[w] \in Upload \cup Download \cup {NoTransfer}
             /\ \A g : w \in Uploading(g)' <=> w \in Uploading(g)
  <2>1. CASE \/ transfer[w] = NoTransfer \/ transfer[w].op # "download"
             \/ transfer[w].file # f \/ transfer[w].step = "sent"
    <3>1. transfer'[w] = transfer[w]
      BY <1>4, <2>1
    <3> QED BY <1>2, <3>1 DEF FilesTypeOK, Uploading
  <2>2. CASE /\ transfer[w] # NoTransfer /\ transfer[w].op = "download"
             /\ transfer[w].file = f /\ transfer[w].step # "sent"
    <3>1. transfer'[w] \in Download /\ transfer'[w].op = "download"
      BY <1>5, <2>2
    <3> QED BY <2>2, <3>1 DEF Uploading
  <2> QED BY <2>1, <2>2
<1>7. FilesTypeOK' /\ \A g \in File : Uploading(g)' = IF g = f THEN Uploading(g) \cup {u} ELSE Uploading(g)
  <2>1. \A w \in User : transfer'[w] \in Upload \cup Download \cup {NoTransfer}
    BY <1>1, <1>3, <1>6
  <2>2. transfer' = [w \in User |-> transfer'[w]]
    BY <1>2 DEF Disturb
  <2>3. FilesTypeOK'
    BY <1>2, <2>1, <2>2 DEF FilesTypeOK
  <2>4. ASSUME NEW g \in File
        PROVE  Uploading(g)' = IF g = f THEN Uploading(g) \cup {u} ELSE Uploading(g)
    <3>1. u \notin Uploading(g) /\ (u \in Uploading(g)' <=> g = f)
      BY <1>1, <1>2, <1>3 DEF Uploading
    <3>2. Uploading(g) \subseteq User /\ Uploading(g)' \subseteq User
      BY DEF Uploading
    <3>3. \A w \in User \ {u} : w \in Uploading(g)' <=> w \in Uploading(g)
      BY <1>6
    <3> QED BY <3>1, <3>2, <3>3
  <2> QED BY <2>3, <2>4
<1>8. /\ \A g \in File \ {f} : g \in torn' <=> g \in torn
      /\ f \notin torn' => Uploading(f) = {}
  BY <1>2
<1>9. WriterSound(u)' /\ ReaderSound(u)'
  <2>1. f \notin torn' => Uploading(f)' = {u}
    BY <1>7, <1>8
  <2>2. x.done <= Size[x.version]
    BY <1>1, FilesAssumption
  <2> QED BY <1>1, <1>3, <2>1, <2>2 DEF WriterSound, ReaderSound
<1>10. ASSUME NEW w \in User \ {u} PROVE WriterSound(w)' /\ ReaderSound(w)'
  <2> PICK t : t = transfer[w]
    OBVIOUS
  <2>1. WriterSound(w) /\ ReaderSound(w)
    BY DEF FilesInv
  <2>2. CASE t = NoTransfer
    BY <1>4, <2>2 DEF WriterSound, ReaderSound
  <2>3. ASSUME t # NoTransfer, t.op = "upload" PROVE WriterSound(w)' /\ ReaderSound(w)'
    <3>1. transfer'[w] = t /\ t.file \in File /\ w \in Uploading(t.file)
      BY <1>2, <1>4, <2>3, TransferKinds DEF Uploading
    <3>2. t.file \notin torn' => t.file # f /\ t.file \notin torn /\ Uploading(t.file)' = Uploading(t.file)
      BY <1>7, <1>8, <3>1
    <3> QED BY <1>2, <2>1, <2>3, <3>1, <3>2 DEF WriterSound, ReaderSound
  <2>4. ASSUME t # NoTransfer, t.op = "download" PROVE WriterSound(w)' /\ ReaderSound(w)'
    <3>1. t.file \in File
      BY <1>2, <2>4, TransferKinds
    <3>2. CASE t.file = f /\ t.step # "sent"
      BY <1>2, <1>5, <2>1, <2>4, <3>2 DEF WriterSound, ReaderSound
    <3>3. CASE t.file = f /\ t.step = "sent"
      BY <1>4, <2>1, <2>4, <3>3 DEF WriterSound, ReaderSound
    <3>4. CASE t.file # f
      <4>1. transfer'[w] = t /\ Uploading(t.file)' = Uploading(t.file)
            /\ (t.file \in torn' <=> t.file \in torn)
        BY <1>4, <1>7, <1>8, <3>1, <3>4
      <4> QED BY <1>2, <2>1, <2>4, <4>1 DEF WriterSound, ReaderSound
    <3> QED BY <3>2, <3>3, <3>4
  <2> QED BY <1>2, <2>2, <2>3, <2>4, TransferKinds
<1>11. ASSUME NEW g \in File PROVE FileSound(g)'
  <2>1. CASE g = f
    BY <1>7, <2>1 DEF FileSound
  <2>2. CASE g # f
    BY <1>2, <1>7, <1>8, <2>2, UntouchedSound
  <2> QED BY <2>1, <2>2
<1> QED BY <1>7, <1>9, <1>10, <1>11 DEF FilesInv

(* What holds of a writer before its step. *)
LEMMA WriterFacts ==
  ASSUME FilesInv, NEW u \in User, transfer[u] # NoTransfer, transfer[u].op = "upload"
  PROVE  /\ FilesTypeOK /\ WriterSound(u) /\ transfer[u] \in Upload
         /\ transfer[u].file \in File /\ transfer[u].version \in Version
         /\ \A g \in File : u \in Uploading(g) <=> g = transfer[u].file
<1>1. FilesTypeOK /\ WriterSound(u)
  BY DEF FilesInv
<1>2. transfer[u] \in Upload /\ transfer[u].file \in File
  BY <1>1, TransferKinds
<1>3. transfer[u].version \in Version
  BY <1>2 DEF Upload
<1> QED BY <1>1, <1>2, <1>3 DEF Uploading

(* A step of a writer on its file, which it goes on to upload. *)
LEMMA WriterStep ==
  ASSUME FilesInv, NEW u \in User, NEW x \in Upload, x.op = "upload",
         NEW f \in File, f = x.file, transfer[u] # NoTransfer, transfer[u].op = "upload",
         transfer[u].file = f, transfer' = [transfer EXCEPT ![u] = x],
         NEW s \in Seq(Block), content' = content \/ content' = [content EXCEPT ![f] = s],
         UNCHANGED <<rows, torn>>,
         WriterSound(u)'
  PROVE  FilesInv'
<1>1. FilesTypeOK /\ \A g \in File : u \in Uploading(g) <=> g = f
  BY WriterFacts
<1>2. transfer'[u] = x /\ \A w \in User \ {u} : transfer'[w] = transfer[w]
  BY <1>1, GoesOn
<1>3. FilesTypeOK'
  BY <1>1, <1>2 DEF FilesTypeOK
<1>4. \A g \in File : Uploading(g)' = Uploading(g)
  BY <1>2, FilesAssumption DEF Uploading
<1>5. \A g \in File : \/ content'[g] = content[g]
                      \/ g = f /\ content'[g] # NoFile
  BY <1>1, FilesAssumption DEF FilesTypeOK
<1>6. \A w \in User \ {u} : WriterSound(w)' /\ ReaderSound(w)'
  BY <1>1, <1>2, <1>4, <1>5, OthersSound
<1>7. ReaderSound(u)'
  BY <1>2 DEF ReaderSound
<1>8. ASSUME NEW g \in File PROVE FileSound(g)'
  <2>1. CASE g = f
    BY <1>1, <1>4, <2>1 DEF FileSound
  <2>2. CASE g # f
    BY <1>1, <1>4, <1>5, <2>2, UntouchedSound
  <2> QED BY <2>1, <2>2
<1> QED BY <1>3, <1>6, <1>7, <1>8 DEF FilesInv

LEMMA TruncateKeeps ==
  ASSUME FilesInv, NEW u \in User, OpenForWriting(u)
  PROVE  FilesInv'
<1> PICK t : t = transfer[u]
  OBVIOUS
<1> PICK f : f = t.file
  OBVIOUS
<1> DEFINE x == [t EXCEPT !.step = "write"]
<1>1. /\ t # NoTransfer /\ t.op = "upload" /\ t.step = "open"
      /\ content' = [content EXCEPT ![f] = <<>>]
      /\ transfer' = [transfer EXCEPT ![u].step = "write"]
      /\ UNCHANGED <<rows, torn>>
  BY DEF OpenForWriting, Does, Truncate
<1>2. /\ FilesTypeOK /\ WriterSound(u) /\ t \in Upload /\ f \in File
      /\ \A g \in File : u \in Uploading(g) <=> g = f
  BY <1>1, WriterFacts
<1>3. t.done = 0 /\ t.done <= Size[t.version]
  BY <1>1, <1>2 DEF WriterSound
<1>4. transfer' = [transfer EXCEPT ![u] = x]
  BY <1>1, <1>2 DEF FilesTypeOK
<1>5. /\ x \in Upload /\ x.op = "upload" /\ x.file = f /\ x.step = "write"
      /\ x.version = t.version /\ x.done = t.done
  BY <1>2, UploadStep
<1> HIDE DEF x
<1>6. transfer'[u] = x /\ \A w \in User \ {u} : transfer'[w] = transfer[w]
  BY <1>2, <1>4, GoesOn
<1>7. <<>> \in Seq(Block) /\ <<>> # NoFile
  BY EmptySeq, FilesAssumption
<1>8. content'[f] = <<>>
  BY <1>1, <1>2 DEF FilesTypeOK
<1>9. Uploading(f)' \subseteq Uploading(f)
  BY <1>1, <1>2, <1>6 DEF Uploading
<1>10. WriterSound(u)'
  <2>1. f \notin torn' => \A w \in Uploading(f)' : w = u
    BY <1>1, <1>2, <1>9 DEF WriterSound
  <2>2. Wrote(content'[f], x.version, x.done)
    BY <1>3, <1>5, <1>8 DEF Wrote
  <2> QED BY <1>3, <1>5, <1>6, <1>7, <1>8, <2>1, <2>2 DEF WriterSound
<1> QED BY <1>1, <1>2, <1>4, <1>5, <1>7, <1>10, WriterStep

(* The next block of a version after its beginning. *)
LEMMA PutNext ==
  ASSUME NEW s \in Seq(Block), NEW i \in Nat \ {0}, NEW v \in Version
  PROVE  /\ PutBlock(s, i, v) \in Seq(Block)
         /\ Wrote(s, v, i - 1) => Wrote(PutBlock(s, i, v), v, i)
<1> DEFINE n == IF Len(s) < i THEN i ELSE Len(s)
           e(k) == IF k = i THEN v ELSE IF k <= Len(s) THEN s[k] ELSE Hole
<1>1. Len(s) \in Nat /\ n \in Nat
  BY LenProperties
<1>2. \A k \in 1..n : e(k) \in Block
  BY <1>1, ElementOfSeq DEF Block
<1>3. PutBlock(s, i, v) = [k \in 1..n |-> e(k)]
  BY DEF PutBlock
<1>4. PutBlock(s, i, v) \in Seq(Block)
  <2> HIDE DEF n, e
  <2>1. [k \in 1..n |-> e(k)] \in Seq(Block)
    BY <1>1, <1>2, IsASeq
  <2> QED BY <1>3, <2>1
<1>5. ASSUME Wrote(s, v, i - 1) PROVE Wrote(PutBlock(s, i, v), v, i)
  <2>1. Len(s) = i - 1 /\ \A k \in 1..(i - 1) : s[k] = v
    BY <1>5 DEF Wrote
  <2>2. n = i
    BY <2>1
  <2>3. \A k \in 1..i : e(k) = v
    BY <2>1
  <2>4. Len(PutBlock(s, i, v)) = i
    <3>1. DOMAIN PutBlock(s, i, v) = 1..i
      BY <1>3, <2>2
    <3>2. Len(PutBlock(s, i, v)) \in Nat
          /\ DOMAIN PutBlock(s, i, v) = 1..Len(PutBlock(s, i, v))
      BY <1>4, LenProperties
    <3> HIDE DEF n, e
    <3> QED BY <3>1, <3>2
  <2>5. \A k \in 1..i : PutBlock(s, i, v)[k] = v
    BY <1>3, <2>2, <2>3
  <2> QED BY <2>4, <2>5 DEF Wrote
<1> QED BY <1>4, <1>5

LEMMA BlockKeeps ==
  ASSUME FilesInv, NEW u \in User, WriteBlock(u)
  PROVE  FilesInv'
<1> PICK t : t = transfer[u]
  OBVIOUS
<1> PICK f : f = t.file
  OBVIOUS
<1> PICK s : s = content[f]
  OBVIOUS
<1> DEFINE n == t.done + 1
           x == [t EXCEPT !.done = n]
           p == PutBlock(s, n, t.version)
<1>1. /\ t # NoTransfer /\ t.op = "upload" /\ t.step = "write" /\ n <= Size[t.version]
      /\ content' = [content EXCEPT ![f] = p]
      /\ transfer' = [transfer EXCEPT ![u].done = n]
      /\ UNCHANGED <<rows, torn>>
  BY DEF WriteBlock, Does
<1>2. /\ FilesTypeOK /\ WriterSound(u) /\ t \in Upload /\ f \in File /\ t.version \in Version
      /\ \A g \in File : u \in Uploading(g) <=> g = f
  BY <1>1, WriterFacts
<1>3. t.done \in Nat
  BY <1>2 DEF Upload
<1>4. s \in Seq(Block)
  BY <1>1, <1>2 DEF WriterSound, FilesTypeOK
<1>5. n \in Nat \ {0} /\ n - 1 = t.done
  BY <1>3
<1> HIDE DEF n
<1>6. p \in Seq(Block) /\ (Wrote(s, t.version, t.done) => Wrote(p, t.version, n))
  BY <1>2, <1>4, <1>5, PutNext
<1> HIDE DEF p
<1>7. transfer' = [transfer EXCEPT ![u] = x]
  BY <1>1, <1>2 DEF FilesTypeOK
<1>8. /\ x \in Upload /\ x.op = "upload" /\ x.file = f /\ x.step = "write"
      /\ x.version = t.version /\ x.done = n
  BY <1>1, <1>2, <1>5, UploadDone
<1> HIDE DEF x
<1>9. transfer'[u] = x /\ \A w \in User \ {u} : transfer'[w] = transfer[w]
  BY <1>2, <1>7, GoesOn
<1>10. content'[f] = p /\ p # NoFile
  BY <1>1, <1>2, <1>6, FilesAssumption DEF FilesTypeOK
<1>11. Uploading(f)' \subseteq Uploading(f)
  BY <1>1, <1>2, <1>9 DEF Uploading
<1>12. WriterSound(u)'
  <2>1. f \notin torn' => /\ \A w \in Uploading(f)' : w = u
                          /\ Wrote(p, t.version, n)
    BY <1>1, <1>2, <1>6, <1>11 DEF WriterSound
  <2> QED BY <1>1, <1>8, <1>9, <1>10, <2>1 DEF WriterSound
<1> QED BY <1>1, <1>2, <1>6, <1>7, <1>8, <1>12, WriterStep

(* A writer that is through, or has failed; its file is one whole version, *)
(* or it is torn.                                                          *)
LEMMA WriterCloses ==
  ASSUME FilesInv, NEW u \in User, transfer[u] # NoTransfer, transfer[u].op = "upload",
         NEW f \in File, transfer[u].file = f, Close(u), UNCHANGED content,
         rows' \in [File -> Seq(Version)], \A g \in File \ {f} : rows'[g] = rows[g],
         torn' \in {torn, torn \cup {f}},
         f \notin torn' => \E v \in Version : /\ Wrote(content[f], v, Size[v])
                                              /\ f \in JobFile => /\ rows'[f] # <<>>
                                                                  /\ rows'[f][Len(rows'[f])] = v
  PROVE  FilesInv'
<1>1. FilesTypeOK /\ \A g \in File : u \in Uploading(g) <=> g = f
  BY WriterFacts
<1>2. /\ \A w \in User \ {u} : transfer'[w] = transfer[w]
      /\ transfer' \in [User -> Upload \cup Download \cup {NoTransfer}]
      /\ \A g \in File : Uploading(g)' = Uploading(g) \ {u}
      /\ WriterSound(u)' /\ ReaderSound(u)'
  BY <1>1, Closed
<1>3. FilesTypeOK'
  BY <1>1, <1>2 DEF FilesTypeOK
<1>4. torn \subseteq torn' /\ \A g \in torn' : g \in torn \/ g = f
  OBVIOUS
<1>5. \A w \in User \ {u} : WriterSound(w)' /\ ReaderSound(w)'
  BY <1>1, <1>2, <1>4, OthersSound
<1>6. ASSUME NEW g \in File PROVE FileSound(g)'
  <2>1. CASE g = f
    BY <2>1 DEF FileSound
  <2>2. CASE g # f
    <3>1. Uploading(g)' = Uploading(g)
      <4>1. u \notin Uploading(g)
        BY <1>1, <2>2
      <4>2. Uploading(g)' = Uploading(g) \ {u}
        BY <1>2
      <4> QED BY <4>1, <4>2
    <3> QED BY <1>4, <2>2, <3>1, UntouchedSound
  <2> QED BY <2>1, <2>2
<1> QED BY <1>2, <1>3, <1>5, <1>6 DEF FilesInv

LEMMA EndKeeps ==
  ASSUME FilesInv, NEW u \in User, EndUpload(u)
  PROVE  FilesInv'
<1> PICK t : t = transfer[u]
  OBVIOUS
<1> PICK f : f = t.file
  OBVIOUS
<1>1. /\ t # NoTransfer /\ t.op = "upload" /\ t.step = "write" /\ t.done = Size[t.version]
      /\ UNCHANGED <<content, rows, torn>>
  BY DEF EndUpload, Does
<1>2. /\ FilesTypeOK /\ WriterSound(u) /\ t \in Upload /\ f \in File /\ t.version \in Version
      /\ \A g \in File : u \in Uploading(g) <=> g = f
  BY <1>1, WriterFacts
<1>3. f \notin torn => Wrote(content[f], t.version, Size[t.version])
  BY <1>1, <1>2 DEF WriterSound
<1>4. CASE f \in JobFile /\ transfer' = [transfer EXCEPT ![u].step = "row"]
  <2> DEFINE x == [t EXCEPT !.step = "row"]
  <2>1. transfer' = [transfer EXCEPT ![u] = x]
    BY <1>2, <1>4 DEF FilesTypeOK
  <2>2. /\ x \in Upload /\ x.op = "upload" /\ x.file = f /\ x.step = "row"
        /\ x.version = t.version /\ x.done = t.done
    BY <1>2, UploadStep
  <2> HIDE DEF x
  <2>3. transfer'[u] = x /\ \A w \in User \ {u} : transfer'[w] = transfer[w]
    BY <1>2, <2>1, GoesOn
  <2>4. Uploading(f)' \subseteq Uploading(f)
    BY <1>1, <1>2, <2>3 DEF Uploading
  <2>5. content[f] # NoFile /\ t.done <= Size[t.version]
        /\ (f \notin torn => \A w \in Uploading(f) : w = u)
    BY <1>1, <1>2 DEF WriterSound
  <2>6. WriterSound(u)'
    BY <1>1, <1>3, <1>4, <2>2, <2>3, <2>4, <2>5 DEF WriterSound
  <2>7. <<>> \in Seq(Block)
    BY EmptySeq
  <2> QED BY <1>1, <1>2, <2>1, <2>2, <2>6, <2>7, WriterStep
<1>5. CASE f \notin JobFile /\ Close(u)
  <2>1. rows' \in [File -> Seq(Version)]
    BY <1>1, <1>2 DEF FilesTypeOK
  <2> QED BY <1>1, <1>2, <1>3, <1>5, <2>1, WriterCloses
<1> QED BY <1>4, <1>5 DEF EndUpload

LEMMA InsertKeeps ==
  ASSUME FilesInv, NEW u \in User, InsertFile(u)
  PROVE  FilesInv'
<1> PICK t : t = transfer[u]
  OBVIOUS
<1> PICK f : f = t.file
  OBVIOUS
<1>1. /\ t # NoTransfer /\ t.op = "upload" /\ t.step = "row" /\ Close(u)
      /\ rows' = [rows EXCEPT ![f] = Append(rows[f], t.version)]
      /\ UNCHANGED <<content, torn>>
  BY DEF InsertFile, Does
<1>2. /\ FilesTypeOK /\ WriterSound(u) /\ t \in Upload /\ f \in File /\ t.version \in Version
  BY <1>1, WriterFacts
<1>3. f \notin torn => Wrote(content[f], t.version, Size[t.version])
  BY <1>1, <1>2 DEF WriterSound
<1> DEFINE r == Append(rows[f], t.version)
<1>4. /\ r \in Seq(Version) /\ r # <<>> /\ r[Len(r)] = t.version
  <2>1. rows[f] \in Seq(Version) /\ Len(rows[f]) \in Nat
    BY <1>2, LenProperties DEF FilesTypeOK
  <2>2. r \in Seq(Version) /\ Len(r) = Len(rows[f]) + 1 /\ r[Len(r)] = t.version
    BY <1>2, <2>1, AppendProperties
  <2> HIDE DEF r
  <2>3. r # <<>>
    BY <2>1, <2>2, EmptySeq
  <2> QED BY <2>2, <2>3
<1> HIDE DEF r
<1>5. rows' = [rows EXCEPT ![f] = r]
  BY <1>1 DEF r
<1>6. rows' \in [File -> Seq(Version)] /\ rows'[f] = r /\ \A g \in File \ {f} : rows'[g] = rows[g]
  BY <1>2, <1>4, <1>5 DEF FilesTypeOK
<1> QED BY <1>1, <1>2, <1>3, <1>4, <1>6, WriterCloses

LEMMA AbortKeeps ==
  ASSUME FilesInv, NEW u \in User, AbortUpload(u)
  PROVE  FilesInv'
<1> PICK f : f = transfer[u].file
  OBVIOUS
<1>1. /\ transfer[u] # NoTransfer /\ transfer[u].op = "upload" /\ Close(u)
      /\ torn' = torn \cup {f} /\ UNCHANGED <<content, rows>>
  BY DEF AbortUpload
<1>2. FilesTypeOK /\ f \in File
  BY <1>1, WriterFacts
<1>3. rows' \in [File -> Seq(Version)]
  BY <1>1, <1>2 DEF FilesTypeOK
<1> QED BY <1>1, <1>2, <1>3, WriterCloses

LEMMA TransfersKeep ==
  ASSUME FilesInv, NEW u \in User, TransferStep(u)
  PROVE  FilesInv'
  BY TruncateKeeps, BlockKeeps, EndKeeps, InsertKeeps, AbortKeeps, StatKeeps, ReadKeepsFiles,
     EndDownloadKeeps
  DEF TransferStep

(* When the master stops, the files that are being written are torn. *)
LEMMA StopKeepsFiles ==
  ASSUME FilesInv, transfer' = [u \in User |-> NoTransfer],
         torn' = torn \cup {f \in File : Uploading(f) # {}}, UNCHANGED <<content, rows>>
  PROVE  FilesInv'
<1>1. FilesTypeOK'
  BY DEF FilesInv, FilesTypeOK
<1>2. \A u \in User : WriterSound(u)' /\ ReaderSound(u)'
  BY DEF WriterSound, ReaderSound
<1>3. ASSUME NEW f \in File PROVE FileSound(f)'
  <2>1. CASE f \in torn'
    BY <2>1 DEF FileSound
  <2>2. CASE f \notin torn'
    <3>1. FileSound(f) /\ f \notin torn /\ Uploading(f) = {}
      BY <2>2 DEF FilesInv
    <3> QED BY <3>1 DEF FileSound
  <2> QED BY <2>1, <2>2
<1> QED BY <1>1, <1>2, <1>3 DEF FilesInv

-----------------------------------------------------------------------------
(* The API *)

(* Requests come in while the master is up. *)
LEMMA RequestsWhileUp ==
  ASSUME OneThing, RequestStep
  PROVE  up' = up /\ (~up => UNCHANGED req)
<1>1. ASSUME NEW t \in tokens, Expire(t) PROVE UNCHANGED <<up, req>>
  BY <1>1 DEF Expire
<1>2. ASSUME NEW c \in Client,
             MintToken(c) \/ Refuse(c) \/ ReadTarget(c) \/ CountAdmins(c) \/ WriteRole(c)
      PROVE  up /\ up' = up
  <2>1. req[c] # NoRequest
    BY <1>2 DEF MintToken, Refuse, ReadTarget, CountAdmins, WriteRole, AtStep, Doing
  <2>2. up' = up
    BY <1>2 DEF MintToken, Refuse, ReadTarget, CountAdmins, WriteRole
  <2>3. ~up => req[c] = NoRequest
    BY DEF OneThing, Idle
  <2> QED BY <2>1, <2>2, <2>3, Zenon
<1>3. ASSUME NEW c \in Client, NEW e \in Email,
             \/ Login(c, e)
             \/ \E r \in Role : Register(c, e, r)
             \/ \E t \in tokens, r \in Role : UpdateUserRole(c, t, e, r)
      PROVE  up /\ up' = up
  BY <1>3 DEF Login, Register, UpdateUserRole, Ask
<1> QED BY <1>1, <1>2, <1>3, Zenon DEF RequestStep

LEMMA StepBusy ==
  ASSUME FilesTypeOK, NEW u \in User, TransferStep(u)
  PROVE  transfer[u] # NoTransfer /\ \A w \in User \ {u} : transfer'[w] = transfer[w]
  BY DEF FilesTypeOK, TransferStep, OpenForWriting, WriteBlock, EndUpload, InsertFile, AbortUpload,
         Stat, ReadBlock, EndDownload, Does, Close

LEMMA InvInit == Init => ApiInv
<1> SUFFICES ASSUME Init PROVE ApiInv
  OBVIOUS
<1>1. AccountsInv /\ FilesInv
  BY AccountsInitInv, FilesInitInv DEF Init
<1>2. OneThing
  BY OneRequest DEF Init, AccountsInit, FilesInit, OneThing, Idle
<1> QED BY <1>1, <1>2, UploadsAssumption DEF Init, ApiInv

LEMMA InvNext == ApiInv /\ [Next]_vars => ApiInv'
<1> SUFFICES ASSUME ApiInv, [Next]_vars PROVE ApiInv'
  OBVIOUS
<1> USE OneRequest, UploadsAssumption
<1>1. CASE Stop
  <2>1. AccountsInv'
    BY <1>1, StopKeeps DEF Stop, ApiInv
  <2>2. FilesInv'
    BY <1>1, StopKeepsFiles DEF Stop, ApiInv
  <2>3. OneThing'
    BY <1>1 DEF Stop, StopMaster, OneThing, Idle
  <2> QED BY <1>1, <2>1, <2>2, <2>3 DEF Stop, ApiInv
<1>2. CASE /\ RequestStep
           /\ \A c \in Client : transfer[c] # NoTransfer => req'[c] = NoRequest
           /\ UNCHANGED <<fileVars, uploads>>
  <2>1. AccountsInv'
    BY <1>2, RequestsKeep DEF ApiInv
  <2>2. up' = up /\ (~up => UNCHANGED req)
    BY <1>2, RequestsWhileUp DEF ApiInv
  <2>3. OneThing'
    BY <1>2, <2>2 DEF ApiInv, OneThing, Idle, fileVars
  <2>4. FilesInv'
    BY <1>2 DEF ApiInv, FilesInv, FilesTypeOK, WriterSound, ReaderSound, FileSound, Uploading, fileVars
  <2> QED BY <1>2, <2>1, <2>3, <2>4 DEF ApiInv
<1>3. CASE BootstrapAdmin /\ UNCHANGED <<fileVars, uploads>>
  <2>1. \A c \in Client : Idle(c)
    BY <1>3 DEF ApiInv, OneThing, BootstrapAdmin
  <2>2. AccountsInv'
    BY <1>3, <2>1, BootstrapKeeps DEF ApiInv, Idle
  <2>3. OneThing'
    BY <1>3, <2>1 DEF OneThing, Idle, BootstrapAdmin, fileVars
  <2>4. FilesInv'
    BY <1>3 DEF ApiInv, FilesInv, FilesTypeOK, WriterSound, ReaderSound, FileSound, Uploading, fileVars
  <2> QED BY <1>3, <2>2, <2>3, <2>4 DEF ApiInv
<1>4. ASSUME UNCHANGED accountVars PROVE AccountsInv'
  BY <1>4 DEF ApiInv, AccountsInv, AccountsTypeOK, AdminsAreMade, RequestSound, AdminRemains,
              DemotionSound, Admins, AtStep, Doing, accountVars
<1>5. ASSUME NEW u \in User, NEW f \in File, DownloadWorker(u, f) PROVE ApiInv'
  <2>1. OpenForReading(u, f) /\ UNCHANGED <<accountVars, uploads>> /\ up /\ Idle(u)
    BY <1>5 DEF DownloadWorker
  <2>2. FilesInv'
    BY <2>1, OpenKeeps DEF ApiInv
  <2>3. \A w \in User \ {u} : transfer'[w] = transfer[w]
    BY <2>1 DEF OpenForReading, ApiInv, FilesInv, FilesTypeOK
  <2>4. OneThing'
    BY <2>1, <2>3 DEF ApiInv, OneThing, Idle, accountVars
  <2> QED BY <1>4, <2>1, <2>2, <2>4 DEF ApiInv
<1>6. ASSUME NEW u \in User, NEW f \in File, NEW t \in tokens, NEW v \in Version,
             UploadFile(u, t, f, v)
      PROVE  ApiInv'
  <2>1. /\ BeginUpload(u, f, v) /\ UNCHANGED accountVars /\ up /\ Idle(u)
        /\ uploads < MaxUploads /\ uploads' = uploads + 1
    BY <1>6 DEF UploadFile
  <2>2. FilesInv'
    BY <2>1, BeginKeeps DEF ApiInv
  <2>3. \A w \in User \ {u} : transfer[w] = NoTransfer => transfer'[w] = NoTransfer
    BY <2>1 DEF BeginUpload, Disturb
  <2>4. OneThing'
    BY <2>1, <2>3 DEF ApiInv, OneThing, Idle, accountVars
  <2>5. uploads' \in 0..MaxUploads
    BY <2>1 DEF ApiInv
  <2> QED BY <1>4, <2>1, <2>2, <2>4, <2>5 DEF ApiInv
<1>7. ASSUME NEW u \in User, TransferStep(u), UNCHANGED <<accountVars, uploads>> PROVE ApiInv'
  <2>1. FilesInv'
    BY <1>7, TransfersKeep DEF ApiInv
  <2>2. transfer[u] # NoTransfer /\ \A w \in User \ {u} : transfer'[w] = transfer[w]
    BY <1>7, StepBusy DEF ApiInv, FilesInv
  <2>3. OneThing'
    BY <1>7, <2>2 DEF ApiInv, OneThing, Idle, accountVars
  <2> QED BY <1>4, <1>7, <2>1, <2>3 DEF ApiInv
<1>8. CASE UNCHANGED vars
  <2>1. UNCHANGED accountVars /\ UNCHANGED fileVars /\ uploads' = uploads
    BY <1>8 DEF vars
  <2>2. FilesInv'
    BY <2>1 DEF ApiInv, FilesInv, FilesTypeOK, WriterSound, ReaderSound, FileSound, Uploading, fileVars
  <2>3. OneThing'
    BY <2>1 DEF ApiInv, OneThing, Idle, accountVars, fileVars
  <2> QED BY <1>4, <2>1, <2>2, <2>3 DEF ApiInv
<1> QED BY <1>1, <1>2, <1>3, <1>5, <1>6, <1>7, <1>8 DEF Next

(* The invariant that the others follow from. *)
LEMMA ApiInvariant == Spec => []ApiInv
  BY InvInit, InvNext, PTL DEF Spec

(* The variables of the API keep their types; a connection does one thing  *)
(* at a time, and none while the master is down.                           *)
THEOREM ApiTyping == Spec => []TypeOK
<1>1. ApiInv => TypeOK
  BY DEF ApiInv, AccountsInv, FilesInv, OneThing, TypeOK
<1> QED BY <1>1, ApiInvariant, PTL

(* Administrators, and tokens with their role, are of those who were made  *)
(* administrators: however roles, logins, worker tokens, restarts and      *)
(* concurrent updates interleave, registering is no way to become one.     *)
THEOREM MadeAdmins == Spec => []AdminsAreMade
<1>1. ApiInv => AdminsAreMade
  BY DEF ApiInv, AccountsInv
<1> QED BY <1>1, ApiInvariant, PTL

(* The check of update_user_role keeps an administrator, with any number   *)
(* of users and stale tokens, until two updates of roles overlap.          *)
THEOREM LastAdmin == Spec => []AdminRemains
<1>1. ApiInv => AdminRemains
  BY DEF ApiInv, AccountsInv
<1> QED BY <1>1, ApiInvariant, PTL

(* A sequence whose blocks are all of one version is that version. *)
LEMMA WroteAll ==
  ASSUME NEW s \in Seq(Block), NEW v \in Version, Wrote(s, v, Size[v])
  PROVE  s = Whole(v)
<1>1. Len(s) = Size[v] /\ \A i \in 1..Size[v] : s[i] = v
  BY DEF Wrote
<1>2. s = [i \in 1..Len(s) |-> s[i]]
  BY LenProperties
<1> QED BY <1>1, <1>2 DEF Whole

(* A file that no failed or overlapping upload has torn is one whole       *)
(* version, the one its latest row says, and so is what is downloaded      *)
(* while no upload of the file goes on.                                    *)
THEOREM WholeFiles == Spec => []WholeUnlessOverlap
<1>1. ApiInv => WholeUnlessOverlap
  <2> SUFFICES ASSUME ApiInv PROVE WholeUnlessOverlap
    OBVIOUS
  <2>1. FilesTypeOK
    BY DEF ApiInv, FilesInv
  <2>2. ASSUME NEW f \in File, f \notin torn, Uploading(f) = {}, content[f] # NoFile
        PROVE  \E v \in Version : /\ content[f] = Whole(v)
                                  /\ f \in JobFile => rows[f] # <<>> /\ rows[f][Len(rows[f])] = v
    <3>1. content[f] \in Seq(Block)
      BY <2>1, <2>2 DEF FilesTypeOK
    <3>2. FileSound(f)
      BY DEF ApiInv, FilesInv
    <3> QED BY <2>2, <3>1, <3>2, WroteAll DEF FileSound
  <2>3. ASSUME NEW u \in User, Does(u, "download", "sent"), transfer[u].clean
        PROVE  \E v \in Version : transfer[u].body = Whole(v) /\ transfer[u].size = Size[v]
    <3>1. transfer[u] # NoTransfer /\ transfer[u].op = "download" /\ transfer[u].step = "sent"
      BY <2>3 DEF Does
    <3>2. transfer[u] \in Download
      BY <2>1, <3>1, TransferKinds
    <3>3. transfer[u].body \in Seq(Block)
      BY <3>2 DEF Download
    <3>4. ReaderSound(u)
      BY DEF ApiInv, FilesInv
    <3> QED BY <2>3, <3>1, <3>3, <3>4, WroteAll DEF ReaderSound
  <2> QED BY <2>2, <2>3 DEF WholeUnlessOverlap
<1> QED BY <1>1, ApiInvariant, PTL
=============================================================================
