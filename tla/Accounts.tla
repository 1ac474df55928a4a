------------------------------ MODULE Accounts ------------------------------
(***************************************************************************)
(* Users, roles and tokens of the master (api/auth.rs, api/admin.rs,       *)
(* db/users.rs, bootstrap_admin of main.rs).  A handler is a request in    *)
(* `req', between the queries it awaits.  Who may do what is decided by    *)
(* the role inside the token, which nobody compares with the row again.    *)
(***************************************************************************)
EXTENDS Integers, FiniteSets

CONSTANTS Email,       \* emails, and so users: users.email is unique
          AdminEmail,  \* ADMIN_EMAIL
          SelfRole,    \* roles that users register with, of "hirer", "worker", "both"
          Client,      \* requests that may be in progress at a time
          MaxTokens,   \* bound on the claims that are valid at a time
          NoRequest

VARIABLES up,       \* the API is served: bootstrap_admin is over
          role,     \* users.role, "none" without a row
          tokens,   \* the claims that some valid token carries
          req,      \* the request of a client
          wasAdmin, \* history: who was made an administrator
          overlap   \* history: two role updates overlapped

ASSUME AccountsAssumption ==
    /\ IsFiniteSet(Email) /\ AdminEmail \in Email
    /\ SelfRole \subseteq {"hirer", "worker", "both"}

accountVars == <<up, role, tokens, req, wasAdmin, overlap>>

Role == SelfRole \cup {"admin"}
Token == [sub : Email, role : Role]
Admins == {e \in Email : role[e] = "admin"}

Request == [op : {"register", "login"}, user : Email, role : Role]
           \cup [op : {"role"}, step : {"read", "count", "write"}, user : Email, role : Role]

ASSUME NoRequestAssumption == NoRequest \notin Request

AccountsInit == /\ up = FALSE
                /\ role = [e \in Email |-> "none"]
                /\ tokens = {}
                /\ req = [c \in Client |-> NoRequest]
                /\ wasAdmin = {} /\ overlap = FALSE

AccountsTypeOK == /\ up \in BOOLEAN
                  /\ role \in [Email -> Role \cup {"none"}]
                  /\ tokens \subseteq Token
                  /\ req \in [Client -> Request \cup {NoRequest}]
                  /\ wasAdmin \subseteq Email
                  /\ overlap \in BOOLEAN

Ask(c, r) == up /\ req[c] = NoRequest /\ req' = [req EXCEPT ![c] = r]
Answer(c) == req' = [req EXCEPT ![c] = NoRequest]
Doing(c, op) == req[c] # NoRequest /\ req[c].op = op
AtStep(c, step) == Doing(c, "role") /\ req[c].step = step
Goto(c, step) == req' = [req EXCEPT ![c].step = step]

-----------------------------------------------------------------------------
(* Start-up, before the API is served.  An existing row is left alone,     *)
(* whatever its role; an error is logged and the master goes on.           *)
BootstrapAdmin == /\ ~up
                  /\ up' = TRUE
                  /\ \/ /\ role[AdminEmail] = "none"
                        /\ role' = [role EXCEPT ![AdminEmail] = "admin"]
                        /\ wasAdmin' = wasAdmin \cup {AdminEmail}
                     \/ UNCHANGED <<role, wasAdmin>>
                  /\ UNCHANGED <<tokens, req, overlap>>

(* Mutant: the requests in progress go on. *)
StopGently == /\ up
              /\ up' = FALSE
              /\ UNCHANGED <<role, tokens, req, wasAdmin, overlap>>

(* The requests in progress are gone; the tokens are as good as before. *)
StopMaster == /\ up
              /\ up' = FALSE
              /\ req' = [c \in Client |-> NoRequest]
              /\ UNCHANGED <<role, tokens, wasAdmin, overlap>>

-----------------------------------------------------------------------------
(* Registration, login and what they mint. *)

(* Mutant: any role of the table may be registered. *)
AllowedAny(r) == r \in Role

Allowed(r) == r \in SelfRole

(* The INSERT fails if the email is taken. *)
Register(c, e, r) == /\ Allowed(r)
                     /\ role[e] = "none"
                     /\ role' = [role EXCEPT ![e] = r]
                     /\ Ask(c, [op |-> "register", user |-> e, role |-> r])
                     /\ UNCHANGED <<up, tokens, wasAdmin, overlap>>

Login(c, e) == /\ role[e] # "none"
               /\ Ask(c, [op |-> "login", user |-> e, role |-> role[e]])
               /\ UNCHANGED <<up, role, tokens, wasAdmin, overlap>>

Hand(t) == /\ Cardinality(tokens) < MaxTokens
           /\ tokens' = tokens \cup {t}

(* The role is the one that was written or read: it may have changed. *)
MintToken(c) == /\ Doing(c, "register") \/ Doing(c, "login")
                /\ Hand([sub |-> req[c].user, role |-> req[c].role])
                /\ Answer(c)
                /\ UNCHANGED <<up, role, wasAdmin, overlap>>

(* The balance row cannot be written, or the password is wrong. *)
Refuse(c) == /\ Doing(c, "register") \/ Doing(c, "login")
             /\ Answer(c)
             /\ UNCHANGED <<up, role, tokens, wasAdmin, overlap>>

(* The last token with these claims expires: one of a day from a login, or  *)
(* one of seven days in a setup script, which repeats the claims of the     *)
(* token that the script was asked for with.                                *)
Expire(t) == /\ t \in tokens
             /\ tokens' = tokens \ {t}
             /\ UNCHANGED <<up, role, req, wasAdmin, overlap>>

-----------------------------------------------------------------------------
(* update_user_role *)

IsAdmin(t) == t \in tokens /\ t.role = "admin"

UpdateUserRole(c, t, e, r) ==
    /\ IsAdmin(t)
    /\ t.sub = e => r = "admin"     \* nobody demotes himself
    /\ Ask(c, [op |-> "role", step |-> IF r = "admin" THEN "write" ELSE "read",
               user |-> e, role |-> r])
    /\ UNCHANGED <<up, role, tokens, wasAdmin, overlap>>

ReadTarget(c) == /\ AtStep(c, "read")
                 /\ \/ role[req[c].user] = "none" /\ Answer(c)
                    \/ role[req[c].user] = "admin" /\ Goto(c, "count")
                    \/ role[req[c].user] \in SelfRole /\ Goto(c, "write")
                 /\ UNCHANGED <<up, role, tokens, wasAdmin, overlap>>

(* Mutant: the last administrator is not protected. *)
EnoughAny == Admins # {}

Enough == Cardinality(Admins) > 1

CountAdmins(c) == /\ AtStep(c, "count")
                  /\ IF Enough THEN Goto(c, "write") ELSE Answer(c)
                  /\ UNCHANGED <<up, role, tokens, wasAdmin, overlap>>

(* The UPDATE, whatever has become of the target and of the others.  *)
WriteRole(c) ==
    /\ AtStep(c, "write")
    /\ LET e == req[c].user  r == req[c].role IN
       /\ role' = IF role[e] = "none" THEN role ELSE [role EXCEPT ![e] = r]
       /\ wasAdmin' = IF role'[e] = "admin" THEN wasAdmin \cup {e} ELSE wasAdmin
    /\ overlap' = (overlap \/ \E d \in Client \ {c} : AtStep(d, "count") \/ AtStep(d, "write"))
    /\ Answer(c)
    /\ UNCHANGED <<up, tokens>>

RequestStep ==
    \/ \E t \in tokens : Expire(t)
    \/ \E c \in Client :
         \/ \E e \in Email : \/ Login(c, e)
                             \/ \E r \in Role : Register(c, e, r)
                             \/ \E t \in tokens, r \in Role : UpdateUserRole(c, t, e, r)
         \/ MintToken(c) \/ Refuse(c)
         \/ ReadTarget(c) \/ CountAdmins(c) \/ WriteRole(c)

-----------------------------------------------------------------------------
(* Once there was an administrator there is always one, if no two updates  *)
(* of roles overlap: each of two concurrent ones may count the other's     *)
(* target.  What is in a token, however old, makes no difference.          *)
AdminRemains == wasAdmin # {} /\ ~overlap => Admins # {}

(* Nobody acts as an administrator who was not made one by the start-up or *)
(* by another administrator: not by registering, nor by a role that was    *)
(* read before, a token for a worker, or a restart.                        *)
AdminsAreMade == /\ Admins \subseteq wasAdmin
                 /\ \A t \in tokens : t.role = "admin" => t.sub \in wasAdmin

(* Why these hold: a role that a handler carries along is one the user had *)
(* when it was read;                                                       *)
RequestSound ==
    \A c \in Client : /\ Doing(c, "register") \/ Doing(c, "login")
                      /\ req[c].role = "admin"
                      => req[c].user \in wasAdmin

(* and what the guard of a demotion saw is still true when it is written.  *)
DemotionSound ==
    ~overlap => \A c \in Client : AtStep(c, "write") /\ req[c].role # "admin" =>
                  \/ role[req[c].user] # "admin"
                  \/ \E a \in Admins : a # req[c].user

AccountsInv == /\ AccountsTypeOK
               /\ AdminsAreMade /\ RequestSound
               /\ AdminRemains /\ DemotionSound
=============================================================================
