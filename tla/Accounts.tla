------------------------------ MODULE Accounts ------------------------------
(***************************************************************************)
(* Tenants, users and logins (services/identity, services/auth).  A login  *)
(* looks up its tenant and then its user, a request decodes its token and  *)
(* then looks up the user; tenants and users are disabled and passwords    *)
(* reset between those awaited queries.  Tokens are never revoked: what    *)
(* keeps a disabled user out is the lookup alone.                          *)
(***************************************************************************)
EXTENDS Naturals, FiniteSets

CONSTANTS
    Users,              \* bound: the ids of users
    UserNames,
    Passwords,
    AccountCalls,       \* bound: logins, requests, creations and resets
    LIFETIME,           \* ACCESS_TOKEN_EXPIRE_MINUTES
    MaxClock            \* bound: time

ASSUME AccountConstants == Users # {} /\ UserNames # {} /\ Passwords # {} /\ MaxClock \in Nat

VARIABLES
    tenant,             \* "absent", "active" or "disabled"
    user,               \* existing user -> its name, password and whether it is disabled
    tokens,             \* the tokens issued: user, expiry, and the conditions its login met
    account,            \* call -> what it does and how far it is
    served,             \* the requests accepted, with whether the user was live when they began
    clock

accountVars == <<tenant, user, tokens, account, served, clock>>

Accounts == DOMAIN user
Unused == [pc |-> "unused"]
Finished == [pc |-> "finished"]
\* create_tenant stores the code in lower case; lookups take it as it is spelt.
Lower(code) == "acme"
Spellings == {"acme", "ACME"}

FirstUser == CHOOSE u \in Users : TRUE

\* An empty system, or one that has run and has a user.
AccountInit ==
    /\ \/ tenant = "absent" /\ user = <<>>
       \/ /\ tenant = "active"
          /\ user = [u \in {FirstUser} |-> [name |-> CHOOSE n \in UserNames : TRUE,
                                           password |-> CHOOSE p \in Passwords : TRUE, live |-> TRUE]]
    /\ tokens = {} /\ served = {} /\ clock = 0
    /\ account = [c \in AccountCalls |-> Unused]

\* Which of a login's conditions hold now.
Grounds(ten, accounts, name, password) ==
    {g \in {"tenant"} : ten = "active"} \cup
    {g \in {"user"} : \E u \in DOMAIN accounts :
        accounts[u].name = name /\ accounts[u].password = password /\ accounts[u].live}

\* A change of the tables: logins on their way remember which conditions it fulfils.
Change(ten, accounts) ==
    /\ tenant' = ten /\ user' = accounts
    /\ UNCHANGED <<tokens, served, clock>>
Witness(c, ten, accounts) ==
    IF account[c].pc \notin {"tenant", "user"} THEN account[c]
    ELSE [account[c] EXCEPT !.earned = @ \cup Grounds(ten, accounts, account[c].name, account[c].password)]
Witnesses(ten, accounts) == account' = [c \in AccountCalls |-> Witness(c, ten, accounts)]
-----------------------------------------------------------------------------
\* create_tenant: the lookup and the insert, which the unique code decides.
CreateTenant(code) ==
    /\ ~(tenant = "active" /\ code = "acme")
    /\ LET ten == IF tenant = "absent" THEN "active" ELSE tenant
       IN Change(ten, user) /\ Witnesses(ten, user)
DisableTenant ==
    /\ tenant = "active" /\ Change("disabled", user) /\ Witnesses("disabled", user)

\* create_user finds no live user of the name, and then inserts; the unique
\* constraint counts disabled users.
CheckUserName(c, u, name, password) ==
    /\ account[c] = Unused /\ tenant # "absent" /\ u \notin Accounts
    /\ ~\E v \in Accounts : user[v].name = name /\ user[v].live
    /\ account' = [account EXCEPT ![c] = [pc |-> "insert", id |-> u, name |-> name, password |-> password]]
    /\ UNCHANGED <<tenant, user, tokens, served, clock>>
InsertUser(c) ==
    /\ account[c].pc = "insert"
    /\ LET id == account[c].id
           refused == id \in Accounts \/ \E v \in Accounts : user[v].name = account[c].name
           row == [name |-> account[c].name, password |-> account[c].password, live |-> TRUE]
           accounts == IF refused THEN user ELSE [v \in Accounts \cup {id} |-> IF v = id THEN row ELSE user[v]]
       IN /\ Change(tenant, accounts)
          /\ account' = [d \in AccountCalls |-> IF d = c THEN Finished ELSE Witness(d, tenant, accounts)]

\* reset_password reads the user, who must be live, and writes the new hash.
ReadUserForReset(c, u, password) ==
    /\ account[c] = Unused /\ u \in Accounts /\ user[u].live
    /\ account' = [account EXCEPT ![c] = [pc |-> "reset", id |-> u, password |-> password]]
    /\ UNCHANGED <<tenant, user, tokens, served, clock>>
ResetPassword(c) ==
    /\ account[c].pc = "reset"
    /\ LET accounts == [user EXCEPT ![account[c].id].password = account[c].password]
       IN /\ Change(tenant, accounts)
          /\ account' = [d \in AccountCalls |-> IF d = c THEN Finished ELSE Witness(d, tenant, accounts)]

DisableUser(u) ==
    /\ u \in Accounts /\ user[u].live
    /\ LET accounts == [user EXCEPT ![u].live = FALSE] IN Change(tenant, accounts) /\ Witnesses(tenant, accounts)

\* login: the tenant, found by its code as it is spelt.
Login(c, code, name, password) ==
    /\ account[c] = Unused
    /\ account' = [account EXCEPT ![c] = [pc |-> "tenant", code |-> code, name |-> name, password |-> password,
                                          earned |-> Grounds(tenant, user, name, password)]]
    /\ UNCHANGED <<tenant, user, tokens, served, clock>>
FindTenant(c) ==
    /\ account[c].pc = "tenant"
    /\ account' = [account EXCEPT ![c] =
            IF @.code = "acme" /\ tenant = "active" THEN [@ EXCEPT !.pc = "user"] ELSE Finished]
    /\ UNCHANGED <<tenant, user, tokens, served, clock>>

\* The user of the name, the password check and the token.
CreateAccessToken(c, u) == [user |-> u, until |-> clock + LIFETIME, earned |-> account[c].earned]
FindUser(c) ==
    /\ account[c].pc = "user"
    /\ LET found == {u \in Accounts : user[u].name = account[c].name /\ user[u].live
                                      /\ user[u].password = account[c].password}
       IN tokens' = tokens \cup {CreateAccessToken(c, u) : u \in found}
    /\ account' = [account EXCEPT ![c] = Finished]
    /\ UNCHANGED <<tenant, user, served, clock>>

\* A request: _extract_user_id refuses an expired token, get_current_user
\* then asks for the user; the tenant's state is not asked.
ExtractUserId(c, token) ==
    /\ account[c] = Unused /\ clock <= token.until
    /\ account' = [account EXCEPT ![c] = [pc |-> "request", id |-> token.user, live |-> user[token.user].live]]
    /\ UNCHANGED <<tenant, user, tokens, served, clock>>
GetCurrentUser(c) ==
    /\ account[c].pc = "request"
    /\ served' = IF user[account[c].id].live
                 THEN served \cup {[user |-> account[c].id, live |-> account[c].live]} ELSE served
    /\ account' = [account EXCEPT ![c] = Finished]
    /\ UNCHANGED <<tenant, user, tokens, clock>>

ClockAdvances ==
    /\ clock < MaxClock /\ clock' = clock + 1
    /\ UNCHANGED <<tenant, user, tokens, account, served>>

AccountNext ==
    \/ \E code \in Spellings : CreateTenant(code)
    \/ DisableTenant \/ ClockAdvances
    \/ \E u \in Users : DisableUser(u)
    \/ \E c \in AccountCalls, u \in Users, p \in Passwords :
           ReadUserForReset(c, u, p) \/ \E n \in UserNames : CheckUserName(c, u, n, p)
    \/ \E c \in AccountCalls, code \in Spellings, n \in UserNames, p \in Passwords : Login(c, code, n, p)
    \/ \E c \in AccountCalls, t \in tokens : ExtractUserId(c, t)
    \/ \E c \in AccountCalls : \/ InsertUser(c) \/ ResetPassword(c)
                               \/ FindTenant(c) \/ FindUser(c) \/ GetCurrentUser(c)
-----------------------------------------------------------------------------
AccountTypeOK ==
    /\ tenant \in {"absent", "active", "disabled"} /\ Accounts \subseteq Users
    /\ \A u \in Accounts : user[u] \in [name : UserNames, password : Passwords, live : BOOLEAN]
    /\ \A c \in AccountCalls :
           account[c].pc \in {"unused", "insert", "reset", "tenant", "user", "request", "finished"}
    /\ clock \in 0..MaxClock

\* Every token was earned: during its login the tenant was active at one
\* moment, and at one moment a live user of that name had that password.  (Not
\* necessarily the same moment: the two are looked up one after the other.)
LoginsAreEarned == \A t \in tokens : t.earned = {"tenant", "user"}

\* A user who was disabled before a request began is not served, whatever
\* tokens and password resets are still on their way.
DisabledStaysOut == \A r \in served : r.live
=============================================================================
