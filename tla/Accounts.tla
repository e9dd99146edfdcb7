------------------------------- MODULE Accounts -------------------------------
(***************************************************************************)
(* Accounts, tokens and tenants (routers/auth.py, tenant_middleware.py):   *)
(* registration, login, and a request that carries a token.                *)
(*                                                                         *)
(* Two parts of the program say which tenant a request belongs to.  The    *)
(* middleware reads it from the token, also from an expired one, and else  *)
(* from a header; get_current_user takes the name from the token, refuses  *)
(* an expired one, and reads the tenant from the user's row.               *)
(*                                                                         *)
(* A password is what bcrypt keeps of it.  Roles are left out: the program *)
(* hands them on and decides nothing by them.                              *)
(***************************************************************************)
EXTENDS Naturals, FiniteSets

CONSTANTS
    Requests,
    Users, Emails, Passwords,   \* usernames, addresses and passwords
    Tenants,     \* the rows of the table tenants, which no request changes
    Default,     \* the tenant with the zero id, one of them (init.sql)
    Unknown,     \* a well-formed id of no tenant
    Malformed,   \* what is no id at all
    NoTenant,    \* no tenant given, or no header
    Blank,       \* the empty text in its place
    NoUser, NoToken,
    Unreadable,  \* a token that was signed with another key
    MaxFaults    \* bound on the failures of the database

Given == Tenants \cup {Unknown, Malformed, NoTenant, Blank}

(* by: the registration that stored the row, for the properties *)
Row == [email : Emails, password : Passwords, tenant : Tenants, by : Requests]
Token == [name : Users, tenant : Tenants]

ASSUME AccountsAssumption ==
    /\ Default \in Tenants
    /\ {Unknown, Malformed, NoTenant, Blank} \cap Tenants = {}
    /\ NoTenant \notin {Unknown, Malformed, Blank}
    /\ Malformed \notin {Unknown, Blank} /\ Unknown # Blank
    /\ {NoToken, Unreadable} \cap Requests = {}
    /\ NoToken # Unreadable
    /\ NoUser \notin Row /\ NoToken \notin Token
    /\ MaxFaults \in Nat

VARIABLES
    users,      \* the table users, by its unique username
    call,       \* what each request asks
    pc,         \* its next step
    told,       \* its answer
    token,      \* the token each login was given
    expired,    \* the logins whose token has expired
    bearer,     \* the token a request carries: the login that was given it
    resolved,   \* request.state.tenant_id, set by the middleware
    served,     \* the tenant of the current user
    hit         \* the requests hit by a failure of the database

vars == <<users, call, pc, told, token, expired, bearer, resolved, served, hit>>

NoCall == [kind |-> "none"]
CallType ==
    [kind : {"register"}, name : Users, email : Emails, password : Passwords, tenant : Given]
        \cup [kind : {"login"}, name : Users, password : Passwords]
        \cup [kind : {"me"}, header : Given]
Labels == {"idle", "check", "store", "answer", "verify", "decode", "user", "done"}
Answers == {"none", "ok", "exists", "malformed", "denied", "error"}

At(r, label) == pc[r] = label
Goto(r, label) == pc' = [pc EXCEPT ![r] = label]
End(r, answer) ==
    /\ Goto(r, "done")
    /\ told' = [told EXCEPT ![r] = answer]

Fault(r) ==
    /\ Cardinality(hit) < MaxFaults
    /\ hit' = hit \cup {r}

Init ==
    /\ users = [n \in Users |-> NoUser]
    /\ call = [r \in Requests |-> NoCall]
    /\ pc = [r \in Requests |-> "idle"]
    /\ told = [r \in Requests |-> "none"]
    /\ token = [r \in Requests |-> NoToken]
    /\ expired = {}
    /\ bearer = [r \in Requests |-> NoToken]
    /\ resolved = [r \in Requests |-> NoTenant]
    /\ served = [r \in Requests |-> NoTenant]
    /\ hit = {}
-----------------------------------------------------------------------------
(* TenantMiddleware *)
Issued == {l \in Requests : token[l] # NoToken}

(* Mutant of Resolve: the header goes before the token *)
ResolveHeader(b, header) ==
    IF header \in Tenants \cup {Unknown} THEN header
    ELSE IF b \in Issued THEN token[b].tenant
    ELSE Default

(* _extract_tenant_id: the token, without asking whether it has expired; then
   the header, if it can be read; then the default *)
Resolve(b, header) ==
    IF b \in Issued THEN token[b].tenant
    ELSE IF header \in Tenants \cup {Unknown} THEN header
    ELSE Default

Start(r, c, b, header, label) ==
    /\ At(r, "idle")
    /\ call' = [call EXCEPT ![r] = c]
    /\ bearer' = [bearer EXCEPT ![r] = b]
    /\ resolved' = [resolved EXCEPT ![r] = Resolve(b, header)]
    /\ Goto(r, label)
    /\ UNCHANGED <<users, told, token, expired, served, hit>>

OpenRegister(r) ==
    \E n \in Users, e \in Emails, p \in Passwords, t \in Given :
        Start(r, [kind |-> "register", name |-> n, email |-> e, password |-> p, tenant |-> t],
              NoToken, NoTenant, "check")

OpenLogin(r) ==
    \E n \in Users, p \in Passwords :
        Start(r, [kind |-> "login", name |-> n, password |-> p], NoToken, NoTenant, "verify")

OpenMe(r) ==
    \E b \in Issued \cup {NoToken, Unreadable}, h \in Given :
        Start(r, [kind |-> "me", header |-> h], b, h, "decode")
-----------------------------------------------------------------------------
(* register *)
quiet == UNCHANGED <<call, token, expired, bearer, resolved, served>>

(* The name is looked up, then the tenant's id is read *)
CheckName(r) ==
    /\ At(r, "check")
    /\ IF users[call[r].name] # NoUser THEN End(r, "exists")
       ELSE IF call[r].tenant = Malformed THEN End(r, "malformed")
       ELSE Goto(r, "store") /\ UNCHANGED told
    /\ quiet
    /\ UNCHANGED <<users, hit>>

TenantOf(c) == IF c.tenant \in {NoTenant, Blank} THEN Default ELSE c.tenant

(* Mutant of Refused: the name was looked up already *)
RefusedNot(c) ==
    \/ \E n \in Users : users[n] # NoUser /\ users[n].email = c.email
    \/ TenantOf(c) \notin Tenants

(* A unique column or the foreign key refuses the row *)
Refused(c) ==
    \/ users[c.name] # NoUser
    \/ \E n \in Users : users[n] # NoUser /\ users[n].email = c.email
    \/ TenantOf(c) \notin Tenants

Inserted(r) ==
    [users EXCEPT ![call[r].name] =
        [email |-> call[r].email, password |-> call[r].password,
         tenant |-> TenantOf(call[r]), by |-> r]]

(* INSERT and COMMIT; an IntegrityError is nobody's: the answer is 500 *)
Store(r) ==
    /\ At(r, "store")
    /\ IF Refused(call[r])
       THEN End(r, "error") /\ UNCHANGED users
       ELSE /\ users' = Inserted(r)
            /\ Goto(r, "answer")
            /\ UNCHANGED told
    /\ quiet
    /\ UNCHANGED hit

(* The connection is lost before the commit, or with its reply *)
StoreFails(r) ==
    /\ At(r, "store")
    /\ Fault(r)
    /\ End(r, "error")
    /\ \/ UNCHANGED users
       \/ ~Refused(call[r]) /\ users' = Inserted(r)
    /\ quiet

(* The row is read back and the answer built, from the tenant that was given: the
   response needs one, and raises when none was, with the account stored *)
AnswerRegister(r) ==
    /\ At(r, "answer")
    /\ End(r, IF call[r].tenant = NoTenant THEN "error" ELSE "ok")
    /\ quiet
    /\ UNCHANGED <<users, hit>>
-----------------------------------------------------------------------------
(* login: authenticate_user, and a token with the row's tenant *)
Authentic(n, p) == users[n] # NoUser /\ users[n].password = p

Login(r) ==
    /\ At(r, "verify")
    /\ LET c == call[r] IN
        IF Authentic(c.name, c.password)
        THEN /\ token' = [token EXCEPT ![r] = [name |-> c.name, tenant |-> users[c.name].tenant]]
             /\ End(r, "ok")
        ELSE UNCHANGED token /\ End(r, "denied")
    /\ UNCHANGED <<users, call, expired, bearer, resolved, served, hit>>

(* ACCESS_TOKEN_EXPIRE_MINUTES pass *)
Expire(l) ==
    /\ l \in Issued \ expired
    /\ expired' = expired \cup {l}
    /\ UNCHANGED <<users, call, pc, told, token, bearer, resolved, served, hit>>
-----------------------------------------------------------------------------
(* get_current_user *)
Valid(b) == b \in Issued /\ b \notin expired

Decode(r) ==
    /\ At(r, "decode")
    /\ IF Valid(bearer[r]) THEN Goto(r, "user") /\ UNCHANGED told
                           ELSE End(r, "denied")
    /\ quiet
    /\ UNCHANGED <<users, hit>>

(* The tenant of the row counts, not that of the token *)
LoadUser(r) ==
    /\ At(r, "user")
    /\ LET n == token[bearer[r]].name IN
        IF users[n] = NoUser
        THEN End(r, "denied") /\ UNCHANGED served
        ELSE /\ served' = [served EXCEPT ![r] = users[n].tenant]
             /\ End(r, "ok")
    /\ UNCHANGED <<users, call, token, expired, bearer, resolved, hit>>

(* A SELECT fails: before or after the commit of a registration, at a login or
   under get_current_user *)
ReadFails(r) ==
    /\ pc[r] \in {"check", "answer", "verify", "user"}
    /\ Fault(r)
    /\ End(r, "error")
    /\ quiet
    /\ UNCHANGED users
-----------------------------------------------------------------------------
RequestStep(r) ==
    \/ OpenRegister(r) \/ OpenLogin(r) \/ OpenMe(r)
    \/ CheckName(r) \/ Store(r) \/ StoreFails(r) \/ AnswerRegister(r)
    \/ Login(r) \/ Decode(r) \/ LoadUser(r) \/ ReadFails(r)

Next == \E r \in Requests : RequestStep(r) \/ Expire(r)

Spec == Init /\ [][Next]_vars
-----------------------------------------------------------------------------
(* Every variable has its type. *)
TypeOK ==
    /\ users \in [Users -> Row \cup {NoUser}]
    /\ call \in [Requests -> CallType \cup {NoCall}]
    /\ pc \in [Requests -> Labels]
    /\ told \in [Requests -> Answers]
    /\ token \in [Requests -> Token \cup {NoToken}]
    /\ expired \subseteq Requests
    /\ bearer \in [Requests -> Requests \cup {NoToken, Unreadable}]
    /\ resolved \in [Requests -> Given]
    /\ served \in [Requests -> Given]
    /\ hit \subseteq Requests

Asked(r, kind) == call[r].kind = kind
Author(r) == \E n \in Users : users[n] # NoUser /\ users[n].by = r

(* Another registration stored the name or the address *)
Rivalled(r) ==
    \E n \in Users :
        /\ users[n] # NoUser /\ users[n].by # r
        /\ n = call[r].name \/ users[n].email = call[r].email

(* What a registration is told is so (auth.py:110-160).  After "ok" the account is
   the one asked for, and stays it, however many registrations of that name or
   address ran at once; after a refusal this request has stored nothing.  An error
   without a failure of the database means that another has the name or the
   address, that the tenant does not exist, or that none was named: then the
   account is there although the answer says that it is not. *)
RegistrationAnswers ==
    \A r \in Requests : Asked(r, "register") /\ At(r, "done") =>
        LET c == call[r] IN
        /\ told[r] = "ok" =>
            users[c.name] = [email |-> c.email, password |-> c.password,
                             tenant |-> TenantOf(c), by |-> r]
        /\ told[r] \in {"exists", "malformed"} => ~Author(r)
        /\ told[r] = "error" /\ r \notin hit =>
            IF Author(r) THEN c.tenant = NoTenant
                         ELSE c.tenant = Unknown \/ Rivalled(r)

(* A request with the token of a login is in the tenant of the account, as the
   registration gave it, whatever its header says: the middleware and
   get_current_user agree about every request that is served, and the middleware
   says the same when the token has expired (tenant_middleware.py:42-81,
   auth.py:95-97).  The login knew the password of that registration. *)
ServedAsRegistered ==
    \A r \in Requests : Asked(r, "me") /\ bearer[r] \in Requests =>
        LET l == bearer[r]
            account == users[call[l].name]
        IN  /\ account # NoUser
            /\ call[l].password = call[account.by].password
            /\ call[l].name = call[account.by].name
            /\ resolved[r] = TenantOf(call[account.by])
            /\ told[r] = "ok" => served[r] = resolved[r]
=============================================================================
