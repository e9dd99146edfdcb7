---------------------------- MODULE AccountsProofs ----------------------------
(* Proofs about Accounts, for any number of requests, names, addresses, passwords
   and tenants.  The invariant ties every row to the registration that stored it,
   every token to the row its login read, and every request to the token it
   carries.  It is inductive because a stored row never changes. *)
EXTENDS Accounts, TLAPS

(* A row is what the registration it names has asked for *)
StoredAsAsked ==
    \A n \in Users : users[n] # NoUser =>
        LET a == users[n].by IN
        /\ call[a].kind = "register" /\ call[a].name = n
        /\ users[n].email = call[a].email /\ users[n].password = call[a].password
        /\ users[n].tenant = TenantOf(call[a])
        /\ pc[a] \in {"answer", "done"}
        /\ told[a] \in {"none", "ok", "error"}

(* Each request is at a step of its kind *)
InStep(r) ==
    /\ pc[r] = "idle" <=> call[r] = NoCall
    /\ pc[r] # "done" => told[r] = "none"
    /\ call[r].kind = "register" => pc[r] \in {"check", "store", "answer", "done"}
    /\ call[r].kind = "login" => pc[r] \in {"verify", "done"}
    /\ call[r].kind = "me" => pc[r] \in {"decode", "user", "done"}
    /\ call[r].kind = "none" => call[r] = NoCall

(* What a registration knows, and what it is told *)
Registering(r) ==
    call[r].kind = "register" =>
        /\ pc[r] = "store" => call[r].tenant # Malformed
        /\ pc[r] = "answer" \/ told[r] = "ok" =>
            users[call[r].name] # NoUser /\ users[call[r].name].by = r
        /\ told[r] = "error" /\ r \notin hit =>
            IF Author(r) THEN call[r].tenant = NoTenant
                         ELSE call[r].tenant = Unknown \/ Rivalled(r)

(* A token names the account whose password its login gave *)
LoggedIn(l) ==
    token[l] # NoToken =>
        /\ call[l].kind = "login" /\ pc[l] = "done"
        /\ users[call[l].name] # NoUser
        /\ users[call[l].name].password = call[l].password
        /\ token[l].name = call[l].name
        /\ token[l].tenant = users[call[l].name].tenant

(* A request with such a token is in the token's tenant *)
Carrying(r) ==
    call[r].kind = "me" =>
        /\ pc[r] = "user" => bearer[r] \in Requests
        /\ bearer[r] \in Requests =>
            /\ token[bearer[r]] # NoToken
            /\ resolved[r] = token[bearer[r]].tenant
            /\ told[r] = "ok" => served[r] = resolved[r]

AccountsInv ==
    /\ TypeOK
    /\ StoredAsAsked
    /\ \A r \in Requests : InStep(r) /\ Registering(r) /\ LoggedIn(r) /\ Carrying(r)

USE AccountsAssumption

-----------------------------------------------------------------------------
LEMMA InitAccounts == Init => AccountsInv
BY DEF Init, AccountsInv, TypeOK, StoredAsAsked, InStep, Registering, LoggedIn, Carrying,
   NoCall, Labels, Answers, Given

(* The type of a call's fields *)
LEMMA CallTypes ==
    ASSUME TypeOK, NEW r \in Requests
    PROVE  /\ call[r].kind \in {"none", "register", "login", "me"}
           /\ call[r].kind = "register" =>
                /\ call[r].name \in Users /\ call[r].email \in Emails
                /\ call[r].password \in Passwords /\ call[r].tenant \in Given
           /\ call[r].kind = "login" => call[r].name \in Users /\ call[r].password \in Passwords
BY DEF TypeOK, CallType, NoCall

LEMMA TypeStep ==
    ASSUME AccountsInv, Next
    PROVE  TypeOK'
<1> USE DEF AccountsInv, TypeOK, Labels, Answers
<1>1. PICK r \in Requests : RequestStep(r) \/ Expire(r)
  BY DEF Next
<1>2. CASE OpenRegister(r)
  <2>1. PICK n \in Users, e \in Emails, p \in Passwords, t \in Given :
          Start(r, [kind |-> "register", name |-> n, email |-> e, password |-> p, tenant |-> t],
                NoToken, NoTenant, "check")
    BY <1>2 DEF OpenRegister
  <2>2. [kind |-> "register", name |-> n, email |-> e, password |-> p, tenant |-> t] \in CallType
    BY DEF CallType
  <2>3. Resolve(NoToken, NoTenant) \in Given
    BY DEF Resolve, Issued, Given, Token
  <2>4. QED
    BY <2>1, <2>2, <2>3 DEF Start, Goto, Given
<1>3. CASE OpenLogin(r)
  <2>1. PICK n \in Users, p \in Passwords :
          Start(r, [kind |-> "login", name |-> n, password |-> p], NoToken, NoTenant, "verify")
    BY <1>3 DEF OpenLogin
  <2>2. [kind |-> "login", name |-> n, password |-> p] \in CallType
    BY DEF CallType
  <2>3. Resolve(NoToken, NoTenant) \in Given
    BY DEF Resolve, Issued, Given, Token
  <2>4. QED
    BY <2>1, <2>2, <2>3 DEF Start, Goto
<1>4. CASE OpenMe(r)
  <2>1. PICK b \in Issued \cup {NoToken, Unreadable}, h \in Given :
          Start(r, [kind |-> "me", header |-> h], b, h, "decode")
    BY <1>4 DEF OpenMe
  <2>2. [kind |-> "me", header |-> h] \in CallType
    BY DEF CallType
  <2>3. Resolve(b, h) \in Given /\ b \in Requests \cup {NoToken, Unreadable}
    BY DEF Resolve, Issued, Given, Token
  <2>4. QED
    BY <2>1, <2>2, <2>3 DEF Start, Goto
<1>5. CASE Store(r) \/ StoreFails(r)
  <2>1. call[r].kind = "register"
    BY <1>5, CallTypes DEF Store, StoreFails, At, InStep, NoCall
  <2>2. ~Refused(call[r]) => Inserted(r) \in [Users -> Row \cup {NoUser}]
    <3>1. ~Refused(call[r]) =>
            [email |-> call[r].email, password |-> call[r].password,
             tenant |-> TenantOf(call[r]), by |-> r] \in Row
      BY <2>1, CallTypes DEF Refused, Row
    <3>2. QED
      BY <3>1 DEF Inserted
  <2>3. QED
    BY <1>5, <2>2 DEF Store, StoreFails, End, Goto, Fault, quiet
<1>6. CASE Login(r)
  <2>1. call[r].kind = "login"
    BY <1>6, CallTypes DEF Login, At, InStep, NoCall
  <2>2. Authentic(call[r].name, call[r].password) =>
          [name |-> call[r].name, tenant |-> users[call[r].name].tenant] \in Token
    BY <2>1, CallTypes DEF Authentic, Row, Token
  <2>3. QED
    BY <1>6, <2>2 DEF Login, End, Goto
<1>7. CASE LoadUser(r)
  <2>1. call[r].kind = "me"
    BY <1>7, CallTypes DEF LoadUser, At, InStep, NoCall
  <2>2. bearer[r] \in Requests /\ token[bearer[r]] \in Token
    BY <1>7, <2>1 DEF LoadUser, At, Carrying
  <2>3. users[token[bearer[r]].name] # NoUser => users[token[bearer[r]].name].tenant \in Given
    BY <2>2 DEF Token, Row, Given
  <2>4. QED
    BY <1>7, <2>3 DEF LoadUser, End, Goto
<1>8. CASE CheckName(r) \/ AnswerRegister(r) \/ Decode(r) \/ ReadFails(r)
  BY <1>8 DEF CheckName, AnswerRegister, Decode, ReadFails, End, Goto, Fault, quiet
<1>9. CASE Expire(r)
  BY <1>9 DEF Expire
<1>10. QED
  BY <1>1, <1>2, <1>3, <1>4, <1>5, <1>6, <1>7, <1>8, <1>9 DEF RequestStep

(* What a step of one request leaves alone *)
Same(q) ==
    /\ call'[q] = call[q] /\ pc'[q] = pc[q] /\ told'[q] = told[q] /\ token'[q] = token[q]
    /\ bearer'[q] = bearer[q] /\ resolved'[q] = resolved[q] /\ served'[q] = served[q]
    /\ q \in hit' <=> q \in hit

LEMMA Others ==
    ASSUME AccountsInv, NEW r \in Requests, RequestStep(r) \/ Expire(r),
           NEW q \in Requests, q # r
    PROVE  Same(q)
<1> USE DEF AccountsInv, TypeOK
<1>1. CASE OpenRegister(r) \/ OpenLogin(r) \/ OpenMe(r)
  BY <1>1 DEF OpenRegister, OpenLogin, OpenMe, Start, Goto, Same
<1>2. CASE CheckName(r) \/ Store(r) \/ StoreFails(r) \/ AnswerRegister(r)
  BY <1>2 DEF CheckName, Store, StoreFails, AnswerRegister, End, Goto, Fault, quiet, Same
<1>3. CASE Login(r) \/ Decode(r) \/ LoadUser(r) \/ ReadFails(r) \/ Expire(r)
  BY <1>3 DEF Login, Decode, LoadUser, ReadFails, Expire, End, Goto, Fault, quiet, Same
<1>4. QED
  BY <1>1, <1>2, <1>3 DEF RequestStep

(* A request asks one thing: what it asks, the token it carries and the tenant it
   is put in are set when it starts *)
LEMMA AskedOnce ==
    ASSUME AccountsInv, Next, NEW q \in Requests
    PROVE  /\ call[q] # NoCall => /\ call'[q] = call[q] /\ bearer'[q] = bearer[q]
                                 /\ resolved'[q] = resolved[q]
           /\ pc[q] = "done" => told'[q] = told[q] /\ pc'[q] = "done"
           /\ token[q] # NoToken => token'[q] = token[q]
<1> USE DEF AccountsInv, TypeOK, InStep, LoggedIn, At
<1>1. PICK r \in Requests : RequestStep(r) \/ Expire(r)
  BY DEF Next
<1>2. CASE q # r
  BY <1>1, <1>2, Others DEF Same
<1>3. CASE q = r /\ (OpenRegister(r) \/ OpenLogin(r) \/ OpenMe(r))
  BY <1>3 DEF OpenRegister, OpenLogin, OpenMe, Start, Goto, Same
<1>4. CASE q = r /\ (CheckName(r) \/ Store(r) \/ StoreFails(r) \/ AnswerRegister(r))
  BY <1>4 DEF CheckName, Store, StoreFails, AnswerRegister, End, Goto, quiet, Same
<1>5. CASE q = r /\ (Login(r) \/ Decode(r) \/ LoadUser(r) \/ ReadFails(r) \/ Expire(r))
  BY <1>5 DEF Login, Decode, LoadUser, ReadFails, Expire, End, Goto, quiet, Same
<1>6. QED
  BY <1>1, <1>2, <1>3, <1>4, <1>5 DEF RequestStep

(* A row is stored by the one that is about to, or stays as it is *)
LEMMA RowsKept ==
    ASSUME AccountsInv, NEW r \in Requests, RequestStep(r) \/ Expire(r)
    PROVE  \/ UNCHANGED users
           \/ /\ pc[r] = "store" /\ ~Refused(call[r])
              /\ users' = Inserted(r)
              /\ \/ pc'[r] = "answer" /\ told'[r] = "none"
                 \/ pc'[r] = "done" /\ told'[r] = "error" /\ r \in hit'
<1> USE DEF AccountsInv, TypeOK, InStep, At
<1>1. CASE OpenRegister(r) \/ OpenLogin(r) \/ OpenMe(r)
  BY <1>1 DEF OpenRegister, OpenLogin, OpenMe, Start
<1>2. CASE Store(r) \/ StoreFails(r)
  BY <1>2 DEF Store, StoreFails, End, Goto, Fault
<1>3. CASE CheckName(r) \/ AnswerRegister(r) \/ Login(r) \/ Decode(r) \/ LoadUser(r)
           \/ ReadFails(r) \/ Expire(r)
  BY <1>3 DEF CheckName, AnswerRegister, Login, Decode, LoadUser, ReadFails, Expire
<1>4. QED
  BY <1>1, <1>2, <1>3 DEF RequestStep

LEMMA Kept ==
    ASSUME AccountsInv, Next, NEW n \in Users, users[n] # NoUser
    PROVE  users'[n] = users[n]
<1>1. PICK r \in Requests : RequestStep(r) \/ Expire(r)
  BY DEF Next
<1>2. CASE UNCHANGED users
  BY <1>2
<1>3. CASE pc[r] = "store" /\ ~Refused(call[r]) /\ users' = Inserted(r)
  <2>1. n # call[r].name
    BY <1>3 DEF Refused
  <2>2. QED
    BY <1>3, <2>1 DEF Inserted, AccountsInv, TypeOK
<1>4. QED
  BY <1>1, <1>2, <1>3, RowsKept

-----------------------------------------------------------------------------
LEMMA InStepKept ==
    ASSUME AccountsInv, Next, NEW q \in Requests
    PROVE  InStep(q)'
<1> USE DEF AccountsInv, TypeOK, InStep, At, NoCall
<1>1. PICK r \in Requests : RequestStep(r) \/ Expire(r)
  BY DEF Next
<1>2. CASE q # r
  BY <1>1, <1>2, Others DEF Same
<1>3. CASE q = r /\ (OpenRegister(r) \/ OpenLogin(r) \/ OpenMe(r))
  BY <1>3 DEF OpenRegister, OpenLogin, OpenMe, Start, Goto
<1>4. CASE q = r /\ (CheckName(r) \/ Store(r) \/ StoreFails(r) \/ AnswerRegister(r))
  BY <1>4, CallTypes DEF CheckName, Store, StoreFails, AnswerRegister, End, Goto, quiet
<1>5. CASE q = r /\ (Login(r) \/ Decode(r) \/ LoadUser(r) \/ ReadFails(r) \/ Expire(r))
  BY <1>5, CallTypes DEF Login, Decode, LoadUser, ReadFails, Expire, End, Goto, quiet
<1>6. QED
  BY <1>1, <1>2, <1>3, <1>4, <1>5 DEF RequestStep

(* The registration of a row has only its answer left to give *)
LEMMA AuthorAnswers ==
    ASSUME AccountsInv, NEW r \in Requests, RequestStep(r) \/ Expire(r),
           pc[r] \in {"answer", "done"}, call[r].kind = "register"
    PROVE  /\ call'[r] = call[r] /\ pc'[r] \in {"answer", "done"}
           /\ \/ told'[r] = told[r]
              \/ /\ pc[r] = "answer" /\ told'[r] = "ok"
                 /\ call[r].tenant # NoTenant
              \/ /\ pc[r] = "answer" /\ told'[r] = "error"
                 /\ r \in hit' \/ call[r].tenant = NoTenant
           /\ r \in hit => r \in hit'
<1> USE DEF AccountsInv, TypeOK, InStep, At
<1>1. CASE OpenRegister(r) \/ OpenLogin(r) \/ OpenMe(r)
  BY <1>1 DEF OpenRegister, OpenLogin, OpenMe, Start
<1>2. CASE CheckName(r) \/ Store(r) \/ StoreFails(r) \/ Login(r) \/ Decode(r) \/ LoadUser(r)
  BY <1>2 DEF CheckName, Store, StoreFails, Login, Decode, LoadUser
<1>3. CASE AnswerRegister(r)
  BY <1>3 DEF AnswerRegister, End, Goto, quiet
<1>4. CASE ReadFails(r)
  BY <1>4 DEF ReadFails, End, Goto, Fault, quiet
<1>5. CASE Expire(r)
  BY <1>5 DEF Expire
<1>6. QED
  BY <1>1, <1>2, <1>3, <1>4, <1>5 DEF RequestStep

LEMMA StoredKept ==
    ASSUME AccountsInv, Next
    PROVE  StoredAsAsked'
<1>1. PICK r \in Requests : RequestStep(r) \/ Expire(r)
  BY DEF Next
<1>2. SUFFICES ASSUME NEW n \in Users, users'[n] # NoUser
      PROVE  LET a == users'[n].by IN
             /\ call'[a].kind = "register" /\ call'[a].name = n
             /\ users'[n].email = call'[a].email /\ users'[n].password = call'[a].password
             /\ users'[n].tenant = TenantOf(call'[a])
             /\ pc'[a] \in {"answer", "done"}
             /\ told'[a] \in {"none", "ok", "error"}
  BY DEF StoredAsAsked, TenantOf
<1>3. CASE users[n] # NoUser
  <2>1. users'[n] = users[n]
    BY <1>3, Kept
  <2> DEFINE a == users[n].by
  <2>2. a \in Requests
    BY <1>3 DEF AccountsInv, TypeOK, Row
  <2>3. /\ call[a].kind = "register" /\ call[a].name = n
        /\ users[n].email = call[a].email /\ users[n].password = call[a].password
        /\ users[n].tenant = TenantOf(call[a])
        /\ pc[a] \in {"answer", "done"} /\ told[a] \in {"none", "ok", "error"}
    BY <1>3 DEF AccountsInv, StoredAsAsked
  <2>4. CASE a # r
    BY <1>1, <2>1, <2>2, <2>3, <2>4, Others DEF Same
  <2>5. CASE a = r
    <3>1. /\ call'[r] = call[r] /\ pc'[r] \in {"answer", "done"}
          /\ told'[r] \in {told[r], "ok", "error"}
      BY <1>1, <2>3, <2>5, AuthorAnswers
    <3>2. QED
      BY <2>1, <2>3, <2>5, <3>1
  <2>6. QED
    BY <2>4, <2>5
<1>4. CASE users[n] = NoUser
  <2>1. /\ pc[r] = "store" /\ users' = Inserted(r)
        /\ pc'[r] \in {"answer", "done"} /\ told'[r] \in {"none", "error"}
    BY <1>1, <1>2, <1>4, RowsKept
  <2>2. call[r].kind = "register" /\ call'[r] = call[r]
    BY <2>1, CallTypes, AskedOnce DEF AccountsInv, InStep, NoCall
  <2>3. /\ call[r].name = n
        /\ users'[n] = [email |-> call[r].email, password |-> call[r].password,
                        tenant |-> TenantOf(call[r]), by |-> r]
    BY <1>2, <1>4, <2>1 DEF Inserted, AccountsInv, TypeOK
  <2>4. QED
    BY <2>1, <2>2, <2>3
<1>5. QED
  BY <1>3, <1>4

(* What a request is rivalled by is there to stay *)
LEMMA RivalsStay ==
    ASSUME AccountsInv, Next, NEW q \in Requests, call[q] # NoCall, Rivalled(q)
    PROVE  Rivalled(q)'
<1>1. PICK n \in Users : /\ users[n] # NoUser /\ users[n].by # q
                         /\ n = call[q].name \/ users[n].email = call[q].email
  BY DEF Rivalled
<1>2. users'[n] = users[n] /\ call'[q] = call[q]
  BY <1>1, Kept, AskedOnce
<1>3. QED
  BY <1>1, <1>2 DEF Rivalled

(* Only the request itself becomes an author, out of its step "store" *)
LEMMA AuthorsStay ==
    ASSUME AccountsInv, NEW r \in Requests, RequestStep(r) \/ Expire(r),
           NEW q \in Requests, q # r \/ pc[r] # "store"
    PROVE  Author(q)' <=> Author(q)
<1>1. Next
  BY DEF Next
<1>2. ASSUME Author(q) PROVE Author(q)'
  BY <1>1, <1>2, Kept DEF Author
<1>3. ASSUME Author(q)' PROVE Author(q)
  <2>1. PICK n \in Users : users'[n] # NoUser /\ users'[n].by = q
    BY <1>3 DEF Author
  <2>2. CASE UNCHANGED users
    BY <2>1, <2>2 DEF Author
  <2>3. CASE pc[r] = "store" /\ ~Refused(call[r]) /\ users' = Inserted(r)
    <3>1. q # r
      BY <2>3
    <3>2. n # call[r].name
      BY <2>1, <2>3, <3>1 DEF Inserted, AccountsInv, TypeOK
    <3>3. users'[n] = users[n]
      BY <2>3, <3>2 DEF Inserted, AccountsInv, TypeOK
    <3>4. QED
      BY <2>1, <3>3 DEF Author
  <2>4. QED
    BY <2>2, <2>3, RowsKept
<1>4. QED
  BY <1>2, <1>3

(* An author's name holds its row, and its account is named "store" no more *)
LEMMA NotYet ==
    ASSUME AccountsInv, NEW r \in Requests, pc[r] \in {"check", "store"}
    PROVE  ~Author(r)
BY DEF AccountsInv, StoredAsAsked, Author

LEMMA RegisteringKept ==
    ASSUME AccountsInv, Next, NEW q \in Requests
    PROVE  Registering(q)'
<1> USE DEF AccountsInv, TypeOK, InStep, At, NoCall
<1>1. PICK r \in Requests : RequestStep(r) \/ Expire(r)
  BY DEF Next
<1>2. SUFFICES ASSUME call'[q].kind = "register"
      PROVE  /\ pc'[q] = "store" => call'[q].tenant # Malformed
             /\ pc'[q] = "answer" \/ told'[q] = "ok" =>
                 users'[call'[q].name] # NoUser /\ users'[call'[q].name].by = q
             /\ told'[q] = "error" /\ q \notin hit' =>
                 IF Author(q)' THEN call'[q].tenant = NoTenant
                              ELSE call'[q].tenant = Unknown \/ Rivalled(q)'
  BY DEF Registering
<1>3. call[q] # NoCall => call'[q] = call[q] /\ call[q].kind = "register"
  BY <1>2, AskedOnce
<1>4. CASE q # r
  <2>1. Same(q)
    BY <1>1, <1>4, Others
  <2>2. call[q].kind = "register" /\ call'[q] = call[q]
    BY <1>2, <2>1 DEF Same
  <2>3. call[q].name \in Users
    BY <2>2, CallTypes
  <2>4. users[call[q].name] # NoUser => users'[call[q].name] = users[call[q].name]
    BY <2>3, Kept
  <2>5. Author(q)' <=> Author(q)
    BY <1>1, <1>4, AuthorsStay
  <2>6. Rivalled(q) => Rivalled(q)'
    BY <2>2, RivalsStay
  <2>7. QED
    BY <2>1, <2>2, <2>4, <2>5, <2>6 DEF Registering, Same
<1>5. CASE q = r /\ (OpenRegister(r) \/ OpenLogin(r) \/ OpenMe(r))
  <2>1. pc'[q] \in {"check", "verify", "decode"} /\ told'[q] = "none"
    BY <1>5 DEF OpenRegister, OpenLogin, OpenMe, Start, Goto
  <2>2. QED
    BY <2>1
<1>6. CASE q = r /\ CheckName(r)
  <2>1. UNCHANGED call /\ pc'[q] \in {"store", "done"} /\ told'[q] \in {"none", "exists", "malformed"}
    BY <1>6 DEF CheckName, End, Goto, quiet
  <2>2. pc'[q] = "store" => call[q].tenant # Malformed
    BY <1>6 DEF CheckName, End, Goto
  <2>3. QED
    BY <2>1, <2>2
<1>7. CASE q = r /\ Store(r)
  <2>1. call[r].kind = "register" /\ UNCHANGED <<call, hit>> /\ told[r] = "none" /\ pc[r] = "store"
    BY <1>3, <1>7 DEF Store, quiet
  <2>2. call[r].name \in Users /\ call[r].tenant \in Given \ {Malformed}
    BY <2>1, CallTypes DEF Registering
  <2>3. CASE ~Refused(call[r])
    <3>1. users' = Inserted(r) /\ pc'[r] = "answer" /\ told'[r] = "none"
      BY <1>7, <2>1, <2>3 DEF Store, Goto
    <3>2. users'[call[r].name] =
            [email |-> call[r].email, password |-> call[r].password,
             tenant |-> TenantOf(call[r]), by |-> r]
      BY <2>2, <3>1 DEF Inserted
    <3>3. users'[call[r].name] \in Row
      BY <2>1, <2>2, <2>3, <3>2, CallTypes DEF Row, Refused
    <3>4. QED
      BY <1>7, <2>1, <3>1, <3>2, <3>3
  <2>4. CASE Refused(call[r])
    <3>1. UNCHANGED users /\ pc'[r] = "done" /\ told'[r] = "error"
      BY <1>7, <2>4 DEF Store, End, Goto
    <3>2. ~Author(r) /\ (Author(r)' <=> Author(r))
      BY <2>1, <3>1, NotYet DEF Author
    <3>3. call[r].tenant = Unknown \/ Rivalled(r)
      BY <2>2, <2>4, <3>2 DEF Refused, TenantOf, Rivalled, Author, Given
    <3>4. Rivalled(r) => Rivalled(r)'
      BY <2>1, RivalsStay
    <3>5. QED
      BY <1>7, <2>1, <3>1, <3>2, <3>3, <3>4
  <2>5. QED
    BY <2>3, <2>4
<1>8. CASE q = r /\ (StoreFails(r) \/ ReadFails(r))
  BY <1>8 DEF StoreFails, ReadFails, End, Goto, Fault
<1>9. CASE q = r /\ AnswerRegister(r)
  <2>1. /\ pc[r] = "answer" /\ UNCHANGED <<users, call>> /\ pc'[r] = "done"
        /\ told'[r] = IF call[r].tenant = NoTenant THEN "error" ELSE "ok"
    BY <1>9 DEF AnswerRegister, End, Goto, quiet
  <2>2. call[r].kind = "register" /\ call[r].name \in Users
    BY <1>3, <1>9, <2>1, CallTypes
  <2>3. users[call[r].name] # NoUser /\ users[call[r].name].by = r
    BY <2>1, <2>2 DEF Registering
  <2>4. Author(r)'
    BY <2>1, <2>2, <2>3 DEF Author
  <2>5. QED
    BY <1>9, <2>1, <2>3, <2>4
<1>10. CASE q = r /\ (Login(r) \/ Decode(r) \/ LoadUser(r))
  BY <1>2, <1>3, <1>10 DEF Login, Decode, LoadUser
<1>11. CASE q = r /\ Expire(r)
  <2>1. UNCHANGED <<users, call, pc, told, hit>>
    BY <1>11 DEF Expire
  <2>2. call[q].kind = "register" /\ (Author(q)' <=> Author(q)) /\ (Rivalled(q)' <=> Rivalled(q))
    BY <1>2, <2>1 DEF Author, Rivalled
  <2>3. QED
    BY <2>1, <2>2 DEF Registering
<1>12. QED
  BY <1>1, <1>4, <1>5, <1>6, <1>7, <1>8, <1>9, <1>10, <1>11 DEF RequestStep

LEMMA LoggedInKept ==
    ASSUME AccountsInv, Next, NEW q \in Requests
    PROVE  LoggedIn(q)'
<1> USE DEF AccountsInv, TypeOK, InStep, At, NoCall
<1>1. PICK r \in Requests : RequestStep(r) \/ Expire(r)
  BY DEF Next
<1>2. CASE token[q] # NoToken
  <2>1. /\ call[q].kind = "login" /\ pc[q] = "done"
        /\ call[q].name \in Users /\ users[call[q].name] # NoUser
    BY <1>2, CallTypes DEF LoggedIn
  <2>2. users'[call[q].name] = users[call[q].name]
    BY <2>1, Kept
  <2>3. token'[q] = token[q] /\ call'[q] = call[q] /\ pc'[q] = "done"
    BY <1>2, <2>1, AskedOnce
  <2>4. QED
    BY <1>2, <2>1, <2>2, <2>3 DEF LoggedIn
<1>3. CASE token[q] = NoToken /\ token'[q] # NoToken
  <2>1. q = r /\ Login(r)
    <3>1. q = r
      BY <1>1, <1>3, Others DEF Same
    <3>2. CASE OpenRegister(r) \/ OpenLogin(r) \/ OpenMe(r)
      BY <1>3, <3>2 DEF OpenRegister, OpenLogin, OpenMe, Start
    <3>3. CASE CheckName(r) \/ Store(r) \/ StoreFails(r) \/ AnswerRegister(r) \/ Decode(r)
               \/ LoadUser(r) \/ ReadFails(r) \/ Expire(r)
      BY <1>3, <3>3 DEF CheckName, Store, StoreFails, AnswerRegister, Decode, LoadUser,
         ReadFails, Expire, quiet
    <3>4. QED
      BY <1>1, <3>1, <3>2, <3>3 DEF RequestStep
  <2>2. call[r].kind = "login" /\ call[r].name \in Users
    BY <2>1, CallTypes DEF Login
  <2>3. Authentic(call[r].name, call[r].password) /\ UNCHANGED <<users, call>>
    BY <1>3, <2>1 DEF Login
  <2>4. /\ token'[r] = [name |-> call[r].name, tenant |-> users[call[r].name].tenant]
        /\ pc'[r] = "done"
    BY <2>1, <2>3 DEF Login, End, Goto
  <2>5. QED
    BY <2>1, <2>2, <2>3, <2>4 DEF LoggedIn, Authentic
<1>4. QED
  BY <1>2, <1>3 DEF LoggedIn

LEMMA CarryingKept ==
    ASSUME AccountsInv, Next, NEW q \in Requests
    PROVE  Carrying(q)'
<1> USE DEF AccountsInv, TypeOK, InStep, At, NoCall
<1>1. PICK r \in Requests : RequestStep(r) \/ Expire(r)
  BY DEF Next
<1>2. SUFFICES ASSUME call'[q].kind = "me"
      PROVE  /\ pc'[q] = "user" => bearer'[q] \in Requests
             /\ bearer'[q] \in Requests =>
                 /\ token'[bearer'[q]] # NoToken
                 /\ resolved'[q] = token'[bearer'[q]].tenant
                 /\ told'[q] = "ok" => served'[q] = resolved'[q]
  BY DEF Carrying
<1>3. CASE call[q] # NoCall
  <2>1. call[q].kind = "me" /\ UNCHANGED <<call[q], bearer[q], resolved[q]>>
    BY <1>2, <1>3, AskedOnce
  <2>2. bearer[q] \in Requests => token'[bearer[q]] = token[bearer[q]] /\ token[bearer[q]] # NoToken
    BY <2>1, AskedOnce DEF Carrying
  <2>3. CASE q # r
    BY <1>1, <2>1, <2>2, <2>3, Others DEF Same, Carrying
  <2>4. CASE q = r /\ LoadUser(r)
    <3>1. pc[r] = "user" /\ bearer[r] \in Requests /\ UNCHANGED <<token, users>>
      BY <2>1, <2>4 DEF LoadUser, Carrying
    <3>2. token[bearer[r]] \in Token
      BY <2>2, <2>4, <3>1
    <3>3. token[bearer[r]].tenant = users[token[bearer[r]].name].tenant
      BY <2>2, <2>4, <3>1 DEF LoggedIn
    <3>4. pc'[r] = "done" /\ (told'[r] = "ok" => served'[r] = users[token[bearer[r]].name].tenant)
      BY <2>4 DEF LoadUser, End, Goto
    <3>5. QED
      BY <2>1, <2>2, <2>4, <3>1, <3>3, <3>4 DEF Carrying
  <2>5. CASE q = r /\ Decode(r)
    <3>1. /\ told'[r] \in {"none", "denied"}
          /\ pc'[r] = "user" => bearer[r] \in Requests
      BY <2>5 DEF Decode, End, Goto, Valid, Issued
    <3>2. QED
      BY <2>1, <2>2, <2>5, <3>1 DEF Carrying
  <2>6. CASE q = r /\ (ReadFails(r) \/ Expire(r))
    BY <2>1, <2>2, <2>6 DEF ReadFails, Expire, End, Goto, Carrying, quiet
  <2>7. CASE q = r /\ (OpenRegister(r) \/ OpenLogin(r) \/ OpenMe(r))
    BY <1>3, <2>7 DEF OpenRegister, OpenLogin, OpenMe, Start
  <2>8. CASE q = r /\ (CheckName(r) \/ Store(r) \/ StoreFails(r) \/ AnswerRegister(r) \/ Login(r))
    BY <2>1, <2>8 DEF CheckName, Store, StoreFails, AnswerRegister, Login
  <2>9. QED
    BY <1>1, <2>3, <2>4, <2>5, <2>6, <2>7, <2>8 DEF RequestStep
<1>4. CASE call[q] = NoCall
  <2>1. q = r
    BY <1>1, <1>2, <1>4, Others DEF Same
  <2>2. OpenMe(r)
    <3>1. CASE OpenRegister(r) \/ OpenLogin(r)
      BY <1>2, <2>1, <3>1 DEF OpenRegister, OpenLogin, Start
    <3>2. CASE CheckName(r) \/ Store(r) \/ StoreFails(r) \/ AnswerRegister(r) \/ Login(r)
               \/ Decode(r) \/ LoadUser(r) \/ ReadFails(r)
      BY <1>4, <2>1, <3>2 DEF CheckName, Store, StoreFails, AnswerRegister, Login, Decode,
         LoadUser, ReadFails
    <3>3. CASE Expire(r)
      BY <1>2, <1>4, <2>1, <3>3 DEF Expire
    <3>4. QED
      BY <1>1, <3>1, <3>2, <3>3 DEF RequestStep
  <2>3. PICK b \in Issued \cup {NoToken, Unreadable}, h \in Given :
          Start(r, [kind |-> "me", header |-> h], b, h, "decode")
    BY <2>2 DEF OpenMe
  <2>4. /\ bearer'[r] = b /\ resolved'[r] = Resolve(b, h) /\ UNCHANGED <<token, told>>
        /\ pc'[r] = "decode" /\ told[r] = "none"
    BY <2>3 DEF Start, Goto
  <2>5. b \in Requests => b \in Issued
    OBVIOUS
  <2>6. QED
    BY <2>1, <2>4, <2>5 DEF Resolve, Issued
<1>5. QED
  BY <1>3, <1>4

(* Rows, registrations, logins and requests with a token fit together in every
   state (routers/auth.py, tenant_middleware.py). *)
THEOREM AccountsInvariant == Spec => []AccountsInv
<1>1. AccountsInv /\ [Next]_vars => AccountsInv'
  <2> SUFFICES ASSUME AccountsInv, [Next]_vars PROVE AccountsInv'
    OBVIOUS
  <2>1. CASE Next
    BY <2>1, TypeStep, StoredKept, InStepKept, RegisteringKept, LoggedInKept, CarryingKept
    DEF AccountsInv
  <2>2. CASE UNCHANGED vars
    BY <2>2 DEF vars, AccountsInv, TypeOK, StoredAsAsked, InStep, Registering, LoggedIn,
       Carrying, Author, Rivalled, TenantOf
  <2>3. QED
    BY <2>1, <2>2
<1>2. QED
  BY InitAccounts, <1>1, PTL DEF Spec

(* Every variable keeps its type. *)
THEOREM AccountsTypes == Spec => []TypeOK
BY AccountsInvariant, PTL DEF AccountsInv

(* What a registration is told is so, for any number of registrations at once. *)
THEOREM RegistrationsAnswered == Spec => []RegistrationAnswers
<1>1. AccountsInv => RegistrationAnswers
  <2> SUFFICES ASSUME AccountsInv, NEW r \in Requests, Asked(r, "register"), At(r, "done")
      PROVE  LET c == call[r] IN
             /\ told[r] = "ok" =>
                 users[c.name] = [email |-> c.email, password |-> c.password,
                                  tenant |-> TenantOf(c), by |-> r]
             /\ told[r] \in {"exists", "malformed"} => ~Author(r)
             /\ told[r] = "error" /\ r \notin hit =>
                 IF Author(r) THEN c.tenant = NoTenant
                              ELSE c.tenant = Unknown \/ Rivalled(r)
    BY DEF RegistrationAnswers
  <2>1. call[r].kind = "register" /\ call[r].name \in Users
    BY CallTypes DEF Asked, AccountsInv
  <2>2. told[r] = "ok" =>
          /\ users[call[r].name] \in Row /\ users[call[r].name].by = r
          /\ users[call[r].name].email = call[r].email
          /\ users[call[r].name].password = call[r].password
          /\ users[call[r].name].tenant = TenantOf(call[r])
    BY <2>1 DEF AccountsInv, TypeOK, Registering, StoredAsAsked
  <2>3. told[r] \in {"exists", "malformed"} => ~Author(r)
    BY DEF AccountsInv, StoredAsAsked, Author
  <2>4. QED
    BY <2>1, <2>2, <2>3 DEF AccountsInv, Registering, Row
<1>2. QED
  BY AccountsInvariant, <1>1, PTL

(* The middleware and get_current_user put every request with a token into the
   tenant of the registration behind it. *)
THEOREM TenantsAgree == Spec => []ServedAsRegistered
<1>1. AccountsInv => ServedAsRegistered
  <2> SUFFICES ASSUME AccountsInv, NEW r \in Requests, Asked(r, "me"), bearer[r] \in Requests
      PROVE  LET l == bearer[r]
                 account == users[call[l].name]
             IN  /\ account # NoUser
                 /\ call[l].password = call[account.by].password
                 /\ call[l].name = call[account.by].name
                 /\ resolved[r] = TenantOf(call[account.by])
                 /\ told[r] = "ok" => served[r] = resolved[r]
    BY DEF ServedAsRegistered
  <2> DEFINE l == bearer[r]
             n == call[l].name
  <2>1. /\ token[l] # NoToken /\ resolved[r] = token[l].tenant
        /\ told[r] = "ok" => served[r] = resolved[r]
    BY DEF AccountsInv, Carrying, Asked
  <2>2. /\ call[l].kind = "login" /\ users[n] # NoUser
        /\ users[n].password = call[l].password /\ token[l].tenant = users[n].tenant
    BY <2>1 DEF AccountsInv, LoggedIn
  <2>3. n \in Users
    BY <2>2, CallTypes DEF AccountsInv
  <2>4. /\ call[users[n].by].name = n
        /\ users[n].password = call[users[n].by].password
        /\ users[n].tenant = TenantOf(call[users[n].by])
    BY <2>2, <2>3 DEF AccountsInv, StoredAsAsked
  <2>5. QED
    BY <2>1, <2>2, <2>4
<1>2. QED
  BY AccountsInvariant, <1>1, PTL
=============================================================================
