---------------------------- MODULE AccountsProofs ----------------------------
(***************************************************************************)
(* Proofs about accounts and sessions, for every number of clients and     *)
(* ids and for tokens of any life.                                         *)
(***************************************************************************)
EXTENDS Accounts, TLAPS

\* The account of id i is the one client c knows the password of.
Owns(c, i) ==
    /\ i \in Registered
    /\ users[i].email = Email(c) /\ users[i].password = Password(c)

\* What is known of one client: its registration, its tokens, how it was served.
ClientOK(c) ==
    /\ registration[c] = "drawn" => publicId[c] \in UserIds
    /\ registration[c] = "created" => Owns(c, publicId[c])
    /\ access[c] # NoToken => Owns(c, access[c].sub) /\ access[c].age <= AccessLife
    /\ refresh[c] # NoToken => Owns(c, refresh[c].sub) /\ refresh[c].age = quiet[c]
    /\ refresh[c] # NoToken /\ c \in Punctual => quiet[c] < RefreshLife
    /\ served[c] \in Tokens => Owns(c, served[c].sub) /\ served[c].age < AccessLife

\* No two accounts have one address.
AddressesUnique ==
    \A i, j \in Registered : users[i].email = users[j].email => i = j

\* The inductive invariant.
AccountsInv == TypeOK /\ AddressesUnique /\ \A c \in Clients : ClientOK(c)

\* A row, once written, keeps its address and its password.
RowsKept ==
    \A i \in Registered :
      /\ i \in Registered'
      /\ users'[i].email = users[i].email /\ users'[i].password = users[i].password

\* Whoever owns an account keeps it.
LEMMA OwnershipKept ==
    ASSUME RowsKept, NEW c \in Clients, NEW i, Owns(c, i)
    PROVE  Owns(c, i)'
  BY DEF RowsKept, Owns, Registered, Email, Password

\* Inserting a row keeps the others and, where the constraints allow it, the
\* uniqueness of addresses; so does a deactivation.
LEMMA InsertRow ==
    ASSUME AccountsInv, NEW c \in Clients, registration[c] = "drawn",
           Unique(c), Insert(c), UNCHANGED publicId
    PROVE  /\ users' \in [UserIds -> Rows \cup {NoUser}]
           /\ RowsKept /\ AddressesUnique' /\ Owns(c, publicId[c])'
<1> DEFINE i == publicId[c]
           row == [email |-> Email(c), password |-> Password(c), is_active |-> TRUE]
<1>1. i \in UserIds /\ users \in [UserIds -> Rows \cup {NoUser}]
  BY DEF AccountsInv, ClientOK, TypeOK
<1>2. row \in Rows /\ row # NoUser
  <2>1. Email(c) \in {Email(d) : d \in Clients} /\ Password(c) \in {Password(d) : d \in Clients}
    OBVIOUS
  <2>2. row \in Rows
    BY <2>1 DEF Rows
  <2>. QED
    BY <2>2, AccountsAssumption
<1>3. users' = [users EXCEPT ![i] = row] /\ users[i] = NoUser
  BY DEF Insert, Unique
<1>4. users'[i] = row /\ \A j \in UserIds : j # i => users'[j] = users[j]
  BY <1>1, <1>3
<1>5. Registered' = Registered \cup {i} /\ i \notin Registered
  BY <1>1, <1>2, <1>3, <1>4 DEF Registered
<1>6. users' \in [UserIds -> Rows \cup {NoUser}]
  BY <1>1, <1>2, <1>3
<1>7. RowsKept
  BY <1>4, <1>5 DEF RowsKept, Registered
<1>8. AddressesUnique'
  <2>1. \A j \in Registered : users[j].email # Email(c)
    BY DEF Unique, EmailTaken
  <2>2. \A j \in Registered : users'[j].email # row.email /\ users'[j] = users[j]
    BY <1>4, <1>5, <2>1 DEF Registered
  <2>. QED
    BY <1>4, <1>5, <2>2 DEF AccountsInv, AddressesUnique
<1>9. Owns(c, i)'
  BY <1>4, <1>5 DEF Owns, Email, Password
<1>. QED
  BY <1>6, <1>7, <1>8, <1>9

\* An account taken out of service keeps its address and password.
LEMMA DeactivateRow ==
    ASSUME AccountsInv, NEW i \in UserIds, Deactivate(i)
    PROVE  users' \in [UserIds -> Rows \cup {NoUser}] /\ RowsKept /\ AddressesUnique'
<1>1. /\ users \in [UserIds -> Rows \cup {NoUser}] /\ i \in Registered
      /\ users' = [users EXCEPT ![i].is_active = FALSE]
  BY DEF AccountsInv, TypeOK, Deactivate
<1>2. users[i] \in Rows
  BY <1>1 DEF Registered
<1>3. /\ users'[i] = [users[i] EXCEPT !.is_active = FALSE]
      /\ \A j \in UserIds : j # i => users'[j] = users[j]
  BY <1>1
<1>4. /\ users'[i] \in Rows /\ users'[i] # NoUser
      /\ users'[i].email = users[i].email /\ users'[i].password = users[i].password
  BY <1>2, <1>3, AccountsAssumption DEF Rows
<1>5. users' \in [UserIds -> Rows \cup {NoUser}]
  BY <1>1, <1>3, <1>4
<1>6. Registered' = Registered
  BY <1>1, <1>3, <1>4 DEF Registered
<1>7. \A j \in Registered :
        users'[j].email = users[j].email /\ users'[j].password = users[j].password
  BY <1>3, <1>4 DEF Registered
<1>. QED
  BY <1>5, <1>6, <1>7 DEF RowsKept, AddressesUnique, AccountsInv

\* A client whose variables stay is kept in order by every step that keeps the
\* rows.
LEMMA ClientKept ==
    ASSUME RowsKept, NEW c \in Clients, ClientOK(c),
           registration'[c] = registration[c], publicId'[c] = publicId[c],
           access'[c] = access[c], refresh'[c] = refresh[c],
           quiet'[c] = quiet[c], served'[c] = served[c]
    PROVE  ClientOK(c)'
<1>1. \A i : Owns(c, i) => Owns(c, i)'
  BY OwnershipKept
<1>. QED
  BY <1>1 DEF ClientOK, Tokens

\* Registration: one client moves on, and at most its own row is written.
LEMMA RegistrationStep ==
    ASSUME AccountsInv, NEW c \in Clients,
           CheckEmail(c) \/ DrawId(c) \/ InsertUser(c) \/ RegistrationFails(c)
    PROVE  AccountsInv'
<1>1. UNCHANGED sessionVars /\ \A d \in Clients : d # c =>
        registration'[d] = registration[d] /\ publicId'[d] = publicId[d]
  BY DEF CheckEmail, DrawId, InsertUser, RegistrationFails, AccountsInv, TypeOK
<1>2. /\ registration' \in
           [Clients -> {"idle", "checked", "drawn", "created", "conflict", "error"}]
      /\ publicId' \in [Clients -> UserIds \cup {NoId}]
  BY DEF CheckEmail, DrawId, InsertUser, RegistrationFails, AccountsInv, TypeOK
<1>3. \/ /\ UNCHANGED users /\ registration'[c] # "created"
         /\ registration'[c] = "drawn" => publicId'[c] \in UserIds
      \/ /\ registration[c] = "drawn" /\ Unique(c) /\ Insert(c) /\ UNCHANGED publicId
         /\ registration'[c] \in {"created", "error"}
  <2>1. CASE CheckEmail(c)
    BY <2>1 DEF CheckEmail, AccountsInv, TypeOK
  <2>2. CASE DrawId(c)
    <3>1. PICK i \in UserIds \ Registered : publicId' = [publicId EXCEPT ![c] = i]
      BY <2>2 DEF DrawId
    <3>. QED
      BY <2>2, <3>1 DEF DrawId, AccountsInv, TypeOK
  <2>3. CASE InsertUser(c)
    BY <2>3 DEF InsertUser, AccountsInv, TypeOK
  <2>4. CASE RegistrationFails(c)
    BY <2>4 DEF RegistrationFails, AccountsInv, TypeOK
  <2>. QED
    BY <2>1, <2>2, <2>3, <2>4
<1>4. CASE /\ UNCHANGED users /\ registration'[c] # "created"
           /\ registration'[c] = "drawn" => publicId'[c] \in UserIds
  <2>1. RowsKept /\ AddressesUnique'
    BY <1>4 DEF RowsKept, AccountsInv, AddressesUnique, Registered
  <2>2. ClientOK(c)'
    BY <1>1, <1>4 DEF AccountsInv, ClientOK, Owns, Registered, sessionVars
  <2>3. \A d \in Clients : d # c => ClientOK(d)'
    BY <1>1, <2>1, ClientKept DEF AccountsInv, sessionVars
  <2>. QED
    BY <1>1, <1>2, <1>4, <2>1, <2>2, <2>3 DEF AccountsInv, TypeOK, sessionVars, Rows,
       Tokens, Email, Password
<1>5. CASE /\ registration[c] = "drawn" /\ Unique(c) /\ Insert(c) /\ UNCHANGED publicId
           /\ registration'[c] \in {"created", "error"}
  <2>1. /\ users' \in [UserIds -> Rows \cup {NoUser}]
        /\ RowsKept /\ AddressesUnique' /\ Owns(c, publicId[c])'
    BY <1>5, InsertRow
  <2>2. ClientOK(c)'
    <3>1. \A i : Owns(c, i) => Owns(c, i)'
      BY <2>1, OwnershipKept
    <3>. QED
      BY <1>1, <1>5, <2>1, <3>1 DEF AccountsInv, ClientOK, sessionVars, Tokens
  <2>3. \A d \in Clients : d # c => ClientOK(d)'
    BY <1>1, <2>1, ClientKept DEF AccountsInv, sessionVars
  <2>. QED
    BY <1>1, <1>2, <2>1, <2>2, <2>3 DEF AccountsInv, TypeOK, sessionVars, Rows,
       Tokens, Email, Password
<1>. QED
  BY <1>3, <1>4, <1>5

\* What is left to show of a step that writes no row: the clients whose tokens
\* it changes.
LEMMA SessionStep ==
    ASSUME AccountsInv, UNCHANGED <<users, registration, publicId>>,
           access' \in [Clients -> Tokens \cup {NoToken}],
           refresh' \in [Clients -> Tokens \cup {NoToken}],
           quiet' \in [Clients -> Ages],
           served' \in [Clients -> Tokens \cup {Anonymous, Refused}],
           \A c \in Clients : ClientOK(c)'
    PROVE  AccountsInv'
  BY DEF AccountsInv, TypeOK, AddressesUnique, Registered, Rows, Tokens, Email, Password

\* Fresh tokens for an account go to its owner.
LEMMA GivenStep ==
    ASSUME AccountsInv, NEW c \in Clients, UNCHANGED <<users, registration, publicId, served>>,
           NEW i, Owns(c, i), Given(c, Fresh(i), Fresh(i))
    PROVE  AccountsInv'
<1>1. Fresh(i) \in Tokens /\ Fresh(i).sub = i /\ Fresh(i).age = 0 /\ 0 \in Ages
  BY AccountsAssumption DEF Fresh, Tokens, Ages, Owns, Registered
<1>2. /\ access' = [access EXCEPT ![c] = Fresh(i)]
      /\ refresh' = [refresh EXCEPT ![c] = Fresh(i)]
      /\ quiet' = [quiet EXCEPT ![c] = 0]
  BY DEF Given
<1>3. /\ access' \in [Clients -> Tokens \cup {NoToken}]
      /\ refresh' \in [Clients -> Tokens \cup {NoToken}]
      /\ quiet' \in [Clients -> Ages]
      /\ served' \in [Clients -> Tokens \cup {Anonymous, Refused}]
  BY <1>1, <1>2 DEF AccountsInv, TypeOK
<1>4. /\ access'[c] = Fresh(i) /\ refresh'[c] = Fresh(i) /\ quiet'[c] = 0
      /\ \A d \in Clients : d # c => access'[d] = access[d]
           /\ refresh'[d] = refresh[d] /\ quiet'[d] = quiet[d]
  BY <1>2 DEF AccountsInv, TypeOK
<1>5. RowsKept
  BY DEF RowsKept, Registered
<1>6. ClientOK(c)'
  <2>1. \A j : Owns(c, j) => Owns(c, j)'
    BY <1>5, OwnershipKept
  <2>. QED
    BY <1>1, <1>4, <2>1, AccountsAssumption DEF AccountsInv, ClientOK, Tokens
<1>7. \A d \in Clients : d # c => ClientOK(d)'
  BY <1>4, <1>5, ClientKept DEF AccountsInv
<1>. QED
  BY <1>3, <1>6, <1>7, SessionStep

\* A login keeps the invariant.
LEMMA LoginStep ==
    ASSUME AccountsInv, NEW c \in Clients, Login(c)
    PROVE  AccountsInv'
<1>1. PICK i \in Registered : /\ Authenticates(c, i)
                              /\ Given(c, Fresh(i), Fresh(i))
                              /\ UNCHANGED <<users, registration, publicId, served>>
  BY DEF Login
<1>2. Owns(c, i)
  BY <1>1 DEF Authenticates, Owns
<1>. QED
  BY <1>1, <1>2, GivenStep

\* A refresh keeps the invariant.
LEMMA RefreshStep ==
    ASSUME AccountsInv, NEW c \in Clients, Refresh(c)
    PROVE  AccountsInv'
<1>1. Owns(c, refresh[c].sub) /\ UNCHANGED <<users, registration, publicId, served>>
  BY DEF Refresh, DecodeRefreshToken, AccountsInv, ClientOK
<1>2. CASE Given(c, Fresh(refresh[c].sub), Rotated(refresh[c]))
  BY <1>1, <1>2, GivenStep DEF Rotated
<1>3. CASE UNCHANGED <<access, refresh, quiet>>
  <2>1. RowsKept
    BY <1>1 DEF RowsKept, Registered
  <2>2. \A d \in Clients : ClientOK(d)'
    BY <1>1, <1>3, <2>1, ClientKept DEF AccountsInv
  <2>. QED
    BY <1>1, <1>3, <2>2, SessionStep DEF AccountsInv, TypeOK
<1>. QED
  BY <1>2, <1>3 DEF Refresh

\* A refused refresh keeps the invariant.
LEMMA RefusedStep ==
    ASSUME AccountsInv, NEW c \in Clients, RefreshRefused(c)
    PROVE  AccountsInv'
<1>1. /\ access' = [access EXCEPT ![c] = NoToken]
      /\ refresh' = [refresh EXCEPT ![c] = NoToken]
      /\ quiet' = [quiet EXCEPT ![c] = 0]
      /\ UNCHANGED <<users, registration, publicId, served>>
  BY DEF RefreshRefused, Given
<1>2. 0 \in Ages
  BY AccountsAssumption DEF Ages
<1>3. /\ access' \in [Clients -> Tokens \cup {NoToken}]
      /\ refresh' \in [Clients -> Tokens \cup {NoToken}]
      /\ quiet' \in [Clients -> Ages]
  BY <1>1, <1>2 DEF AccountsInv, TypeOK
<1>4. /\ access'[c] = NoToken /\ refresh'[c] = NoToken
      /\ \A d \in Clients : d # c => access'[d] = access[d]
           /\ refresh'[d] = refresh[d] /\ quiet'[d] = quiet[d]
  BY <1>1 DEF AccountsInv, TypeOK
<1>5. RowsKept
  BY <1>1 DEF RowsKept, Registered
<1>6. ClientOK(c)'
  <2>1. \A j : Owns(c, j) => Owns(c, j)'
    BY <1>5, OwnershipKept
  <2>. QED
    BY <1>1, <1>4, <2>1 DEF AccountsInv, ClientOK, Tokens
<1>7. \A d \in Clients : d # c => ClientOK(d)'
  BY <1>1, <1>4, <1>5, ClientKept DEF AccountsInv
<1>. QED
  BY <1>1, <1>3, <1>6, <1>7, SessionStep DEF AccountsInv, TypeOK

\* A call of a protected or public endpoint keeps the invariant.
LEMMA CallStep ==
    ASSUME AccountsInv, NEW c \in Clients, NEW type, NEW otherwise \in {Anonymous, Refused},
           Call(c, type, otherwise)
    PROVE  AccountsInv'
<1> DEFINE token == IF type = "access" THEN access[c] ELSE refresh[c]
           outcome == IF DecodeAccessToken(type, token) /\ Standing(token)
                      THEN token ELSE otherwise
<1>1. /\ served' = [served EXCEPT ![c] = outcome]
      /\ UNCHANGED <<users, registration, publicId, access, refresh, quiet>>
  BY DEF Call
<1>2. outcome = otherwise \/
        /\ outcome = access[c] /\ access[c] # NoToken
        /\ access[c].age < AccessLife
  BY DEF DecodeAccessToken
<1>3. outcome \in Tokens \cup {Anonymous, Refused}
  BY <1>2 DEF AccountsInv, TypeOK
<1>4. otherwise \notin Tokens
  BY AccountsAssumption
<1>5. /\ served' \in [Clients -> Tokens \cup {Anonymous, Refused}]
      /\ served'[c] = outcome
      /\ \A d \in Clients : d # c => served'[d] = served[d]
  BY <1>1, <1>3 DEF AccountsInv, TypeOK
<1>6. RowsKept
  BY <1>1 DEF RowsKept, Registered
<1>7. ClientOK(c)'
  <2>1. \A j : Owns(c, j) => Owns(c, j)'
    BY <1>6, OwnershipKept
  <2>. QED
    BY <1>1, <1>2, <1>4, <1>5, <2>1 DEF AccountsInv, ClientOK, Tokens
<1>8. \A d \in Clients : d # c => ClientOK(d)'
  BY <1>1, <1>5, <1>6, ClientKept DEF AccountsInv
<1>. QED
  BY <1>1, <1>5, <1>7, <1>8, SessionStep DEF AccountsInv, TypeOK

\* A token a step older is of the same subject, its age stopping at its life.
LEMMA OlderTyped ==
    ASSUME NEW token \in Tokens \cup {NoToken}, NEW life \in Nat, life <= RefreshLife,
           token # NoToken => token.age <= life
    PROVE  /\ Older(token, life) \in Tokens \cup {NoToken}
           /\ Older(token, life) = NoToken <=> token = NoToken
           /\ token # NoToken =>
                /\ Older(token, life).sub = token.sub
                /\ Older(token, life).age =
                     IF token.age = life THEN token.age ELSE token.age + 1
<1>1. NoToken \notin Tokens
  BY AccountsAssumption
<1>2. CASE token = NoToken
  BY <1>2 DEF Older
<1>3. CASE token # NoToken
  <2>1. token \in Tokens /\ token.age \in Nat
    BY <1>3, AccountsAssumption DEF Tokens, Ages
  <2>2. token.age # life => [token EXCEPT !.age = @ + 1] \in Tokens
    BY <1>3, <2>1, AccountsAssumption DEF Tokens, Ages
  <2>. QED
    BY <1>1, <1>3, <2>1, <2>2 DEF Older, Tokens
<1>. QED
  BY <1>2, <1>3

\* Time keeps the invariant.
LEMMA TickStep ==
    ASSUME AccountsInv, Tick
    PROVE  AccountsInv'
<1>1. UNCHANGED <<users, registration, publicId, served>> /\ RowsKept
  BY DEF Tick, RowsKept, Registered
<1>2. AccessLife \in Nat /\ RefreshLife \in Nat /\ AccessLife <= RefreshLife
  BY AccountsAssumption
<1>3. ASSUME NEW c \in Clients
      PROVE  /\ access'[c] \in Tokens \cup {NoToken}
             /\ access'[c] = NoToken <=> access[c] = NoToken
             /\ access[c] # NoToken =>
                  access'[c].sub = access[c].sub /\ access'[c].age <= AccessLife
             /\ refresh'[c] \in Tokens \cup {NoToken}
             /\ refresh'[c] = NoToken <=> refresh[c] = NoToken
             /\ refresh[c] # NoToken =>
                  /\ refresh'[c].sub = refresh[c].sub
                  /\ refresh'[c].age = quiet'[c]
                  /\ c \in Punctual => quiet'[c] < RefreshLife
             /\ quiet'[c] \in Ages
  <2>1. /\ access[c] \in Tokens \cup {NoToken} /\ refresh[c] \in Tokens \cup {NoToken}
        /\ quiet[c] \in 0 .. RefreshLife
        /\ access[c] # NoToken => access[c].age <= AccessLife
        /\ refresh[c] # NoToken => refresh[c].age = quiet[c]
    BY <1>2 DEF AccountsInv, TypeOK, ClientOK, Ages
  <2>2. /\ access'[c] = Older(access[c], AccessLife)
        /\ refresh'[c] = Older(refresh[c], RefreshLife)
        /\ quiet'[c] = IF refresh[c] = NoToken \/ quiet[c] = RefreshLife
                       THEN quiet[c] ELSE quiet[c] + 1
    BY DEF Tick
  <2>3. c \in Punctual /\ refresh[c] # NoToken => quiet[c] + 1 < RefreshLife
    BY DEF Tick
  <2>4. /\ access'[c] \in Tokens \cup {NoToken}
        /\ access'[c] = NoToken <=> access[c] = NoToken
        /\ access[c] # NoToken =>
             /\ access'[c].sub = access[c].sub
             /\ access'[c].age = IF access[c].age = AccessLife THEN access[c].age
                                 ELSE access[c].age + 1
    BY <1>2, <2>1, <2>2, OlderTyped
  <2>5. access[c] # NoToken => access'[c].age <= AccessLife
    <3>1. access[c] # NoToken => access[c].age \in Nat
      BY <2>1 DEF Tokens, Ages
    <3>. QED
      BY <1>2, <2>1, <2>4, <3>1
  <2>6. refresh[c] # NoToken => refresh[c].age <= RefreshLife
    BY <1>2, <2>1
  <2>7. /\ refresh'[c] \in Tokens \cup {NoToken}
        /\ refresh'[c] = NoToken <=> refresh[c] = NoToken
        /\ refresh[c] # NoToken =>
             /\ refresh'[c].sub = refresh[c].sub
             /\ refresh'[c].age = IF refresh[c].age = RefreshLife THEN refresh[c].age
                                  ELSE refresh[c].age + 1
    BY <1>2, <2>1, <2>2, <2>6, OlderTyped
  <2>8. quiet'[c] \in 0 .. RefreshLife
    BY <1>2, <2>1, <2>2
  <2>9. refresh[c] # NoToken =>
          refresh'[c].age = quiet'[c] /\ (c \in Punctual => quiet'[c] < RefreshLife)
    BY <1>2, <2>1, <2>2, <2>3, <2>7
  <2>. QED
    BY <2>4, <2>5, <2>7, <2>8, <2>9 DEF Ages
<1>4. /\ access' \in [Clients -> Tokens \cup {NoToken}]
      /\ refresh' \in [Clients -> Tokens \cup {NoToken}]
      /\ quiet' \in [Clients -> Ages]
  <2>1. /\ access' = [c \in Clients |-> access'[c]]
        /\ refresh' = [c \in Clients |-> refresh'[c]]
        /\ quiet' = [c \in Clients |-> quiet'[c]]
    BY DEF Tick
  <2>. QED
    BY <1>3, <2>1
<1>5. ASSUME NEW c \in Clients PROVE ClientOK(c)'
  <2>1. \A j : Owns(c, j) => Owns(c, j)'
    BY <1>1, OwnershipKept
  <2>. QED
    BY <1>1, <1>3, <2>1 DEF AccountsInv, ClientOK, Tokens
<1>. QED
  BY <1>1, <1>4, <1>5, SessionStep DEF AccountsInv, TypeOK

\* Every step keeps the invariant.
LEMMA AccountsInvStep == AccountsInv /\ [Next]_accountVars => AccountsInv'
<1> SUFFICES ASSUME AccountsInv, [Next]_accountVars PROVE AccountsInv'
  OBVIOUS
<1>1. ASSUME NEW i \in UserIds, Deactivate(i) PROVE AccountsInv'
  <2>1. /\ users' \in [UserIds -> Rows \cup {NoUser}] /\ RowsKept /\ AddressesUnique'
        /\ UNCHANGED <<registration, publicId, sessionVars>>
    BY <1>1, DeactivateRow DEF Deactivate
  <2>2. \A c \in Clients : ClientOK(c)'
    BY <2>1, ClientKept DEF AccountsInv, sessionVars
  <2>. QED
    BY <2>1, <2>2 DEF AccountsInv, TypeOK, sessionVars, Rows, Tokens, Email, Password
<1>2. ASSUME UNCHANGED accountVars PROVE AccountsInv'
  <2>1. \A c \in Clients : ClientOK(c)'
    BY <1>2, ClientKept DEF AccountsInv, accountVars, sessionVars, RowsKept, Registered
  <2>. QED
    BY <1>2, <2>1, SessionStep DEF AccountsInv, TypeOK, accountVars, sessionVars
<1>3. ASSUME NEW c \in Clients, GetCurrentUser(c) \/ GetOptionalCurrentUser(c)
      PROVE  AccountsInv'
  BY <1>3, CallStep DEF GetCurrentUser, GetOptionalCurrentUser
<1>. QED
  BY <1>1, <1>2, <1>3, RegistrationStep, LoginStep, RefreshStep, RefusedStep, TickStep
     DEF Next

\* The invariant holds in every reachable state.
LEMMA AccountsInOrder == Spec => []AccountsInv
<1>1. Init => AccountsInv
  <2> SUFFICES ASSUME Init PROVE AccountsInv
    OBVIOUS
  <2>1. Registered = {}
    BY DEF Init, Registered
  <2>2. TypeOK
    BY AccountsAssumption DEF Init, TypeOK, Ages
  <2>3. ASSUME NEW c \in Clients PROVE ClientOK(c)
    BY AccountsAssumption DEF Init, ClientOK
  <2>. QED
    BY <2>1, <2>2, <2>3 DEF AccountsInv, AddressesUnique
<1>. QED
  BY <1>1, AccountsInvStep, PTL DEF Spec

\* Rows, tokens and requests have their types.
THEOREM TypeCorrect == Spec => []TypeOK
<1>1. AccountsInv => TypeOK
  BY DEF AccountsInv
<1>. QED
  BY <1>1, AccountsInOrder, PTL

\* Of any number of registrations of one address, in any interleaving of their
\* statements, exactly the one that was told 201 has the account
\* (user_service.py:41, :82).
THEOREM RegistrationHonest == Spec => []CreatedIsTheirs
<1>1. AccountsInv => CreatedIsTheirs
  BY DEF AccountsInv, ClientOK, Owns, AddressesUnique, CreatedIsTheirs
<1>. QED
  BY <1>1, AccountsInOrder, PTL

\* Nobody is served as another account, and nobody on the strength of a token
\* older than AccessLife, whatever token is sent where.
THEOREM NobodyElse == Spec => []ServedAsOneself
<1>1. AccountsInv => ServedAsOneself
  BY DEF AccountsInv, ClientOK, Owns, ServedAsOneself
<1>. QED
  BY <1>1, AccountsInOrder, PTL

\* A punctual client loses its session only with its account.
THEOREM SessionKept == Spec => SessionSurvives
<1>1. AccountsInv /\ [Next]_accountVars =>
        [\A c \in Punctual : refresh[c] # NoToken /\ refresh'[c] = NoToken =>
           ~users[refresh[c].sub].is_active]_accountVars
  <2> SUFFICES ASSUME AccountsInv, Next, NEW c \in Punctual,
                      refresh[c] # NoToken, refresh'[c] = NoToken
               PROVE  ~users[refresh[c].sub].is_active
    OBVIOUS
  <2>1. c \in Clients /\ refresh[c] \in Tokens /\ refresh \in [Clients -> Tokens \cup {NoToken}]
    BY AccountsAssumption DEF AccountsInv, TypeOK
  <2>2. DecodeRefreshToken(refresh[c]) /\ refresh[c].sub \in Registered
    BY <2>1 DEF AccountsInv, ClientOK, Owns, DecodeRefreshToken
  <2>3. CASE RefreshRefused(c)
    BY <2>2, <2>3 DEF RefreshRefused, Standing
  <2>4. NoToken \notin Tokens
    BY AccountsAssumption
  <2>5. ASSUME NEW d \in Clients, Login(d) \/ Refresh(d) \/ (d # c /\ RefreshRefused(d))
        PROVE  FALSE
    <3>1. ASSUME NEW i, Owns(d, i), Given(d, Fresh(i), Fresh(i)) PROVE FALSE
      <4>1. Fresh(i) \in Tokens
        BY <3>1, AccountsAssumption DEF Fresh, Tokens, Ages, Owns, Registered
      <4>. QED
        BY <2>1, <2>4, <3>1, <4>1 DEF Given
    <3>2. CASE Login(d)
      BY <3>1, <3>2 DEF Login, Authenticates, Owns
    <3>3. CASE Refresh(d)
      <4>1. Owns(d, refresh[d].sub)
        BY <3>3 DEF Refresh, DecodeRefreshToken, AccountsInv, ClientOK
      <4>. QED
        BY <3>1, <3>3, <4>1 DEF Refresh, Rotated
    <3>4. CASE d # c /\ RefreshRefused(d)
      BY <2>1, <3>4 DEF RefreshRefused, Given
    <3>. QED
      BY <2>5, <3>2, <3>3, <3>4
  <2>6. CASE Tick
    <3>1. refresh'[c] = Older(refresh[c], RefreshLife)
      BY <2>1, <2>6 DEF Tick
    <3>2. Older(refresh[c], RefreshLife) \in Tokens
      BY <2>1, OlderTyped, AccountsAssumption DEF Tokens, Ages
    <3>. QED
      BY <2>4, <3>1, <3>2
  <2>7. CASE UNCHANGED refresh
    BY <2>7
  <2>. QED
    BY <2>3, <2>5, <2>6, <2>7 DEF Next, CheckEmail, DrawId, InsertUser,
       RegistrationFails, sessionVars, GetCurrentUser, GetOptionalCurrentUser, Call,
       Deactivate
<1>. QED
  BY <1>1, AccountsInOrder, PTL DEF Spec, SessionSurvives
=============================================================================
