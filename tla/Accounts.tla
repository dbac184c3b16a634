------------------------------- MODULE Accounts -------------------------------
(***************************************************************************)
(* Registration, login, refresh and the dependency every protected         *)
(* endpoint begins with.  The endpoints run in a pool of threads: between  *)
(* two statements of one registration another one may commit.              *)
(*                                                                         *)
(* A token is signed and kept by its client alone; the server stores none. *)
(* It is the id of its subject and its age, which the clock advances and   *)
(* which stops growing where no check can tell it from older ones.         *)
(***************************************************************************)
EXTENDS Naturals, FiniteSets

CONSTANTS
    Clients,       \* people, each with one email address and one password
    Credentials,   \* [email, password] of each, two may claim one address
    UserIds,
    AccessLife,    \* ACCESS_TOKEN_EXPIRE_MINUTES, in steps of the clock
    RefreshLife,   \* REFRESH_TOKEN_EXPIRE_DAYS, in steps of the clock
    Punctual,      \* the clients that refresh before RefreshLife has passed
    NoUser, NoId, NoToken, Anonymous, Refused

Email(c) == Credentials[c].email
Password(c) == Credentials[c].password
Ages == 0 .. RefreshLife
Tokens == [sub : UserIds, age : Ages]
Rows == [email : {Email(c) : c \in Clients},
         password : {Password(c) : c \in Clients}, is_active : BOOLEAN]

ASSUME AccountsAssumption ==
    /\ AccessLife \in Nat /\ RefreshLife \in Nat
    /\ 0 < AccessLife /\ AccessLife <= RefreshLife
    /\ \A c \in Clients : {"email", "password"} \subseteq DOMAIN Credentials[c]
    /\ Punctual \subseteq Clients
    /\ NoUser \notin Rows /\ NoId \notin UserIds
    /\ {NoToken, Anonymous, Refused} \cap Tokens = {}

VARIABLES
    users,             \* rows by public_id
    registration,      \* progress of each client's POST /auth/register
    publicId,          \* the id it drew
    access, refresh,   \* the tokens each client holds
    quiet,             \* time since a client was last given tokens
    served             \* the token its last call was served with

sessionVars == <<access, refresh, quiet, served>>
accountVars == <<users, registration, publicId, sessionVars>>

Init ==
    /\ users = [i \in UserIds |-> NoUser]
    /\ registration = [c \in Clients |-> "idle"]
    /\ publicId = [c \in Clients |-> NoId]
    /\ access = [c \in Clients |-> NoToken]
    /\ refresh = [c \in Clients |-> NoToken]
    /\ quiet = [c \in Clients |-> 0]
    /\ served = [c \in Clients |-> Anonymous]

Registered == {i \in UserIds : users[i] # NoUser}
-----------------------------------------------------------------------------
(* register_user.                                                          *)

EmailTaken(email) == \E i \in Registered : users[i].email = email

\* The address is looked up before the password is hashed.
CheckEmail(c) ==
    /\ registration[c] = "idle"
    /\ registration' = [registration EXCEPT
         ![c] = IF EmailTaken(Email(c)) THEN "conflict" ELSE "checked"]
    /\ UNCHANGED <<users, publicId, sessionVars>>

\* Five ids of five digits, then a longer one: some id without a row is found.
DrawId(c) ==
    /\ registration[c] = "checked"
    /\ \E i \in UserIds \ Registered : publicId' = [publicId EXCEPT ![c] = i]
    /\ registration' = [registration EXCEPT ![c] = "drawn"]
    /\ UNCHANGED <<users, sessionVars>>

\* Mutation: users.email has no unique constraint.
UniqueIdOnly(c) == users[publicId[c]] = NoUser

\* UNIQUE (public_id), UNIQUE (email).
Unique(c) == users[publicId[c]] = NoUser /\ ~EmailTaken(Email(c))

Insert(c) ==
    users' = [users EXCEPT ![publicId[c]] =
      [email |-> Email(c), password |-> Password(c), is_active |-> TRUE]]

InsertUser(c) ==
    /\ registration[c] = "drawn"
    /\ IF Unique(c)
       THEN Insert(c) /\ registration' = [registration EXCEPT ![c] = "created"]
       ELSE registration' = [registration EXCEPT ![c] = "conflict"] /\ UNCHANGED users
    /\ UNCHANGED <<publicId, sessionVars>>

\* REGISTRATION_FAILED: the database fails before the commit, or in refresh()
\* after it, when the account is there.
RegistrationFails(c) ==
    /\ registration[c] = "drawn"
    /\ UNCHANGED users \/ (Unique(c) /\ Insert(c))
    /\ registration' = [registration EXCEPT ![c] = "error"]
    /\ UNCHANGED <<publicId, sessionVars>>
-----------------------------------------------------------------------------
(* authenticate_user and refresh_access_token.                             *)

Fresh(i) == [sub |-> i, age |-> 0]

Authenticates(c, i) ==
    /\ users[i].email = Email(c)
    /\ users[i].password = Password(c)
    /\ users[i].is_active

Given(c, accessToken, refreshToken) ==
    /\ access' = [access EXCEPT ![c] = accessToken]
    /\ refresh' = [refresh EXCEPT ![c] = refreshToken]
    /\ quiet' = [quiet EXCEPT ![c] = 0]

\* Refused for an unknown address, a wrong password and an account that is not
\* active alike; a client that is refused changes nothing.
Login(c) ==
    \E i \in Registered :
      /\ Authenticates(c, i)
      /\ Given(c, Fresh(i), Fresh(i))
      /\ UNCHANGED <<users, registration, publicId, served>>

Standing(token) == token.sub \in Registered /\ users[token.sub].is_active

DecodeRefreshToken(token) == token # NoToken /\ token.age < RefreshLife

\* Mutation: the refresh token is not rotated.
RotatedNot(token) == token

\* The new refresh token has a life of its own; the old one stays valid.
Rotated(token) == Fresh(token.sub)

\* If the answer is lost the client keeps what it has.
Refresh(c) ==
    /\ DecodeRefreshToken(refresh[c]) /\ Standing(refresh[c])
    /\ \/ Given(c, Fresh(refresh[c].sub), Rotated(refresh[c]))
       \/ UNCHANGED <<access, refresh, quiet>>
    /\ UNCHANGED <<users, registration, publicId, served>>

\* 401: the client gives up its tokens and is back at the login form.
RefreshRefused(c) ==
    /\ refresh[c] # NoToken
    /\ ~(DecodeRefreshToken(refresh[c]) /\ Standing(refresh[c]))
    /\ Given(c, NoToken, NoToken)
    /\ UNCHANGED <<users, registration, publicId, served>>
-----------------------------------------------------------------------------
(* get_current_user and get_optional_current_user.                         *)

\* Mutation: the claim "type" is not compared.
DecodeAccessTokenOfAnyType(type, token) ==
    token # NoToken
      /\ token.age < (IF type = "access" THEN AccessLife ELSE RefreshLife)

DecodeAccessToken(type, token) ==
    token # NoToken /\ type = "access" /\ token.age < AccessLife

\* A client may send either of its tokens.  Without a valid one a protected
\* endpoint answers 401 and a public one serves it as anybody.
Call(c, type, otherwise) ==
    /\ LET token == IF type = "access" THEN access[c] ELSE refresh[c]
       IN served' = [served EXCEPT
            ![c] = IF DecodeAccessToken(type, token) /\ Standing(token)
                   THEN token ELSE otherwise]
    /\ UNCHANGED <<users, registration, publicId, access, refresh, quiet>>

GetCurrentUser(c) == \E type \in {"access", "refresh"} : Call(c, type, Refused)
GetOptionalCurrentUser(c) == \E type \in {"access", "refresh"} : Call(c, type, Anonymous)
-----------------------------------------------------------------------------
\* No endpoint does it: an administrator changes the row.
Deactivate(i) ==
    /\ i \in Registered /\ users[i].is_active
    /\ users' = [users EXCEPT ![i].is_active = FALSE]
    /\ UNCHANGED <<registration, publicId, sessionVars>>

Older(token, life) ==
    IF token = NoToken \/ token.age = life THEN token
    ELSE [token EXCEPT !.age = @ + 1]

\* Time passes.  A punctual client is given tokens once in every RefreshLife.
Tick ==
    /\ \A c \in Punctual : refresh[c] # NoToken => quiet[c] + 1 < RefreshLife
    /\ access' = [c \in Clients |-> Older(access[c], AccessLife)]
    /\ refresh' = [c \in Clients |-> Older(refresh[c], RefreshLife)]
    /\ quiet' = [c \in Clients |->
         IF refresh[c] = NoToken \/ quiet[c] = RefreshLife THEN quiet[c] ELSE quiet[c] + 1]
    /\ UNCHANGED <<users, registration, publicId, served>>

Next ==
    \/ \E c \in Clients :
         \/ CheckEmail(c) \/ DrawId(c) \/ InsertUser(c) \/ RegistrationFails(c)
         \/ Login(c) \/ Refresh(c) \/ RefreshRefused(c)
         \/ GetCurrentUser(c) \/ GetOptionalCurrentUser(c)
    \/ \E i \in UserIds : Deactivate(i)
    \/ Tick

Spec == Init /\ [][Next]_accountVars
-----------------------------------------------------------------------------
TypeOK ==
    /\ users \in [UserIds -> Rows \cup {NoUser}]
    /\ registration \in
         [Clients -> {"idle", "checked", "drawn", "created", "conflict", "error"}]
    /\ publicId \in [Clients -> UserIds \cup {NoId}]
    /\ access \in [Clients -> Tokens \cup {NoToken}]
    /\ refresh \in [Clients -> Tokens \cup {NoToken}]
    /\ quiet \in [Clients -> Ages]
    /\ served \in [Clients -> Tokens \cup {Anonymous, Refused}]

\* A client that was told 201 has an account with its address and its password,
\* and nobody else has one with that address, though the look-up and the
\* insertion are two statements (user_service.py:41, :82): what login by
\* scalar_one_or_none (user_service.py:115) relies on.
CreatedIsTheirs ==
    \A c \in Clients :
      registration[c] = "created" =>
        /\ users[publicId[c]].email = Email(c)
        /\ users[publicId[c]].password = Password(c)
        /\ \A i \in Registered : users[i].email = Email(c) => i = publicId[c]

\* Whatever token a client sends where, it is served only as the account whose
\* password it knows, and only within AccessLife of presenting that password or
\* a refresh token: a refresh token is no long-lived access token
\* (security.py:146).
ServedAsOneself ==
    \A c \in Clients :
      served[c] \in Tokens =>
        /\ served[c].age < AccessLife
        /\ users[served[c].sub].email = Email(c)
        /\ users[served[c].sub].password = Password(c)

\* A client that refreshes in time keeps its session for ever, lost answers and
\* retries with an old refresh token included, while its account is active
\* (test_auth_refresh.py:270).
SessionSurvives ==
    [][\A c \in Punctual :
         refresh[c] # NoToken /\ refresh'[c] = NoToken =>
           ~users[refresh[c].sub].is_active]_accountVars
=============================================================================
