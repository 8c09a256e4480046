------------------------------ MODULE Sessions ------------------------------
(***************************************************************************)
(* The user repositories (database/user.rs) and roles (database/models.rs); *)
(* registration, login, refresh and the change of roles (api/mod.rs).      *)
(* Each client makes one request at a time, whose handler awaits the       *)
(* repository between its steps.  Every route but /health asks for an      *)
(* access token, the ones that hand out tokens included.  The rate limiter *)
(* of the same middleware, which shares no state with them, comes last.    *)
(*                                                                         *)
(* Risks: "same_registration", two registrations overlap; "role_and_login",*)
(* the change of a user's role overlaps a login of that user.              *)
(***************************************************************************)
EXTENDS Parts, Integers, Sequences

-----------------------------------------------------------------------------
(* Users.  SurrealUserRepository is the one main.rs uses: its rows get      *)
(* record ids of the database, which are no UUIDs, so that every row it    *)
(* reads carries a new random id and no query by id finds one.             *)
(* MemoryUserRepository is the other implementation of the trait, used in  *)
(* tests.                                                                  *)
CONSTANTS Name, Mail

VARIABLE users \* the rows, in the order of their creation

(* UserRole, by its levels. *)
Guest == 0
Viewer == 1
Plain == 2
Manager == 3
Admin == 4
Role == Guest .. Admin

CanRead(role) == role >= Viewer
CanWrite(role) == role >= Plain
CanAdminister(role) == role >= Admin

User == [name: Name, mail: Mail, role: Role, seen: Nat]

Nobody == 0 \* an id that no row has
Memory == mix.repository = "memory"

(* The id under which a row is handed out: parse_user of a surreal row     *)
(* makes one up.                                                           *)
IdOf(i) == IF Memory THEN i ELSE Nobody

(* find_by_id: the rows with the id. *)
WithId(id) == {i \in DOMAIN users : Memory /\ i = id}

(* find_by_username: the first row of the name. *)
WithName(n) ==
  {i \in DOMAIN users : /\ users[i].name = n
                        /\ \A j \in 1 .. i - 1 : users[j].name # n}

(* Mutant: the e-mail address is compared with names. *)
MailTakenByName(m) == \E i \in DOMAIN users : users[i].name = m

NameTaken(n) == \E i \in DOMAIN users : users[i].name = n
MailTaken(m) == \E i \in DOMAIN users : users[i].mail = m

(* The unique indexes of the table refuse a row; memory takes any. *)
CanCreate(n, m) == Memory \/ ~(NameTaken(n) \/ MailTaken(m))

(* User::new, with the role a registration gives. *)
NewUser(n, m) == [name |-> n, mail |-> m, role |-> Plain, seen |-> 0]
Create(n, m) == users' = Append(users, NewUser(n, m))

(* update writes every field of the row; without the row it changes        *)
(* nothing and reports NotFound.                                           *)
Update(id, row) ==
  users' = [i \in DOMAIN users |-> IF i \in WithId(id) THEN row ELSE users[i]]

(* update_last_login, likewise. *)
UpdateLastLogin(id, time) ==
  users' = [i \in DOMAIN users |->
              IF i \in WithId(id) THEN [users[i] EXCEPT !.seen = time] ELSE users[i]]

-----------------------------------------------------------------------------
(* Tokens.                                                                 *)

CONSTANTS
  AccessTTL,  \* ACCESS_TOKEN_TTL and REFRESH_TOKEN_TTL, in ticks
  RefreshTTL

ASSUME TTLAssumption == AccessTTL \in Nat /\ RefreshTTL \in Nat

VARIABLES
  now,   \* the time, in ticks
  tokens \* the tokens that exist, mix.issued from outside this program

(* Tokens (api/auth.rs).  A token carries the user's id and role as they   *)
(* were when it was issued; nothing revokes it before it expires.          *)
Claims == [id: Nat, role: Role, typ: {"access", "refresh"}, exp: Nat]
NoToken == [id |-> Nobody, role |-> Guest, typ |-> "none", exp |-> 0]

(* The routes that matter: the two kinds of paths that skip the layer, or   *)
(* are meant to, and the rest.                                             *)
Path == {"/api/auth", "/health", "/api/v1"}

(* Mutant: the routes of the comments. *)
PublicAsDocumented(path) == path \in {"/api/auth", "/health"}

(* auth_middleware looks for paths under "/auth"; the router has none. *)
Public(path) == path = "/health"

Valid(tok) == tok \in tokens /\ tok.exp >= now

(* validate_access_token, validate_refresh_token. *)
ValidAccess(tok) == Valid(tok) /\ tok.typ = "access"
ValidRefresh(tok) == Valid(tok) /\ tok.typ = "refresh"

(* The layer lets a request with this token, if any, through. *)
Admits(path, tok) == Public(path) \/ ValidAccess(tok)

(* create_token, create_refresh_token. *)
Pair(id, role) ==
  {[id |-> id, role |-> role, typ |-> "access", exp |-> now + AccessTTL],
   [id |-> id, role |-> role, typ |-> "refresh", exp |-> now + RefreshTTL]}
Issue(id, role) == tokens' = tokens \cup Pair(id, role)
-----------------------------------------------------------------------------
CONSTANTS
  Client,
  NewRole, \* the roles that users are given
  MaxRequests, MaxTime

(* A token from outside names nobody that the repository has: it begins     *)
(* empty, and gives its rows new ids.                                      *)
ASSUME SessionsAssumption ==
  /\ NewRole \subseteq Role /\ MaxRequests \in Nat /\ MaxTime \in Nat
  /\ \A m \in Mixes : m.part = "sessions" =>
       \A tok \in m.issued : tok \in Claims /\ tok.id = Nobody

VARIABLES
  req,     \* each client's request and its handler's locals
  made,    \* requests made
  served,  \* the latest request served: by whom, in which role, when (history)
  held,    \* when each user last had each role (history)
  entered  \* when each user last logged in (history)

sessionVars == <<users, now, tokens, req, made, served, held, entered>>

Rest == [at |-> "idle", name |-> "none", mail |-> "none", id |-> Nobody, row |-> 0,
         role |-> Plain, seen |-> 0]
Goto(c, p) == req' = [req EXCEPT ![c] = [@ EXCEPT !.at = p]]
Answer(c) == req' = [req EXCEPT ![c] = Rest]
Others(c) == Client \ {c}
In(c, steps) == req[c].at \in steps

Registering == {"mail", "create"}
LoggingIn == {"seen", "issue"}

(* A request, with a token or with none. *)
Arrives(c, tok) ==
  /\ Moves("sessions")
  /\ In(c, {"idle"})
  /\ made < MaxRequests
  /\ made' = made + 1
  /\ tok \in tokens \cup {NoToken}

Quiet == UNCHANGED <<mix, now, tokens, made, served, held, entered>>

-----------------------------------------------------------------------------
(* register_handler: username_exists, email_exists and create, each an      *)
(* await; a query that fails counts as "does not exist".                   *)
Register(c, tok, n, m) ==
  /\ Arrives(c, tok)
  /\ Admits("/api/auth", tok)
  /\ Risk("same_registration") \/ \A d \in Others(c) : ~In(d, {"name"} \cup Registering)
  /\ req' = [req EXCEPT ![c] = [@ EXCEPT !.at = "name", !.name = n, !.mail = m]]
  /\ UNCHANGED <<mix, users, now, tokens, served, held, entered>>

CheckName(c) ==
  /\ In(c, {"name"})
  /\ \/ ~NameTaken(req[c].name) /\ Goto(c, "mail")
     \/ NameTaken(req[c].name) /\ Answer(c)
     \/ ~Memory /\ Goto(c, "mail")
  /\ UNCHANGED users /\ Quiet

CheckMail(c) ==
  /\ In(c, {"mail"})
  /\ \/ ~MailTaken(req[c].mail) /\ Goto(c, "create")
     \/ MailTaken(req[c].mail) /\ Answer(c)
     \/ ~Memory /\ Goto(c, "create")
  /\ UNCHANGED users /\ Quiet

CreateUser(c) ==
  LET i == Len(users) + 1 IN
  /\ In(c, {"create"})
  /\ CanCreate(req[c].name, req[c].mail)
  /\ Create(req[c].name, req[c].mail)
  /\ Issue(IdOf(i), Plain)
  /\ held' = Append(held, [r \in Role |-> IF r = Plain THEN now ELSE -1])
  /\ entered' = Append(entered, 0)
  /\ Answer(c)
  /\ UNCHANGED <<mix, now, made, served>>

CreateFails(c) ==
  /\ In(c, {"create"})
  /\ ~Memory
  /\ Answer(c)
  /\ UNCHANGED users /\ Quiet

(* login_handler with the right password. *)
Login(c, tok, i) ==
  /\ Arrives(c, tok)
  /\ Admits("/api/auth", tok)
  /\ i \in WithName(users[i].name)
  /\ Risk("role_and_login") \/
       \A d \in Others(c) : ~(In(d, {"store"}) /\ req[d].row = i)
  /\ req' = [req EXCEPT ![c] = [@ EXCEPT !.at = "seen", !.id = IdOf(i), !.row = i,
                                        !.role = users[i].role]]
  /\ UNCHANGED <<mix, users, now, tokens, served, held, entered>>

(* Its update_last_login, whose error is ignored. *)
StampLogin(c) ==
  /\ In(c, {"seen"})
  /\ UpdateLastLogin(req[c].id, now)
  /\ entered' = IF Memory THEN [entered EXCEPT ![req[c].row] = now] ELSE entered
  /\ Goto(c, "issue")
  /\ UNCHANGED <<mix, now, tokens, made, served, held>>

IssueTokens(c) ==
  /\ In(c, {"issue"})
  /\ Issue(req[c].id, req[c].role)
  /\ Answer(c)
  /\ UNCHANGED <<mix, users, now, made, served, held, entered>>

(* Mutant: the role is taken from the old token. *)
RoleOfToken(i, old) == old.role

(* refresh_handler reads the user again for its current role. *)
RoleToIssue(i, old) == users[i].role

Refresh(c, tok, old) ==
  /\ Arrives(c, tok)
  /\ Admits("/api/auth", tok)
  /\ ValidRefresh(old)
  /\ \E i \in WithId(old.id) : Issue(IdOf(i), RoleToIssue(i, old))
  /\ UNCHANGED <<mix, users, now, req, served, held, entered>>

(* The user of the token is not found: no tokens, 401. *)
RefreshRefused(c, tok, old) ==
  /\ Arrives(c, tok)
  /\ Admits("/api/auth", tok)
  /\ ValidRefresh(old)
  /\ WithId(old.id) = {}
  /\ UNCHANGED <<mix, users, now, tokens, req, served, held, entered>>

(* update_user_role_handler: find_by_id, then update with the whole row. *)
LoadUser(c, tok, i, r) ==
  /\ Arrives(c, tok)
  /\ Admits("/api/v1", tok)
  /\ CanAdminister(tok.role)
  /\ i \in WithId(i)
  /\ Risk("role_and_login") \/
       \A d \in Others(c) : ~(In(d, LoggingIn) /\ req[d].row = i)
  /\ req' = [req EXCEPT ![c] = [at |-> "store", id |-> i, row |-> i,
                                name |-> users[i].name, mail |-> users[i].mail,
                                role |-> r, seen |-> users[i].seen]]
  /\ UNCHANGED <<mix, users, now, tokens, served, held, entered>>

(* Mutant: the row is built anew. *)
RowAnew(c) ==
  [name |-> req[c].name, mail |-> req[c].mail, role |-> req[c].role, seen |-> 0]

RowToStore(c) ==
  [name |-> req[c].name, mail |-> req[c].mail, role |-> req[c].role, seen |-> req[c].seen]

StoreUser(c) ==
  LET i == req[c].row IN
  /\ In(c, {"store"})
  /\ Update(req[c].id, RowToStore(c))
  /\ held' = [held EXCEPT ![i] = [@ EXCEPT ![users[i].role] = now, ![req[c].role] = now]]
  /\ Answer(c)
  /\ UNCHANGED <<mix, now, tokens, made, served, entered>>

(* Any other handler, which asks for a role of the token's. *)
Serve(c, tok) ==
  /\ Arrives(c, tok)
  /\ Admits("/api/v1", tok)
  /\ CanRead(tok.role)
  /\ served' = [id |-> tok.id, role |-> tok.role, at |-> now]
  /\ UNCHANGED <<mix, users, now, tokens, req, held, entered>>

Tick ==
  /\ Moves("sessions")
  /\ now < MaxTime
  /\ now' = now + 1
  /\ held' = [i \in DOMAIN held |-> [held[i] EXCEPT ![users[i].role] = now + 1]]
  /\ UNCHANGED <<mix, users, tokens, req, made, served, entered>>

SessionsInit ==
  /\ users = << >>
  /\ now = 0
  /\ tokens = IF Moves("sessions") THEN mix.issued ELSE {}
  /\ req = [c \in Client |-> Rest]
  /\ made = 0
  /\ served = [id |-> Nobody, role |-> Plain, at |-> 0]
  /\ held = << >>
  /\ entered = << >>

SessionsNext ==
  \/ \E c \in Client, tok \in tokens \cup {NoToken} :
       \/ \E n \in Name, m \in Mail : Register(c, tok, n, m)
       \/ \E i \in DOMAIN users : Login(c, tok, i)
       \/ \E old \in tokens : Refresh(c, tok, old) \/ RefreshRefused(c, tok, old)
       \/ \E i \in DOMAIN users, r \in NewRole : LoadUser(c, tok, i, r)
       \/ Serve(c, tok)
  \/ \E c \in Client :
       \/ CheckName(c) \/ CheckMail(c) \/ CreateUser(c) \/ CreateFails(c)
       \/ StampLogin(c) \/ IssueTokens(c) \/ StoreUser(c)
  \/ Tick

-----------------------------------------------------------------------------
SessionsTypeOK ==
  /\ users \in Seq(User)
  /\ now \in 0 .. MaxTime
  /\ tokens \subseteq Claims
  /\ made \in 0 .. MaxRequests
  /\ Len(held) = Len(users) /\ Len(entered) = Len(users)

(* "username already taken", "email already registered": no two users share *)
(* either, unless two registrations overlap in a repository without unique *)
(* indexes.                                                                *)
UsersUnique ==
  ~Memory \/ Safe({"same_registration"}) =>
    \A i, j \in DOMAIN users :
      users[i].name = users[j].name \/ users[i].mail = users[j].mail => i = j

(* The role a request is served in is one its user had within the life of   *)
(* an access token before: a change of role takes effect after that time,  *)
(* however tokens are refreshed, unless a login overlaps it.               *)
RoleWithinTTL ==
  Moves("sessions") /\ Safe({"role_and_login"}) /\ served.id # Nobody =>
    held[served.id][served.role] + AccessTTL >= served.at

(* A user's last login is not set back by a change of role, which writes    *)
(* the whole row, unless the two overlap.                                  *)
LoginsKept ==
  Safe({"role_and_login"}) =>
    \A i \in DOMAIN users : users[i].seen = entered[i]

(* The routes that hand out tokens ask for one: where none was issued from  *)
(* outside, nobody ever registers, and no token exists.                    *)
FirstTokenFromOutside ==
  Moves("sessions") /\ mix.issued = {} => users = << >> /\ tokens = {}

-----------------------------------------------------------------------------
(***************************************************************************)
(* The rate limiter of api/middleware.rs: one token bucket for each user,  *)
(* address or endpoint, refilled when it is asked.  A token is counted as  *)
(* Minute units, so that a limit of L per minute refills L units a tick.   *)
(***************************************************************************)
CONSTANTS
  Key,      \* what determine_key_and_limit makes of requests
  LimitsOf, \* the limits each key is asked under: a user has one for each
            \* role in a token that is still valid
  Minute,   \* ticks
  MaxAsked, MaxTicks

ASSUME LimiterAssumption ==
  /\ LimitsOf \in [Key -> SUBSET Nat]
  /\ Minute \in Nat \ {0}
  /\ MaxAsked \in Nat /\ MaxTicks \in Nat

VARIABLES
  set,     \* whether init_rate_limiter has run
  bucket,  \* the buckets of the global limiter
  tick,    \* Instant::now()
  asked,   \* requests so far
  passed,  \* when each key's requests were allowed (history)
  promised \* for the latest refusal of each key: its limit, and the time at
           \* which retry_after has passed (history)

limiterVars == <<set, bucket, tick, asked, passed, promised>>

Absent == [units |-> -1, last |-> 0]
NoPromise == [limit |-> 0, at |-> 0]

LeastOf(a, b) == IF a < b THEN a ELSE b
GreatestOf(a, b) == IF a > b THEN a ELSE b

(* A limit of 0 counts as 1; bursts of twice the limit are allowed. *)
Steady(limit) == GreatestOf(limit, 1)
Capacity(limit) == 2 * Steady(limit) * Minute

(* Mutant: the bucket is refilled without an end. *)
RefilledOver(b, limit) == b.units + (tick - b.last) * Steady(limit)

(* The units of a bucket when it is asked under a limit. *)
Refilled(b, limit) ==
  LeastOf(b.units + (tick - b.last) * Steady(limit), Capacity(limit))

UnitsNow(b, limit) == IF b = Absent THEN Capacity(limit) ELSE Refilled(b, limit)

(* Mutant: rounded down. *)
RetryAfterFloor(units, limit) == GreatestOf((Minute - units) \div Steady(limit), 1)

(* retry_after, rounded up, at least 1. *)
RetryAfter(units, limit) ==
  GreatestOf((Minute - units + Steady(limit) - 1) \div Steady(limit), 1)

(* get_rate_limiter: before init_rate_limiter, each request gets a limiter  *)
(* of its own, all of whose buckets are full.                              *)
BucketOf(k) == IF set THEN bucket[k] ELSE Absent

InitRateLimiter ==
  /\ Moves("limiter")
  /\ ~set
  /\ set' = TRUE
  /\ UNCHANGED <<mix, bucket, tick, asked, passed, promised>>

Asks(k) ==
  /\ Moves("limiter") /\ k \in mix.keys
  /\ asked < MaxAsked
  /\ asked' = asked + 1
  /\ UNCHANGED <<mix, set, tick>>

Allow(k, limit) ==
  LET units == UnitsNow(BucketOf(k), limit) IN
  /\ Asks(k)
  /\ units >= Minute
  /\ bucket' = IF set THEN [bucket EXCEPT ![k] = [units |-> units - Minute, last |-> tick]]
                      ELSE bucket
  /\ passed' = IF set THEN [passed EXCEPT ![k] = Append(@, tick)] ELSE passed
  /\ promised' = [promised EXCEPT ![k] = NoPromise]

Refuse(k, limit) ==
  LET units == UnitsNow(BucketOf(k), limit) IN
  /\ Asks(k)
  /\ units < Minute
  /\ bucket' = [bucket EXCEPT ![k] = [units |-> units, last |-> tick]]
  /\ promised' = [promised EXCEPT ![k] =
                    [limit |-> limit, at |-> tick + RetryAfter(units, limit)]]
  /\ UNCHANGED passed

LimiterTick ==
  /\ Moves("limiter")
  /\ tick < MaxTicks
  /\ tick' = tick + 1
  /\ UNCHANGED <<mix, set, bucket, asked, passed, promised>>

LimiterInit ==
  /\ set = FALSE
  /\ bucket = [k \in Key |-> Absent]
  /\ tick = 0
  /\ asked = 0
  /\ passed = [k \in Key |-> << >>]
  /\ promised = [k \in Key |-> NoPromise]

LimiterNext ==
  \/ InitRateLimiter
  \/ \E k \in Key : \E limit \in LimitsOf[k] : Allow(k, limit) \/ Refuse(k, limit)
  \/ LimiterTick

-----------------------------------------------------------------------------
(* In no span of time are more requests of a key allowed than a burst of    *)
(* twice its limit, and its limit for each minute of the span; for a user  *)
(* with several roles the highest limit counts.  Holds of the global       *)
(* limiter only: before init_rate_limiter nothing is limited.              *)
WindowBounded ==
  \A k \in Key : \A limit \in LimitsOf[k] :
    (\A other \in LimitsOf[k] : other <= limit) =>
      \A i, j \in DOMAIN passed[k] :
        i <= j => (j - i + 1) * Minute <=
                    Capacity(limit) + Steady(limit) * (passed[k][j] - passed[k][i])

(* Who waits as long as Retry-After says, and asks under the same limit,    *)
(* is allowed.                                                             *)
RetryAfterSuffices ==
  \A k \in Key :
    (promised[k].limit # 0 /\ LimitsOf[k] = {promised[k].limit} /\ tick >= promised[k].at) =>
      UnitsNow(BucketOf(k), promised[k].limit) >= Minute
=============================================================================
