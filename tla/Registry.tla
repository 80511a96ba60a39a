------------------------------ MODULE Registry ------------------------------
(***************************************************************************)
(* The application registry: POST /api/v1/apps and GET /api/v1/apps/{id}   *)
(* (internal/app) over the table apps of PostgreSQL, with concurrent       *)
(* requests.  An INSERT whose reply is lost may have happened, or happen   *)
(* after the client was answered.                                          *)
(***************************************************************************)
EXTENDS Text, Naturals

CONSTANTS
    Creates, Gets,   \* requests; a create stands for the ID newID gives it
    Bodies,          \* request bodies of creates: [json, name, publisher, category]
    UnknownId,       \* an ID nothing was created with
    MaxTime          \* bound on the clock, in units of a quarter microsecond

ASSUME RegistryAssumption ==
    /\ Creates \cap Gets = {} /\ UnknownId \notin Creates
    /\ \A body \in Bodies : /\ body.name \in Seq(STRING)
                            /\ body.publisher \in Seq(STRING)
                            /\ body.category \in Seq(STRING)
    /\ MaxTime \in Nat

UnitsPerMicrosecond == 4

VARIABLES
    now,     \* the clock
    table,   \* apps: rows by ID
    create,  \* per create: phase, the App and the answer
    get      \* per get: phase, the ID, the IDs known when it began, the answer

vars == <<now, table, create, get>>

NoApp == [name |-> <<>>, publisher |-> <<>>, category |-> <<>>, createdAt |-> 0]
NoAnswer == [code |-> 0, app |-> NoApp]
Failure(code) == [code |-> code, app |-> NoApp]

Init ==
    /\ now = 0
    /\ table = <<>>
    /\ create = [r \in Creates |-> [phase |-> "idle", app |-> NoApp, answer |-> NoAnswer]]
    /\ get = [r \in Gets |->
                [phase |-> "idle", id |-> UnknownId, known |-> {}, answer |-> NoAnswer]]

Tick == now < MaxTime /\ now' = now + 1 /\ UNCHANGED <<table, create, get>>

-----------------------------------------------------------------------------
(* Creating. *)

\* Service.Create: the fields are trimmed and the time is taken.
NewApp(body) ==
    [name |-> TrimSpace(DecodeString(body.name)),
     publisher |-> TrimSpace(DecodeString(body.publisher)),
     category |-> TrimSpace(DecodeString(body.category)),
     createdAt |-> now]

\* Mutant: fields are checked before they are trimmed.
CheckedUntrimmed(body) ==
    body.json = "object" /\ body.name # <<>> /\ body.publisher # <<>> /\ body.category # <<>>

\* decodeJSON succeeds and no required field is blank.
Creatable(body) ==
    /\ body.json = "object"
    /\ LET app == NewApp(body)
       IN  app.name # <<>> /\ app.publisher # <<>> /\ app.category # <<>>

\* The handler up to the INSERT: 400 for a body it refuses.
Create(r, body) ==
    /\ create[r].phase = "idle"
    /\ create' = [create EXCEPT ![r] =
                    IF Creatable(body)
                    THEN [phase |-> "insert", app |-> NewApp(body), answer |-> NoAnswer]
                    ELSE [phase |-> "done", app |-> NoApp, answer |-> Failure(400)]]
    /\ UNCHANGED <<now, table, get>>

\* TIMESTAMP WITH TIME ZONE has microseconds.
Stored(app) == [app EXCEPT !.createdAt = @ - (@ % UnitsPerMicrosecond)]

Insert(r) ==
    table' = [id \in DOMAIN table \cup {r} |->
                IF id = r THEN Stored(create[r].app) ELSE table[id]]

\* AppRepository.Create succeeds: 201 with the App.
Created(r) ==
    /\ create[r].phase = "insert"
    /\ Insert(r)
    /\ create' = [create EXCEPT ![r].phase = "done",
                                ![r].answer = [code |-> 201, app |-> create[r].app]]
    /\ UNCHANGED <<now, get>>

\* Exec fails: 500, before the statement, or with the statement under way.
CreateFails(r) ==
    /\ create[r].phase = "insert"
    /\ \E phase \in {"done", "late"} :
         create' = [create EXCEPT ![r].phase = phase, ![r].answer = Failure(500)]
    /\ UNCHANGED <<now, table, get>>

\* PostgreSQL completes a statement nobody waits for.
LateInsert(r) ==
    /\ create[r].phase = "late"
    /\ Insert(r)
    /\ create' = [create EXCEPT ![r].phase = "done"]
    /\ UNCHANGED <<now, get>>

-----------------------------------------------------------------------------
(* Reading. *)

\* GET with an ID uuid.Parse accepts, or with another.
Get(g, id) ==
    /\ get[g].phase = "idle"
    /\ get' = [get EXCEPT ![g] =
                 [phase |-> "select", id |-> id, answer |-> NoAnswer,
                  known |-> {r \in Creates : create[r].answer.code = 201}]]
    /\ UNCHANGED <<now, table, create>>

GetInvalid(g) ==
    /\ get[g].phase = "idle"
    /\ get' = [get EXCEPT ![g].phase = "done", ![g].answer = Failure(400)]
    /\ UNCHANGED <<now, table, create>>

\* Mutant: every error of the query becomes ErrNotFound.
AnyErrorIsNotFound == Failure(404)

\* Another error than ErrNoRows.
SelectError == Failure(500)

\* AppRepository.GetByID and the answer to what it returns.
Select(g) ==
    /\ get[g].phase = "select"
    /\ \E answer \in {SelectError,
                      IF get[g].id \in DOMAIN table
                      THEN [code |-> 200, app |-> table[get[g].id]]
                      ELSE Failure(404)} :
         get' = [get EXCEPT ![g].phase = "done", ![g].answer = answer]
    /\ UNCHANGED <<now, table, create>>

Next ==
    \/ Tick
    \/ \E r \in Creates : \/ \E body \in Bodies : Create(r, body)
                          \/ Created(r) \/ CreateFails(r) \/ LateInsert(r)
    \/ \E g \in Gets : \/ \E id \in Creates \cup {UnknownId} : Get(g, id)
                       \/ GetInvalid(g) \/ Select(g)

Spec == Init /\ [][Next]_vars

-----------------------------------------------------------------------------
(* Properties. *)

\* The application read is the one told, its time to the microsecond.
SameApp(read, told) ==
    /\ read.name = told.name /\ read.publisher = told.publisher
    /\ read.category = told.category
    /\ read.createdAt <= told.createdAt
    /\ told.createdAt < read.createdAt + UnitsPerMicrosecond

\* A client that was told 201 reads its application with the fields it was
\* told, or 500 while the database fails, whatever other requests do: never
\* 404, although another create may have failed or be under way.
CreatedIsReadable ==
    \A g \in Gets : get[g].phase = "done" /\ get[g].id \in get[g].known =>
      \/ get[g].answer.code = 500
      \/ /\ get[g].answer.code = 200
         /\ SameApp(get[g].answer.app, create[get[g].id].answer.app)

\* Each row satisfies the CHECK constraints of the table, so the INSERT of a
\* create Service.Create let pass is never refused; and its create was not
\* answered 400, even if the row appears after the answer.
RowsAreWellFormed ==
    \A id \in DOMAIN table :
      /\ create[id].answer.code \in {201, 500}
      /\ TrimSpace(table[id].name) # <<>>
      /\ TrimSpace(table[id].publisher) # <<>>
      /\ TrimSpace(table[id].category) # <<>>
=============================================================================
