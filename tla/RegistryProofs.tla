---------------------------- MODULE RegistryProofs --------------------------
(***************************************************************************)
(* Proofs about Registry for any requests, any bodies and any clock.       *)
(***************************************************************************)
EXTENDS Registry, SortingProofs

-----------------------------------------------------------------------------
(* Trimming. *)

\* The positions of a string have a smallest and a largest.
LEMMA MinMaxAreMembers ==
    ASSUME NEW n \in Nat, NEW S \in SUBSET (1 .. n), S # {}
    PROVE  /\ Min(S) \in S /\ Max(S) \in S
           /\ \A x \in S : Min(S) <= x /\ x <= Max(S)
  <1>1. \E x \in S : \A y \in S : x <= y
    BY HasSmallest
  <1>2. \E x \in S : \A y \in S : x >= y
    <2> DEFINE T == {n - x : x \in S}
    <2>1. T \in SUBSET Nat /\ T # {}
      <3>1. \A x \in S : n - x \in Nat
        OBVIOUS
      <3>2. PICK x \in S : TRUE
        OBVIOUS
      <3>3. n - x \in T
        OBVIOUS
      <3> QED
        BY <3>1, <3>3
    <2>2. PICK t \in T : \A u \in T : t <= u
      BY <2>1, HasSmallest
    <2>3. PICK x \in S : t = n - x
      OBVIOUS
    <2>4. ASSUME NEW y \in S PROVE x >= y
      <3>1. n - x <= n - y
        BY <2>2, <2>3
      <3> QED
        BY <3>1
    <2> QED
      BY <2>4
  <1>3. Min(S) \in S /\ \A x \in S : Min(S) <= x
    BY <1>1 DEF Min
  <1>4. Max(S) \in S /\ \A x \in S : Max(S) >= x
    BY <1>2 DEF Max
  <1> QED
    BY <1>3, <1>4

\* What strings.TrimSpace leaves of a string is empty or begins with a visible
\* character, so trimming it again leaves it non-empty.
LEMMA TrimAgain ==
    ASSUME NEW C, NEW s \in Seq(C), TrimSpace(s) # <<>>
    PROVE  TrimSpace(TrimSpace(s)) # <<>>
  <1> DEFINE visible == {i \in DOMAIN s : s[i] # Space}
             lo == Min(visible)
             hi == Max(visible)
             t == SubSeq(s, lo, hi)
             again == {i \in DOMAIN t : t[i] # Space}
  <1>1. visible # {} /\ TrimSpace(s) = t
    BY DEF TrimSpace
  <1>2. visible \in SUBSET (1 .. Len(s)) /\ Len(s) \in Nat
    OBVIOUS
  <1>3. lo \in visible /\ hi \in visible /\ lo <= hi
    BY <1>1, <1>2, MinMaxAreMembers
  <1>4. lo \in 1 .. Len(s) /\ hi \in 1 .. Len(s) /\ s[lo] # Space
    BY <1>2, <1>3
  <1> HIDE DEF lo, hi
  <1>5. t \in Seq(C) /\ Len(t) = hi - lo + 1 /\ t[1] = s[lo]
    BY <1>3, <1>4
  <1>6. 1 \in again /\ again \in SUBSET (1 .. Len(t)) /\ Len(t) \in Nat
    BY <1>3, <1>4, <1>5
  <1>7. TrimSpace(t) = SubSeq(t, Min(again), Max(again))
    BY <1>6 DEF TrimSpace
  <1>8. /\ Min(again) \in 1 .. Len(t) /\ Max(again) \in 1 .. Len(t)
        /\ Min(again) <= Max(again)
    BY <1>6, MinMaxAreMembers
  <1> HIDE DEF t, again
  <1>9. Len(SubSeq(t, Min(again), Max(again))) # 0
    BY <1>5, <1>8
  <1>10. TrimSpace(t) # <<>>
    <2>1. Len(<<>>) = 0
      OBVIOUS
    <2> QED
      BY <1>7, <1>9, <2>1, Zenon
  <1> QED
    BY <1>1, <1>10

\* Decoding keeps a sequence one.
LEMMA DecodedIsSequence ==
    ASSUME NEW C, NEW s \in Seq(C)
    PROVE  DecodeString(s) \in Seq(C \cup {Replacement})
  BY DEF DecodeString

-----------------------------------------------------------------------------
(* The inductive invariant. *)

\* The strings an application can have: trimmed fields of some body.
Texts ==
    {<<>>} \cup {TrimSpace(DecodeString(body.name)) : body \in Bodies}
           \cup {TrimSpace(DecodeString(body.publisher)) : body \in Bodies}
           \cup {TrimSpace(DecodeString(body.category)) : body \in Bodies}

Applications == [name : Texts, publisher : Texts, category : Texts, createdAt : Nat]
Answers == [code : {0, 200, 201, 400, 404, 500}, app : Applications]

RegistryTypeOK ==
    /\ now \in Nat
    /\ table \in [DOMAIN table -> Applications] /\ DOMAIN table \subseteq Creates
    /\ create \in [Creates -> [phase : {"idle", "insert", "late", "done"},
                               app : Applications, answer : Answers]]
    /\ get \in [Gets -> [phase : {"idle", "select", "done"}, id : Creates \cup {UnknownId},
                         known : SUBSET Creates, answer : Answers]]

NoBlank(app) == app.name # <<>> /\ app.publisher # <<>> /\ app.category # <<>>

\* An application on its way to the table has no blank field, and a create
\* whose statement is still under way was answered 500.
UnderWayIsChecked ==
    \A r \in Creates :
      /\ create[r].phase \in {"insert", "late"} => NoBlank(create[r].app)
      /\ create[r].phase = "late" => create[r].answer.code = 500
      /\ create[r].answer.code = 201 =>
           /\ create[r].phase = "done" /\ r \in DOMAIN table
           /\ create[r].answer.app = create[r].app

\* A row is the stored form of the application of its create, which is over.
RowsOfCreates ==
    \A id \in DOMAIN table :
      /\ create[id].phase = "done" /\ create[id].answer.code \in {201, 500}
      /\ NoBlank(create[id].app)
      /\ table[id] = Stored(create[id].app)

\* What a get knew to be created is created; before it began it knew nothing.
KnownIsCreated ==
    \A g \in Gets : /\ \A r \in get[g].known : create[r].answer.code = 201
                    /\ get[g].phase = "idle" => get[g].known = {}

\* A get that knew its application has read its row, or an error.
ReadIsRow ==
    \A g \in Gets : get[g].phase = "done" /\ get[g].id \in get[g].known =>
      \/ get[g].answer.code = 500
      \/ /\ get[g].answer.code = 200
         /\ get[g].answer.app = Stored(create[get[g].id].answer.app)

RegistryInv ==
    /\ RegistryTypeOK
    /\ UnderWayIsChecked /\ RowsOfCreates /\ KnownIsCreated /\ ReadIsRow

-----------------------------------------------------------------------------
\* Trimming a field of an application again does not empty it.
LEMMA TextsStayVisible ==
    ASSUME NEW t \in Texts, t # <<>>
    PROVE  TrimSpace(t) # <<>>
  <1>1. PICK body \in Bodies :
          \/ t = TrimSpace(DecodeString(body.name))
          \/ t = TrimSpace(DecodeString(body.publisher))
          \/ t = TrimSpace(DecodeString(body.category))
    BY DEF Texts
  <1>2. /\ DecodeString(body.name) \in Seq(STRING \cup {Replacement})
        /\ DecodeString(body.publisher) \in Seq(STRING \cup {Replacement})
        /\ DecodeString(body.category) \in Seq(STRING \cup {Replacement})
    BY RegistryAssumption, DecodedIsSequence
  <1> QED
    BY <1>1, <1>2, TrimAgain

\* Service.Create makes applications of the body's trimmed fields.
LEMMA NewAppType ==
    ASSUME NEW body \in Bodies, now \in Nat
    PROVE  /\ NewApp(body) \in Applications
           /\ Creatable(body) => NoBlank(NewApp(body))
  BY DEF NewApp, Applications, Texts, Creatable, NoBlank

\* PostgreSQL stores the time to the microsecond.
LEMMA StoredApp ==
    ASSUME NEW app \in Applications
    PROVE  /\ Stored(app) \in Applications
           /\ SameApp(Stored(app), app)
           /\ Stored(app).name = app.name /\ Stored(app).publisher = app.publisher
           /\ Stored(app).category = app.category
  <1> DEFINE c == app.createdAt
  <1>1. c \in Nat
    BY DEF Applications
  <1>2. c - (c % 4) \in Nat /\ c - (c % 4) <= c /\ c < c - (c % 4) + 4
    BY <1>1
  <1>3. Stored(app) = [app EXCEPT !.createdAt = c - (c % 4)]
    BY DEF Stored, UnitsPerMicrosecond
  <1> HIDE DEF c
  <1>4. /\ Stored(app).createdAt = c - (c % 4)
        /\ Stored(app).name = app.name /\ Stored(app).publisher = app.publisher
        /\ Stored(app).category = app.category
        /\ Stored(app) \in Applications
    BY <1>2, <1>3 DEF Applications
  <1> QED
    BY <1>1, <1>2, <1>4 DEF SameApp, UnitsPerMicrosecond, c

LEMMA NoAppType == NoApp \in Applications /\ NoAnswer \in Answers
                   /\ Failure(400) \in Answers /\ Failure(404) \in Answers
                   /\ Failure(500) \in Answers
  BY DEF NoApp, Applications, Texts, NoAnswer, Answers, Failure

LEMMA InitRegistryInv == Init => RegistryInv
  <1> SUFFICES ASSUME Init PROVE RegistryInv
    OBVIOUS
  <1>1. RegistryTypeOK
    BY NoAppType DEF Init, RegistryTypeOK
  <1> QED
    BY <1>1 DEF Init, RegistryInv, UnderWayIsChecked, RowsOfCreates, KnownIsCreated,
                ReadIsRow, NoAnswer

\* A statement that completes adds the row of its create.
LEMMA InsertAddsRow ==
    ASSUME RegistryInv, NEW r \in Creates, create[r].phase \in {"insert", "late"}, Insert(r)
    PROVE  /\ table' \in [DOMAIN table' -> Applications]
           /\ DOMAIN table' = DOMAIN table \cup {r}
           /\ table'[r] = Stored(create[r].app)
           /\ \A id \in DOMAIN table : id # r /\ table'[id] = table[id]
  <1>1. create[r].app \in Applications
    BY DEF RegistryInv, RegistryTypeOK
  <1>2. Stored(create[r].app) \in Applications
    BY <1>1, StoredApp
  <1>3. r \notin DOMAIN table
    BY DEF RegistryInv, RowsOfCreates
  <1> QED
    BY <1>2, <1>3 DEF Insert, RegistryInv, RegistryTypeOK

\* The type invariant survives the answer to a get.
LEMMA UpdatedGet ==
    ASSUME RegistryInv, NEW g \in Gets, NEW answer \in Answers,
           get' = [get EXCEPT ![g].phase = "done", ![g].answer = answer],
           UNCHANGED <<now, table, create>>
    PROVE  RegistryTypeOK'
  <1> DEFINE Request == [phase : {"idle", "select", "done"}, id : Creates \cup {UnknownId},
                         known : SUBSET Creates, answer : Answers]
  <1>1. get \in [Gets -> Request]
    BY DEF RegistryInv, RegistryTypeOK
  <1>2. [get[g] EXCEPT !.phase = "done", !.answer = answer] \in Request
    BY <1>1
  <1>3. get' = [get EXCEPT ![g] = [get[g] EXCEPT !.phase = "done", !.answer = answer]]
    OBVIOUS
  <1> HIDE DEF Request
  <1>4. get' \in [Gets -> Request]
    BY <1>1, <1>2, <1>3
  <1> QED
    BY <1>4 DEF Request, RegistryInv, RegistryTypeOK

\* The type invariant survives the answer to a create.
LEMMA UpdatedCreate ==
    ASSUME RegistryInv, NEW r \in Creates, NEW answer \in Answers,
           NEW phase \in {"late", "done"},
           create' = [create EXCEPT ![r].phase = phase, ![r].answer = answer],
           UNCHANGED <<now, table, get>>
    PROVE  RegistryTypeOK'
  <1> DEFINE Request == [phase : {"idle", "insert", "late", "done"}, app : Applications,
                         answer : Answers]
  <1>1. create \in [Creates -> Request]
    BY DEF RegistryInv, RegistryTypeOK
  <1>2. [create[r] EXCEPT !.phase = phase, !.answer = answer] \in Request
    BY <1>1
  <1>3. create' = [create EXCEPT ![r] = [create[r] EXCEPT !.phase = phase, !.answer = answer]]
    OBVIOUS
  <1> HIDE DEF Request
  <1>4. create' \in [Creates -> Request]
    BY <1>1, <1>2, <1>3
  <1> QED
    BY <1>4 DEF Request, RegistryInv, RegistryTypeOK

LEMMA NextRegistryInv == RegistryInv /\ [Next]_vars => RegistryInv'
  <1> SUFFICES ASSUME RegistryInv, [Next]_vars PROVE RegistryInv'
    OBVIOUS
  <1> USE DEF RegistryInv, RegistryTypeOK, UnderWayIsChecked, RowsOfCreates, KnownIsCreated,
              ReadIsRow
  <1>1. CASE Tick
    BY <1>1 DEF Tick
  <1>2. ASSUME NEW r \in Creates, NEW body \in Bodies, Create(r, body) PROVE RegistryInv'
    <2>1. CASE Creatable(body)
      <3>1. create' = [create EXCEPT ![r] = [phase |-> "insert", app |-> NewApp(body),
                                             answer |-> NoAnswer]]
        BY <1>2, <2>1 DEF Create
      <3> QED
        BY <1>2, <2>1, <3>1, NewAppType, NoAppType DEF Create, NoAnswer
    <2>2. CASE ~Creatable(body)
      <3>1. create' = [create EXCEPT ![r] = [phase |-> "done", app |-> NoApp,
                                             answer |-> Failure(400)]]
        BY <1>2, <2>2 DEF Create
      <3> QED
        BY <1>2, <2>2, <3>1, NoAppType DEF Create, Failure
    <2> QED
      BY <2>1, <2>2
  <1>3. ASSUME NEW r \in Creates, Created(r) PROVE RegistryInv'
    <2> DEFINE told == [code |-> 201, app |-> create[r].app]
    <2>1. /\ create' = [create EXCEPT ![r].phase = "done", ![r].answer = told]
          /\ create[r].phase = "insert" /\ Insert(r) /\ UNCHANGED <<now, get>>
      BY <1>3 DEF Created
    <2>2. told \in Answers
      BY DEF Answers
    <2>3. RegistryTypeOK'
      BY <2>1, <2>2, InsertAddsRow
    <2>4. UnderWayIsChecked' /\ RowsOfCreates'
      BY <2>1, InsertAddsRow
    <2>5. KnownIsCreated' /\ ReadIsRow'
      BY <2>1
    <2> QED
      BY <2>3, <2>4, <2>5
  <1>4. ASSUME NEW r \in Creates, CreateFails(r) PROVE RegistryInv'
    <2> DEFINE told == Failure(500)
    <2>1. told \in Answers /\ told.code = 500
      BY NoAppType DEF Failure
    <2>2. PICK phase \in {"done", "late"} :
            create' = [create EXCEPT ![r].phase = phase, ![r].answer = told]
      BY <1>4 DEF CreateFails
    <2>3. create[r].phase = "insert" /\ UNCHANGED <<now, table, get>>
      BY <1>4 DEF CreateFails
    <2> HIDE DEF told
    <2>4. RegistryTypeOK'
      <3> HIDE DEF RegistryInv, RegistryTypeOK
      <3>1. told \in Answers /\ phase \in {"late", "done"} /\ UNCHANGED <<now, table, get>>
        BY <2>1, <2>3
      <3> QED
        BY <2>2, <3>1, UpdatedCreate, Zenon
    <2>5. UnderWayIsChecked' /\ RowsOfCreates'
      BY <2>1, <2>2, <2>3
    <2>6. KnownIsCreated' /\ ReadIsRow'
      BY <2>2, <2>3
    <2> QED
      BY <2>4, <2>5, <2>6
  <1>5. ASSUME NEW r \in Creates, LateInsert(r) PROVE RegistryInv'
    <2>1. /\ create' = [create EXCEPT ![r].phase = "done"]
          /\ create[r].phase = "late" /\ Insert(r) /\ UNCHANGED <<now, get>>
      BY <1>5 DEF LateInsert
    <2>2. /\ table' \in [DOMAIN table' -> Applications]
          /\ DOMAIN table' = DOMAIN table \cup {r}
          /\ table'[r] = Stored(create[r].app)
          /\ \A id \in DOMAIN table : id # r /\ table'[id] = table[id]
      BY <2>1, InsertAddsRow
    <2>3. /\ create'[r].phase = "done" /\ create'[r].app = create[r].app
          /\ create'[r].answer = create[r].answer
          /\ \A q \in Creates : q # r => create'[q] = create[q]
      BY <2>1
    <2>4. RegistryTypeOK'
      BY <2>1, <2>2
    <2>5. UnderWayIsChecked'
      BY <2>1, <2>2, <2>3
    <2>6. RowsOfCreates'
      BY <2>1, <2>2, <2>3
    <2>7. KnownIsCreated' /\ ReadIsRow'
      BY <2>1
    <2> QED
      BY <2>4, <2>5, <2>6, <2>7
  <1>6. ASSUME NEW g \in Gets, NEW id \in Creates \cup {UnknownId}, Get(g, id)
        PROVE  RegistryInv'
    BY <1>6, NoAppType DEF Get
  <1>7. ASSUME NEW g \in Gets, GetInvalid(g) PROVE RegistryInv'
    <2> DEFINE told == Failure(400)
    <2>1. told \in Answers
      BY NoAppType
    <2>2. /\ get' = [get EXCEPT ![g].phase = "done", ![g].answer = told]
          /\ get[g].phase = "idle" /\ UNCHANGED <<now, table, create>>
      BY <1>7 DEF GetInvalid
    <2> HIDE DEF told
    <2>3. get'[g].known = get[g].known /\ \A h \in Gets : h # g => get'[h] = get[h]
      BY <2>2
    <2>4. RegistryTypeOK'
      <3> HIDE DEF RegistryInv, RegistryTypeOK
      <3> QED
        BY <2>1, <2>2, UpdatedGet
    <2>5. UnderWayIsChecked' /\ RowsOfCreates'
      BY <2>2
    <2>6. KnownIsCreated'
      BY <2>2, <2>3
    <2>7. ReadIsRow'
      BY <2>2, <2>3
    <2> QED
      BY <2>4, <2>5, <2>6, <2>7
  <1>8. ASSUME NEW g \in Gets, Select(g) PROVE RegistryInv'
    <2> DEFINE read == IF get[g].id \in DOMAIN table
                       THEN [code |-> 200, app |-> table[get[g].id]]
                       ELSE Failure(404)
    <2>1. PICK answer \in {SelectError, read} :
            get' = [get EXCEPT ![g].phase = "done", ![g].answer = answer]
      BY <1>8 DEF Select
    <2>2. UNCHANGED <<now, table, create>>
      BY <1>8 DEF Select
    <2>3. answer \in Answers
      BY <2>1, NoAppType DEF SelectError, Answers
    <2>4. get[g].id \in get[g].known =>
            \/ answer.code = 500
            \/ /\ answer.code = 200
               /\ answer.app = Stored(create[get[g].id].answer.app)
      BY <2>1 DEF SelectError, Failure
    <2> HIDE DEF read
    <2>5. /\ get'[g].phase = "done" /\ get'[g].answer = answer
          /\ get'[g].id = get[g].id /\ get'[g].known = get[g].known
          /\ \A h \in Gets : h # g => get'[h] = get[h]
      BY <2>1
    <2>6. RegistryTypeOK'
      <3> HIDE DEF RegistryInv, RegistryTypeOK
      <3> QED
        BY <2>1, <2>2, <2>3, UpdatedGet
    <2>7. UnderWayIsChecked' /\ RowsOfCreates' /\ KnownIsCreated'
      BY <2>2, <2>5
    <2>8. ReadIsRow'
      BY <2>2, <2>4, <2>5
    <2> QED
      BY <2>6, <2>7, <2>8
  <1>9. CASE UNCHANGED vars
    BY <1>9 DEF vars
  <1> HIDE DEF RegistryInv
  <1> QED
    BY <1>1, <1>2, <1>3, <1>4, <1>5, <1>6, <1>7, <1>8, <1>9 DEF Next

LEMMA RegistryInvariant == Spec => []RegistryInv
  BY InitRegistryInv, NextRegistryInv, PTL DEF Spec

-----------------------------------------------------------------------------
\* For any requests and bodies: a client that was told 201 before it asks reads
\* the application it was told of, its time to the microsecond, or an error of
\* the database, never that the application does not exist.
THEOREM CreatedReadable == Spec => []CreatedIsReadable
  <1>1. RegistryInv => CreatedIsReadable
    <2> SUFFICES ASSUME RegistryInv, NEW g \in Gets, get[g].phase = "done",
                        get[g].id \in get[g].known, get[g].answer.code # 500
                 PROVE  /\ get[g].answer.code = 200
                        /\ SameApp(get[g].answer.app, create[get[g].id].answer.app)
      BY DEF CreatedIsReadable
    <2>1. get[g].id \in Creates
      BY DEF RegistryInv, RegistryTypeOK
    <2>2. create[get[g].id].answer.app \in Applications
      BY <2>1 DEF RegistryInv, RegistryTypeOK, Answers
    <2> QED
      BY <2>2, StoredApp DEF RegistryInv, ReadIsRow
  <1> QED
    BY <1>1, RegistryInvariant, PTL

\* For any requests and bodies: every row satisfies the CHECK constraints of
\* the table, because Create refuses blank fields after it has trimmed them,
\* and belongs to a create that was answered 201 or 500.
THEOREM RowsWellFormed == Spec => []RowsAreWellFormed
  <1>1. RegistryInv => RowsAreWellFormed
    <2> SUFFICES ASSUME RegistryInv, NEW id \in DOMAIN table
                 PROVE  /\ create[id].answer.code \in {201, 500}
                        /\ TrimSpace(table[id].name) # <<>>
                        /\ TrimSpace(table[id].publisher) # <<>>
                        /\ TrimSpace(table[id].category) # <<>>
      BY DEF RowsAreWellFormed
    <2> DEFINE app == create[id].app
    <2>1. /\ create[id].answer.code \in {201, 500}
          /\ NoBlank(app) /\ table[id] = Stored(app) /\ app \in Applications
      BY DEF RegistryInv, RowsOfCreates, RegistryTypeOK
    <2> HIDE DEF app
    <2>2. /\ table[id].name = app.name /\ table[id].publisher = app.publisher
          /\ table[id].category = app.category
      BY <2>1, StoredApp
    <2>3. app.name \in Texts /\ app.publisher \in Texts /\ app.category \in Texts
      BY <2>1 DEF Applications
    <2> QED
      BY <2>1, <2>2, <2>3, TextsStayVisible DEF NoBlank
  <1> QED
    BY <1>1, RegistryInvariant, PTL
=============================================================================
