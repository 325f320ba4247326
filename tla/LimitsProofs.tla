----------------------------- MODULE LimitsProofs -----------------------------
(***************************************************************************)
(* What the plans and the rate limiter allow, for every plan, limit and    *)
(* number of threads: the inductive invariants of Quotas and RateLimit,    *)
(* and what follows from them.                                             *)
(***************************************************************************)
EXTENDS Quotas, RateLimit, Counting, SequenceTheorems

-----------------------------------------------------------------------------
(* Numbers.                                                                *)

LEMMA MaxIsGreatest ==
    ASSUME NEW S \in SUBSET Nat, IsFiniteSet(S), S # {}
    PROVE  /\ Max(S) \in S /\ Max(S) \in Nat
           /\ \A n \in S : n <= Max(S)
  <1>1. \E x \in S : \A y \in S : x >= y
    BY GreatestNumber
  <1>2. Max(S) \in S /\ \A y \in S : Max(S) >= y
    BY <1>1 DEF Max
  <1>3. QED
    BY <1>2

\* What the plans in A allow.
LimitsOf(limit, A) == {limit[code] : code \in A}

LEMMA LimitsType ==
    ASSUME NEW limit \in [Plans -> Nat], NEW A \in SUBSET Plans
    PROVE  /\ LimitsOf(limit, A) \in SUBSET Nat /\ IsFiniteSet(LimitsOf(limit, A))
           /\ {1} \cup LimitsOf(limit, A) \in SUBSET Nat
           /\ IsFiniteSet({1} \cup LimitsOf(limit, A))
  <1>1. IsFiniteSet(A)
    BY PlansAssumption, FS_Subset
  <1> DEFINE f == [code \in A |-> limit[code]]
  <1>2. f \in Surjection(A, LimitsOf(limit, A))
    BY DEF Surjection, LimitsOf
  <1>3. IsFiniteSet(LimitsOf(limit, A))
    BY <1>1, <1>2, FS_Surjection
  <1>4. LimitsOf(limit, A) \in SUBSET Nat
    BY DEF LimitsOf
  <1>5. IsFiniteSet({1}) /\ IsFiniteSet({1} \cup LimitsOf(limit, A))
    BY <1>3, FS_Singleton, FS_Union
  <1>6. QED
    BY <1>3, <1>4, <1>5

\* A plan that was had counts from then on.
LEMMA PlanCounts ==
    ASSUME NEW limit \in [Plans -> Nat], NEW A \in SUBSET Plans, NEW code \in A
    PROVE  Max(LimitsOf(limit, A)) \in Nat
           /\ limit[code] <= Max(LimitsOf(limit, A))
  <1>1. limit[code] \in LimitsOf(limit, A)
    BY DEF LimitsOf
  <1>2. QED
    BY <1>1, LimitsType, MaxIsGreatest

LEMMA MorePlans ==
    ASSUME NEW limit \in [Plans -> Nat], NEW A \in SUBSET Plans,
           NEW B \in SUBSET A
    PROVE  /\ B # {} => Max(LimitsOf(limit, B)) <= Max(LimitsOf(limit, A))
           /\ Max({1} \cup LimitsOf(limit, B)) <= Max({1} \cup LimitsOf(limit, A))
           /\ Max({1} \cup LimitsOf(limit, A)) \in Nat
           /\ 1 <= Max({1} \cup LimitsOf(limit, A))
  <1>1. B \in SUBSET Plans /\ LimitsOf(limit, B) \subseteq LimitsOf(limit, A)
    BY DEF LimitsOf
  <1>2. ASSUME B # {}
        PROVE  Max(LimitsOf(limit, B)) <= Max(LimitsOf(limit, A))
    <2>1. LimitsOf(limit, B) # {} /\ LimitsOf(limit, A) # {}
      BY <1>1, <1>2 DEF LimitsOf
    <2>2. Max(LimitsOf(limit, B)) \in LimitsOf(limit, B)
      BY <1>1, <2>1, LimitsType, MaxIsGreatest
    <2>3. QED
      BY <1>1, <2>1, <2>2, LimitsType, MaxIsGreatest
  <1>3. Max({1} \cup LimitsOf(limit, B)) \in {1} \cup LimitsOf(limit, B)
    BY <1>1, LimitsType, MaxIsGreatest
  <1>4. /\ Max({1} \cup LimitsOf(limit, A)) \in Nat
        /\ \A n \in {1} \cup LimitsOf(limit, A) :
               n <= Max({1} \cup LimitsOf(limit, A))
    BY LimitsType, MaxIsGreatest
  <1>5. QED
    BY <1>1, <1>2, <1>3, <1>4

LEMMA Limits ==
    /\ MaxOrganizations \in [Plans -> Nat] /\ MaxInvoices \in [Plans -> Nat]
    /\ MaxDocuments \in [Plans -> Nat]
  BY PlansAssumption

-----------------------------------------------------------------------------
(* Quotas: rows and sessions.                                              *)

LEMMA QuotasTyped ==
    ASSUME QuotasInv
    PROVE  /\ plan \in [Organizations -> Plans \cup {"none"}] /\ had \subseteq Plans
           /\ content \in [Paths -> Documents \cup {NoDocument}]
           /\ stored \in [Documents -> DocumentRow \cup {NoRow}]
           /\ response \in Documents \cup {NoDocument}
           /\ imported \in Nat /\ received \in Nat
           /\ job \in [Workers -> Job]
           /\ OrganizationsFit /\ UploadsWithinPlan /\ DocumentsCanBeRead
           /\ \A w \in Workers : SessionFits(w)
           /\ plan[Home] \in Plans /\ plan[Home] \in had
  BY OwnerAssumption DEF QuotasInv, QuotasTypeOK, OrganizationsFit, Owned

LEMMA IdleType ==
    /\ Idle \in Job /\ Idle.kind = "idle" /\ Idle.kind \notin DocumentTypes
    /\ Idle.step = "idle" /\ Idle.count = 0
    /\ NoRow \notin DocumentRow /\ NoRow.type = "none"
  BY StorageAssumption
  DEF Idle, Job, DocumentTypes, NoRow, DocumentRow

LEMMA DocumentIds ==
    /\ NoDocument \notin Documents /\ NoDocument \in Nat /\ Documents \subseteq Nat
    /\ Loop \in Workers /\ Threads \subseteq Workers
  BY StorageAssumption DEF NoDocument, Workers

LEMMA UploadedType ==
    /\ IsFiniteSet(Uploaded) /\ Cardinality(Uploaded) \in Nat
    /\ IsFiniteSet(Held) /\ Cardinality(Held) \in Nat
    /\ Cardinality(Uploaded) <= Cardinality(Held)
    /\ Uploaded \subseteq Held /\ Held \subseteq Documents
  <1>1. Uploaded \in SUBSET Held /\ Held \in SUBSET Documents
    BY DEF Uploaded, Held
  <1>2. /\ IsFiniteSet(Held) /\ Cardinality(Held) \in Nat
    BY <1>1, StorageAssumption, PartIsSmaller
  <1>3. /\ IsFiniteSet(Uploaded) /\ Cardinality(Uploaded) \in Nat
        /\ Cardinality(Uploaded) <= Cardinality(Held)
    BY <1>1, <1>2, PartIsSmaller
  <1>4. QED
    BY <1>1, <1>2, <1>3

LEMMA OwnedType ==
    /\ IsFiniteSet(Owned) /\ Cardinality(Owned) \in Nat
    /\ Cardinality(Creating) \in Nat /\ Cardinality(Threads) \in Nat
    /\ Cardinality(Creating) <= Cardinality(Threads) /\ 1 <= Cardinality(Threads)
  <1>1. Owned \in SUBSET Organizations /\ Creating \in SUBSET Threads
    BY DEF Owned, Creating
  <1>2. Cardinality(Threads) # 0
    BY WorkersAssumption, FS_EmptySet
  <1>3. IsFiniteSet(Owned) /\ Cardinality(Owned) \in Nat
    BY <1>1, OwnerAssumption, PartIsSmaller
  <1>4. /\ Cardinality(Creating) \in Nat /\ Cardinality(Threads) \in Nat
        /\ Cardinality(Creating) <= Cardinality(Threads)
    BY <1>1, WorkersAssumption, PartIsSmaller
  <1>5. QED
    BY <1>2, <1>3, <1>4

\* The id that the next document gets is new.
LEMMA NextDocumentIsNew ==
    NextDocument \notin Held /\ NextDocument \notin Saved
  <1>1. Held \in SUBSET Documents /\ Saved \in SUBSET Documents
    BY DEF Held, Saved
  <1>2. IsFiniteSet(Held) /\ IsFiniteSet(Saved) /\ IsFiniteSet({0})
    BY <1>1, StorageAssumption, FS_Subset, FS_Singleton
  <1>3. IsFiniteSet({0} \cup Held \cup Saved)
    BY <1>2, FS_Union
  <1>4. {0} \cup Held \cup Saved \in SUBSET Nat
    BY <1>1, DocumentIds
  <1>5. \A n \in {0} \cup Held \cup Saved :
            n <= Max({0} \cup Held \cup Saved)
            /\ Max({0} \cup Held \cup Saved) \in Nat
    BY <1>3, <1>4, MaxIsGreatest
  <1>6. \A n \in {0} \cup Held \cup Saved : n \in Nat /\ NextDocument # n
    BY <1>4, <1>5 DEF NextDocument
  <1>7. QED
    BY <1>6

\* What a session of another worker rests on.
LEMMA OtherFits ==
    ASSUME QuotasInv, NEW w \in Workers, NEW v \in Workers, v # w,
           \A u \in Workers : u # w => job'[u] = job[u],
           had \subseteq had',
           \A d \in Documents : d \in Held' => \/ d \in Held
                                               \/ /\ job[w].kind \in DocumentTypes
                                                  /\ d = job[w].adds,
           \A p \in Paths : content[p] # NoDocument => content'[p] = content[p],
           job'[w].kind \in DocumentTypes =>
               \/ job[w].kind \in DocumentTypes /\ job'[w].adds = job[w].adds
               \/ job'[w].adds \notin Saved,
           w # Loop => Uploaded' = Uploaded /\ imported' = imported
    PROVE  SessionFits(v)'
  <1>1. SessionFits(v) /\ job'[v] = job[v]
    BY QuotasTyped
  <1>2. CASE job[v] = Idle
    BY <1>1, <1>2 DEF SessionFits
  <1>3. CASE v \in Threads /\ job[v].kind = "create" /\ job[v].adds \in Organizations
    BY <1>1, <1>3 DEF SessionFits
  <1>4. CASE DocumentFits(v)
    <2>1. PICK j : j = job[v]
      OBVIOUS
    <2>2. /\ j.kind \in DocumentTypes /\ j.adds \in Documents \ Held /\ j.path \in Paths
          /\ content[j.path] = j.adds
          /\ \A u \in Workers \ {v} :
                 job[u].kind \in DocumentTypes => job[u].adds # j.adds
          /\ j.count # 0 => j.kind = "invoice_import" /\ j.step = "ready"
          /\ j.kind # "anaf_response" =>
                 /\ v = Loop /\ j.plan \in had
                 /\ Cardinality(Uploaded) + 1 <= MaxDocuments[j.plan]
                 /\ j.count # 0 => imported + j.count <= MaxInvoices[j.plan]
      BY <1>4, <2>1 DEF DocumentFits
    <2>3. j.adds \in Documents \ Held'
      BY <2>2
    <2>4. content'[j.path] = j.adds /\ j.adds \in Saved
      BY <2>2, DocumentIds DEF Saved
    <2>5. \A u \in Workers \ {v} :
              job'[u].kind \in DocumentTypes => job'[u].adds # j.adds
      BY <2>2, <2>4
    <2>6. j.kind # "anaf_response" =>
                 /\ v = Loop /\ j.plan \in had'
                 /\ Cardinality(Uploaded') + 1 <= MaxDocuments[j.plan]
                 /\ j.count # 0 => imported' + j.count <= MaxInvoices[j.plan]
      BY <2>2
    <2>7. DocumentFits(v)'
      BY <1>1, <2>1, <2>2, <2>3, <2>4, <2>5, <2>6 DEF DocumentFits
    <2>8. QED
      BY <2>7 DEF SessionFits
  <1>5. QED
    BY <1>1, <1>2, <1>3, <1>4 DEF SessionFits

-----------------------------------------------------------------------------
(* Quotas: sessions and rows after a step.                                 *)

UnderWaySteps == {"saved", "ready"}

DocumentSession(kind, path, adds, code, step) ==
    [Idle EXCEPT !.kind = kind, !.path = path, !.adds = adds, !.plan = code,
                 !.step = step]

BeginsDocument(j, kind, path, adds, code, step) ==
    /\ j \in Job /\ j.kind = kind /\ j.path = path /\ j.adds = adds
    /\ j.plan = code /\ j.step = step /\ j.count = 0

LEMMA NewDocumentSession ==
    ASSUME NEW kind \in DocumentTypes, NEW path \in Paths, NEW adds \in Documents,
           NEW code \in Plans, NEW step \in UnderWaySteps
    PROVE  BeginsDocument(DocumentSession(kind, path, adds, code, step),
                          kind, path, adds, code, step)
  <1>0. PICK j : j = DocumentSession(kind, path, adds, code, step)
    OBVIOUS
  <1>1. PICK idle \in Job : idle = Idle
    BY IdleType
  <1>2. idle.count = 0
    BY <1>1, IdleType
  <1>3. j = [idle EXCEPT !.kind = kind, !.path = path, !.adds = adds,
                         !.plan = code, !.step = step]
    BY <1>0, <1>1 DEF DocumentSession
  <1>4. /\ j \in Job /\ j.kind = kind /\ j.path = path /\ j.adds = adds
        /\ j.plan = code /\ j.step = step /\ j.count = 0
    BY <1>2, <1>3 DEF Job, UnderWaySteps
  <1>5. QED
    BY <1>0, <1>4 DEF BeginsDocument

LEMMA NewOrganizationSession ==
    ASSUME NEW adds \in Organizations, NEW j,
           j = [Idle EXCEPT !.kind = "create", !.step = "ready", !.adds = adds]
    PROVE  /\ j \in Job /\ j.kind = "create" /\ j.adds = adds
           /\ j.kind \notin DocumentTypes
  <1>1. PICK idle \in Job : idle = Idle
    BY IdleType
  <1>2. j = [idle EXCEPT !.kind = "create", !.step = "ready", !.adds = adds]
    BY <1>1
  <1>3. QED
    BY <1>2 DEF Job, DocumentTypes

Counted(k, count) == [[k EXCEPT !.step = "ready"] EXCEPT !.count = count]

LEMMA CountedSession ==
    ASSUME NEW k \in Job, NEW count \in 0..MaxBatch
    PROVE  LET j == Counted(k, count) IN
           /\ j \in Job /\ j.kind = k.kind /\ j.path = k.path /\ j.adds = k.adds
           /\ j.plan = k.plan /\ j.step = "ready" /\ j.count = count
  BY DEF Job, Counted

\* The sessions fit again after a step of one worker.
LEMMA QuotasStep ==
    ASSUME QuotasInv, NEW w \in Workers,
           \A u \in Workers : u # w => job'[u] = job[u],
           had \subseteq had',
           \A d \in Documents : d \in Held' => \/ d \in Held
                                               \/ /\ job[w].kind \in DocumentTypes
                                                  /\ d = job[w].adds,
           \A p \in Paths : content[p] # NoDocument => content'[p] = content[p],
           job'[w].kind \in DocumentTypes =>
               \/ job[w].kind \in DocumentTypes /\ job'[w].adds = job[w].adds
               \/ job'[w].adds \notin Saved,
           w # Loop => Uploaded' = Uploaded /\ imported' = imported,
           SessionFits(w)', QuotasTypeOK', OrganizationsFit', UploadsWithinPlan',
           DocumentsCanBeRead'
    PROVE  QuotasInv'
  <1>1. ASSUME NEW v \in Workers PROVE SessionFits(v)'
    <2>1. CASE v = w
      BY <2>1
    <2>2. CASE v # w
      BY <2>2, OtherFits
    <2>3. QED
      BY <2>1, <2>2
  <1>2. Workers' = Workers
    BY DEF Workers
  <1>3. QED
    BY <1>1, <1>2 DEF QuotasInv

\* The plans and organisations stay; at most, a session that would have added
\* one is gone.
LEMMA OrganizationsRest ==
    ASSUME QuotasInv, plan' = plan, had' = had, Creating' \in SUBSET Creating
    PROVE  OrganizationsFit'
  <1>1. Owned' = Owned
    BY DEF Owned
  <1>2. Creating \in SUBSET Threads
    BY DEF Creating
  <1>3. IsFiniteSet(Creating)
    BY <1>2, WorkersAssumption, FS_Subset
  <1>4. Cardinality(Creating') <= Cardinality(Creating)
        /\ Cardinality(Creating') \in Nat
    BY <1>3, PartIsSmaller
  <1>5. PICK most \in Nat : most = Max({1} \cup LimitsOf(MaxOrganizations, had))
    BY QuotasTyped, Limits, MorePlans
  <1>6. Cardinality(Owned) + Cardinality(Creating) <= most + Cardinality(Threads) - 1
    BY <1>5, QuotasTyped DEF OrganizationsFit, LimitsOf
  <1>7. Cardinality(Owned') + Cardinality(Creating')
            <= most + Cardinality(Threads) - 1
    BY <1>1, <1>4, <1>6, OwnedType
  <1>8. Home \in Owned' /\ \A o \in Owned' : plan'[o] \in had'
    BY <1>1, QuotasTyped DEF OrganizationsFit
  <1>9. QED
    BY <1>5, <1>7, <1>8 DEF OrganizationsFit, LimitsOf

\* More plans allow no less.
LEMMA UploadsRest ==
    ASSUME QuotasInv, had \subseteq had', had' \subseteq Plans,
           imported' = imported, Uploaded' = Uploaded
    PROVE  UploadsWithinPlan'
  <1>1. had # {} /\ had \in SUBSET had' /\ had' \in SUBSET Plans
        /\ had' # {}
    BY QuotasTyped
  <1>2. /\ Max(LimitsOf(MaxInvoices, had)) <= Max(LimitsOf(MaxInvoices, had'))
        /\ Max(LimitsOf(MaxDocuments, had)) <= Max(LimitsOf(MaxDocuments, had'))
    BY <1>1, Limits, MorePlans
  <1>3. PICK code \in had : TRUE
    BY <1>1
  <1>4. /\ Max(LimitsOf(MaxInvoices, had)) \in Nat
        /\ Max(LimitsOf(MaxInvoices, had')) \in Nat
        /\ Max(LimitsOf(MaxDocuments, had)) \in Nat
        /\ Max(LimitsOf(MaxDocuments, had')) \in Nat
    BY <1>1, <1>3, QuotasTyped, Limits, PlanCounts
  <1>5. /\ imported <= Max(LimitsOf(MaxInvoices, had))
        /\ Cardinality(Uploaded) <= Max(LimitsOf(MaxDocuments, had))
    BY QuotasTyped DEF UploadsWithinPlan, LimitsOf, Uploaded
  <1>6. /\ imported' <= Max(LimitsOf(MaxInvoices, had'))
        /\ Cardinality(Uploaded') <= Max(LimitsOf(MaxDocuments, had'))
    BY <1>2, <1>4, <1>5, QuotasTyped, UploadedType
  <1>7. QED
    BY <1>6 DEF UploadsWithinPlan, LimitsOf, Uploaded

LEMMA DocumentsRest ==
    ASSUME QuotasInv, stored' = stored
    PROVE  Held' = Held /\ Uploaded' = Uploaded
  BY DEF Held, Uploaded

-----------------------------------------------------------------------------
(* Quotas: one lemma per action.                                           *)

\* Nothing that a session rests on has changed.
LEMMA SessionsRest ==
    ASSUME QuotasInv, job' = job, stored' = stored, content' = content,
           imported' = imported, had \subseteq had'
    PROVE  \A w \in Workers' : SessionFits(w)'
  <1>1. Held' = Held /\ Uploaded' = Uploaded /\ Workers' = Workers
    BY DocumentsRest DEF Workers
  <1>2. ASSUME NEW w \in Workers PROVE SessionFits(w)'
    <2>1. PICK j : j = job[w]
      OBVIOUS
    <2>2. CASE DocumentFits(w)
      <3>1. DocumentFits(w)'
        BY <1>1, <2>2 DEF DocumentFits
      <3>2. QED
        BY <3>1 DEF SessionFits
    <2>3. CASE ~ DocumentFits(w)
      BY <2>3, QuotasTyped DEF SessionFits
    <2>4. QED
      BY <2>2, <2>3
  <1>3. QED
    BY <1>1, <1>2

LEMMA ApiStep ==
    ASSUME QuotasInv, ApiInvoice
    PROVE  QuotasInv'
  <1>1. /\ received' = received + 1
        /\ plan' = plan /\ had' = had /\ content' = content /\ stored' = stored
        /\ response' = response /\ imported' = imported /\ job' = job
    BY DEF ApiInvoice
  <1>2. QuotasTypeOK'
    BY <1>1, QuotasTyped DEF QuotasTypeOK, Workers
  <1>3. OrganizationsFit' /\ UploadsWithinPlan' /\ DocumentsCanBeRead'
    BY <1>1, QuotasTyped
    DEF OrganizationsFit, Owned, Creating, UploadsWithinPlan, DocumentsCanBeRead, Held
  <1>4. QED
    BY <1>1, <1>2, <1>3, SessionsRest DEF QuotasInv

LEMMA PlanStep ==
    ASSUME QuotasInv, NEW code \in Plans, UpdatePlan(code)
    PROVE  QuotasInv'
  <1>1. /\ plan' = [plan EXCEPT ![Home] = code] /\ had' = had \cup {code}
        /\ content' = content /\ stored' = stored /\ response' = response
        /\ imported' = imported /\ received' = received /\ job' = job
    BY DEF UpdatePlan
  <1>2. QuotasTypeOK'
    BY <1>1, QuotasTyped, OwnerAssumption DEF QuotasTypeOK, Workers
  <1>3. Held' = Held /\ Uploaded' = Uploaded
    BY <1>1, DocumentsRest
  <1>4. UploadsWithinPlan'
    BY <1>1, <1>3, QuotasTyped, UploadsRest
  <1>5. DocumentsCanBeRead'
    BY <1>1, QuotasTyped DEF DocumentsCanBeRead, Held
  <1>6. Creating' = Creating
    BY <1>1 DEF Creating
  <1>7. Owned' = Owned
    BY <1>1, QuotasTyped, PlansAssumption DEF Owned, OrganizationsFit
  <1>8. OrganizationsFit'
    <2>1. had \in SUBSET had' /\ had' \in SUBSET Plans
      BY <1>1, QuotasTyped
    <2>2. PICK most \in Nat : most = Max({1} \cup LimitsOf(MaxOrganizations, had))
      BY QuotasTyped, Limits, MorePlans
    <2>3. PICK more \in Nat : more = Max({1} \cup LimitsOf(MaxOrganizations, had'))
      BY <2>1, Limits, MorePlans
    <2>4. most <= more
      BY <2>1, <2>2, <2>3, Limits, MorePlans
    <2>5. Cardinality(Owned) + Cardinality(Creating)
              <= most + Cardinality(Threads) - 1
      BY <2>2, QuotasTyped DEF OrganizationsFit, LimitsOf
    <2>6. Cardinality(Owned') + Cardinality(Creating')
              <= more + Cardinality(Threads) - 1
      BY <1>6, <1>7, <2>4, <2>5, OwnedType
    <2>7. Home \in Owned' /\ \A o \in Owned' : plan'[o] \in had'
      BY <1>1, <1>7, QuotasTyped DEF OrganizationsFit, Owned
    <2>8. QED
      BY <2>3, <2>6, <2>7 DEF OrganizationsFit, LimitsOf
  <1>9. QED
    BY <1>1, <1>2, <1>4, <1>5, <1>8, SessionsRest DEF QuotasInv

LEMMA AbortStep ==
    ASSUME QuotasInv, NEW w \in Workers, Abort(w)
    PROVE  QuotasInv'
  <1>1. /\ job' = [job EXCEPT ![w] = Idle]
        /\ plan' = plan /\ had' = had /\ content' = content /\ stored' = stored
        /\ response' = response /\ imported' = imported /\ received' = received
    BY DEF Abort
  <1>2. QuotasTypeOK'
    BY <1>1, QuotasTyped, IdleType DEF QuotasTypeOK, Workers
  <1>3. Held' = Held /\ Uploaded' = Uploaded
    BY <1>1, DocumentsRest
  <1>4. job'[w] = Idle /\ \A u \in Workers : u # w => job'[u] = job[u]
    BY <1>1, QuotasTyped
  <1>5. UploadsWithinPlan'
    BY <1>1, <1>3, QuotasTyped, UploadsRest
  <1>6. DocumentsCanBeRead'
    BY <1>1, QuotasTyped DEF DocumentsCanBeRead, Held
  <1>7. Creating' \in SUBSET Creating
    BY <1>4, IdleType DEF Creating, Workers
  <1>8. OrganizationsFit'
    BY <1>1, <1>7, OrganizationsRest
  <1>9. SessionFits(w)'
    BY <1>4 DEF SessionFits
  <1>10. QED
    BY <1>1, <1>2, <1>3, <1>4, <1>5, <1>6, <1>8, <1>9, IdleType, QuotasStep

LEMMA CreateStep ==
    ASSUME QuotasInv, NEW w \in Workers, CreateOrganization(w)
    PROVE  QuotasInv'
  <1>1. /\ w \in Threads /\ job[w] = Idle
        /\ NextOrganization \in Organizations /\ MayCreate
        /\ plan' = plan /\ had' = had /\ content' = content /\ stored' = stored
        /\ response' = response /\ imported' = imported /\ received' = received
    BY DEF CreateOrganization
  <1>2. PICK j : j = [Idle EXCEPT !.kind = "create", !.step = "ready",
                                  !.adds = NextOrganization]
    OBVIOUS
  <1>3. /\ j \in Job /\ j.kind = "create" /\ j.adds = NextOrganization
        /\ j.kind \notin DocumentTypes
    BY <1>1, <1>2, NewOrganizationSession
  <1>4. job' = [job EXCEPT ![w] = j]
    BY <1>2 DEF CreateOrganization
  <1>5. job'[w] = j /\ \A u \in Workers : u # w => job'[u] = job[u]
    BY <1>4, QuotasTyped
  <1>6. QuotasTypeOK'
    BY <1>1, <1>3, <1>4, QuotasTyped DEF QuotasTypeOK, Workers
  <1>7. Held' = Held /\ Uploaded' = Uploaded
    BY <1>1, DocumentsRest
  <1>8. UploadsWithinPlan'
    BY <1>1, <1>7, QuotasTyped, UploadsRest
  <1>9. DocumentsCanBeRead'
    BY <1>1, QuotasTyped DEF DocumentsCanBeRead, Held
  <1>10. SessionFits(w)'
    BY <1>1, <1>3, <1>5 DEF SessionFits
  <1>11. OrganizationsFit'
    <2>1. PICK plans : plans = {plan[o] : o \in Owned}
      OBVIOUS
    <2>2. plans \in SUBSET had /\ had \in SUBSET Plans
      BY <2>1, QuotasTyped DEF OrganizationsFit
    <2>3. {MaxOrganizations[plan[o]] : o \in Owned} = LimitsOf(MaxOrganizations, plans)
      BY <2>1 DEF LimitsOf
    <2>4. PICK most \in Nat : most = Max({1} \cup LimitsOf(MaxOrganizations, had))
      BY <2>2, Limits, MorePlans
    <2>5. PICK now \in Nat : now = Max({1} \cup LimitsOf(MaxOrganizations, plans))
      BY <2>2, Limits, MorePlans
    <2>6. now <= most
      BY <2>2, <2>4, <2>5, Limits, MorePlans
    <2>7. Cardinality(Owned) < now
      BY <1>1, <2>3, <2>5 DEF MayCreate
    <2>8. Creating' \in SUBSET Threads /\ IsFiniteSet(Threads)
      BY WorkersAssumption DEF Creating
    <2>9. /\ Cardinality(Creating') <= Cardinality(Threads)
          /\ Cardinality(Creating') \in Nat
      BY <2>8, PartIsSmaller
    <2>10. Owned' = Owned
      BY <1>1 DEF Owned
    <2>11. Cardinality(Owned') + Cardinality(Creating')
              <= most + Cardinality(Threads) - 1
      BY <2>6, <2>7, <2>9, <2>10, OwnedType
    <2>12. Home \in Owned' /\ \A o \in Owned' : plan'[o] \in had'
      BY <1>1, <2>10, QuotasTyped DEF OrganizationsFit
    <2>13. QED
      BY <1>1, <2>4, <2>11, <2>12 DEF OrganizationsFit, LimitsOf
  <1>12. QED
    BY <1>1, <1>3, <1>5, <1>6, <1>7, <1>8, <1>9, <1>10, <1>11, QuotasStep

\* Both ways to save the content of a document before its row.
LEMMA StoreStep ==
    ASSUME QuotasInv, NEW w \in Workers, NEW p \in Paths, NEW type \in DocumentTypes,
           StoreUploadFile(w, p, type),
           IF type = "anaf_response" THEN w # Loop
           ELSE w = Loop /\ Cardinality(Held) + 1 <= MaxDocuments[plan[Home]]
    PROVE  QuotasInv'
  <1>1. /\ job[w] = Idle /\ NextDocument \in Documents /\ p \in FreePaths
        /\ content' = [content EXCEPT ![p] = NextDocument]
        /\ plan' = plan /\ had' = had /\ stored' = stored
        /\ response' = response /\ imported' = imported /\ received' = received
    BY DEF StoreUploadFile
  <1>2. content[p] = NoDocument
    BY <1>1 DEF FreePaths
  <1>3. PICK step \in UnderWaySteps :
            step = IF type = "invoice_import" THEN "saved" ELSE "ready"
    BY DEF UnderWaySteps
  <1>4. PICK j : j = DocumentSession(type, p, NextDocument, plan[Home], step)
    OBVIOUS
  <1>5. /\ j \in Job /\ j.kind = type /\ j.path = p /\ j.adds = NextDocument
        /\ j.plan = plan[Home] /\ j.step = step /\ j.count = 0
    <2>1. PICK next \in Documents : next = NextDocument
      BY <1>1
    <2>2. PICK code \in Plans : code = plan[Home]
      BY QuotasTyped
    <2>3. BeginsDocument(DocumentSession(type, p, next, code, step),
                         type, p, next, code, step)
      BY NewDocumentSession
    <2>4. QED
      BY <1>4, <2>1, <2>2, <2>3 DEF BeginsDocument
  <1>6. job' = [job EXCEPT ![w] = j]
    BY <1>3, <1>4 DEF StoreUploadFile, DocumentSession
  <1>7. job'[w] = j /\ \A u \in Workers : u # w => job'[u] = job[u]
    BY <1>6, QuotasTyped
  <1>8. content'[p] = NextDocument
        /\ \A q \in Paths : content[q] # NoDocument => content'[q] = content[q]
    BY <1>1, <1>2, QuotasTyped
  <1>9. QuotasTypeOK'
    BY <1>1, <1>5, <1>6, QuotasTyped DEF QuotasTypeOK, Workers
  <1>10. Held' = Held /\ Uploaded' = Uploaded
    BY <1>1, DocumentsRest
  <1>11. UploadsWithinPlan'
    BY <1>1, <1>10, QuotasTyped, UploadsRest
  <1>12. DocumentsCanBeRead'
    <2>1. ASSUME NEW d \in Held PROVE content'[stored'[d].path] = d
      <3>1. content[stored[d].path] = d /\ d # NoDocument
        BY QuotasTyped, DocumentIds, UploadedType DEF DocumentsCanBeRead
      <3>2. stored[d] \in DocumentRow
        BY QuotasTyped DEF Held
      <3>3. stored[d].path \in Paths
        BY <3>2 DEF DocumentRow
      <3>4. QED
        BY <1>1, <1>8, <3>1, <3>3
    <2>2. QED
      BY <1>1, <1>10, <2>1, QuotasTyped DEF DocumentsCanBeRead
  <1>13. Creating' \in SUBSET Creating
    BY <1>5, <1>7 DEF Creating, DocumentTypes, Workers
  <1>14. OrganizationsFit'
    BY <1>1, <1>13, OrganizationsRest
  <1>15. ASSUME NEW v \in Workers \ {w}, job[v].kind \in DocumentTypes
         PROVE  job[v].adds # NextDocument
    <2>1. DocumentFits(v)
      BY <1>15, QuotasTyped, IdleType DEF SessionFits, DocumentTypes
    <2>2. job[v].adds \in Saved
      BY <2>1 DEF DocumentFits, Saved
    <2>3. QED
      BY <2>2, NextDocumentIsNew
  <1>16. type # "anaf_response" =>
             w = Loop /\ Cardinality(Uploaded) + 1 <= MaxDocuments[plan[Home]]
    BY UploadedType, Limits, QuotasTyped
  <1>17. DocumentFits(w)'
    <2>1. \A v \in Workers' \ {w} :
              job'[v].kind \in DocumentTypes => job'[v].adds # NextDocument
      BY <1>7, <1>15 DEF Workers
    <2>2. NextDocument \in Documents \ Held'
      BY <1>1, <1>10, NextDocumentIsNew
    <2>3. QED
      BY <1>1, <1>5, <1>7, <1>8, <1>10, <1>16, <2>1, <2>2, QuotasTyped DEF DocumentFits
  <1>18. SessionFits(w)'
    BY <1>17 DEF SessionFits
  <1>19. j.adds \notin Saved
    BY <1>5, NextDocumentIsNew
  <1>20. QED
    BY <1>1, <1>7, <1>8, <1>9, <1>10, <1>11, <1>12, <1>14, <1>18, <1>19, QuotasStep

LEMMA UploadStep ==
    ASSUME QuotasInv, NEW w \in Workers, NEW p \in Paths, NEW type \in DocumentTypes,
           Upload(w, p, type)
    PROVE  QuotasInv'
  BY StoreStep DEF Upload, ServedBy

LEMMA DownloadStep ==
    ASSUME QuotasInv, NEW w \in Workers, NEW p \in Paths, Download(w, p)
    PROVE  QuotasInv'
  <1>1. "anaf_response" \in DocumentTypes
    BY DEF DocumentTypes
  <1>2. w # Loop /\ StoreUploadFile(w, p, "anaf_response")
    BY DEF Download, ServedBy
  <1>3. QED
    BY <1>1, <1>2, StoreStep

LEMMA ImportStep ==
    ASSUME QuotasInv, NEW w \in Workers, NEW n \in 0..MaxBatch, NEW dated \in 0..n,
           Import(w, n, dated)
    PROVE  QuotasInv'
  <1>1. PICK k \in Job : k = job[w]
    BY QuotasTyped
  <1>2. /\ k.kind = "invoice_import" /\ k.step = "saved"
        /\ imported + received + n <= MaxInvoices[k.plan]
        /\ plan' = plan /\ had' = had /\ content' = content /\ stored' = stored
        /\ response' = response /\ imported' = imported /\ received' = received
    BY <1>1 DEF Import
  <1>3. PICK j : j = Counted(k, dated)
    OBVIOUS
  <1>4. dated \in 0..MaxBatch /\ dated \in Nat /\ n \in Nat /\ dated <= n
    BY StorageAssumption
  <1>5. /\ j \in Job /\ j.kind = k.kind /\ j.path = k.path /\ j.adds = k.adds
        /\ j.plan = k.plan /\ j.step = "ready" /\ j.count = dated
    <2>1. LET l == Counted(k, dated) IN
          /\ l \in Job /\ l.kind = k.kind /\ l.path = k.path /\ l.adds = k.adds
          /\ l.plan = k.plan /\ l.step = "ready" /\ l.count = dated
      BY <1>4, CountedSession, Zenon
    <2>2. QED
      BY <1>3, <2>1
  <1>6. job' = [job EXCEPT ![w] = j]
    BY <1>1, <1>3, QuotasTyped DEF Import, Counted
  <1>7. job'[w] = j /\ \A u \in Workers : u # w => job'[u] = job[u]
    BY <1>6, QuotasTyped
  <1>8. k.kind \in DocumentTypes /\ k.kind # "anaf_response" /\ k.kind # "create"
    BY <1>2 DEF DocumentTypes
  <1>9. QuotasTypeOK'
    BY <1>2, <1>5, <1>6, QuotasTyped DEF QuotasTypeOK, Workers
  <1>10. Held' = Held /\ Uploaded' = Uploaded
    BY <1>2, DocumentsRest
  <1>11. UploadsWithinPlan'
    BY <1>2, <1>10, QuotasTyped, UploadsRest
  <1>12. DocumentsCanBeRead'
    BY <1>2, QuotasTyped DEF DocumentsCanBeRead, Held
  <1>13. Creating' \in SUBSET Creating
    BY <1>5, <1>7, <1>8 DEF Creating, Workers
  <1>14. OrganizationsFit'
    BY <1>2, <1>13, OrganizationsRest
  <1>15. DocumentFits(w)
    BY <1>1, <1>8, QuotasTyped, IdleType DEF SessionFits
  <1>16. /\ k.adds \in Documents \ Held /\ k.path \in Paths
         /\ content[k.path] = k.adds
         /\ \A v \in Workers \ {w} :
                job[v].kind \in DocumentTypes => job[v].adds # k.adds
         /\ w = Loop /\ k.plan \in had
         /\ Cardinality(Uploaded) + 1 <= MaxDocuments[k.plan]
    BY <1>1, <1>8, <1>15 DEF DocumentFits
  <1>17. imported + dated <= MaxInvoices[k.plan]
    <2>1. k.plan \in Plans /\ MaxInvoices[k.plan] \in Nat
      BY <1>16, QuotasTyped, Limits
    <2>2. imported \in Nat /\ received \in Nat
      BY QuotasTyped
    <2>3. QED
      BY <1>2, <1>4, <2>1, <2>2
  <1>18. DocumentFits(w)'
    <2>1. \A v \in Workers' \ {w} :
              job'[v].kind \in DocumentTypes => job'[v].adds # k.adds
      BY <1>7, <1>16 DEF Workers
    <2>2. QED
      BY <1>2, <1>5, <1>7, <1>8, <1>10, <1>16, <1>17, <2>1 DEF DocumentFits
  <1>19. SessionFits(w)'
    BY <1>18 DEF SessionFits
  <1>20. job[w].kind \in DocumentTypes /\ job'[w].adds = job[w].adds
    BY <1>1, <1>5, <1>7, <1>8
  <1>21. QED
    BY <1>2, <1>7, <1>9, <1>10, <1>11, <1>12, <1>14, <1>19, <1>20, QuotasStep

\* The commit of a session that adds an organisation.
LEMMA CommitOrganizationStep ==
    ASSUME QuotasInv, NEW w \in Workers, Commit(w), job[w].kind = "create"
    PROVE  QuotasInv'
  <1>1. PICK j \in Job : j = job[w]
    BY QuotasTyped
  <1>2. j.kind = "create" /\ j.kind \notin DocumentTypes /\ j # Idle
    BY <1>1, IdleType DEF DocumentTypes
  <1>3. w \in Threads /\ j.adds \in Organizations
    BY <1>1, <1>2, QuotasTyped DEF SessionFits, DocumentFits
  <1>4. /\ plan' = [plan EXCEPT ![j.adds] = "one"] /\ had' = had \cup {"one"}
        /\ stored' = stored /\ response' = response /\ imported' = imported
        /\ job' = [job EXCEPT ![w] = Idle]
        /\ content' = content /\ received' = received
    BY <1>1, <1>2 DEF Commit
  <1>5. job'[w] = Idle /\ \A u \in Workers : u # w => job'[u] = job[u]
    BY <1>4, QuotasTyped
  <1>6. QuotasTypeOK'
    BY <1>4, QuotasTyped, IdleType, PlansAssumption DEF QuotasTypeOK, Workers
  <1>7. Held' = Held /\ Uploaded' = Uploaded
    BY <1>4, DocumentsRest
  <1>8. had \in SUBSET had' /\ had' \in SUBSET Plans
    BY <1>4, QuotasTyped, PlansAssumption
  <1>9. UploadsWithinPlan'
    BY <1>4, <1>7, <1>8, UploadsRest
  <1>10. DocumentsCanBeRead'
    BY <1>4, QuotasTyped DEF DocumentsCanBeRead, Held
  <1>11. SessionFits(w)'
    BY <1>5 DEF SessionFits
  <1>12. OrganizationsFit'
    <2>1. PICK most \in Nat : most = Max({1} \cup LimitsOf(MaxOrganizations, had))
      BY QuotasTyped, Limits, MorePlans
    <2>2. PICK more \in Nat : more = Max({1} \cup LimitsOf(MaxOrganizations, had'))
      BY <1>8, Limits, MorePlans
    <2>3. most <= more
      BY <1>8, <2>1, <2>2, Limits, MorePlans
    <2>4. Cardinality(Owned) + Cardinality(Creating)
              <= most + Cardinality(Threads) - 1
      BY <2>1, QuotasTyped DEF OrganizationsFit, LimitsOf
    <2>5. Owned' = Owned \cup {j.adds}
      BY <1>3, <1>4, QuotasTyped DEF Owned
    <2>6. Cardinality(Owned \cup {j.adds}) =
              IF j.adds \in Owned THEN Cardinality(Owned) ELSE Cardinality(Owned) + 1
      BY OwnedType, FS_AddElement
    <2>7. /\ Creating \in SUBSET Threads /\ Creating' \in SUBSET Threads
          /\ w \in Creating /\ w \notin Creating'
          /\ \A v \in Threads : v # w => (v \in Creating' <=> v \in Creating)
      BY <1>1, <1>2, <1>3, <1>5, IdleType, DocumentIds DEF Creating
    <2>8. Cardinality(Creating') = Cardinality(Creating) - 1
      BY <1>3, <2>7, WorkersAssumption, OneMoves
    <2>9. Cardinality(Owned') + Cardinality(Creating')
              <= more + Cardinality(Threads) - 1
      BY <2>3, <2>4, <2>5, <2>6, <2>8, OwnedType
    <2>10. Home \in Owned' /\ \A o \in Owned' : plan'[o] \in had'
      BY <1>3, <1>4, <2>5, QuotasTyped DEF OrganizationsFit, Owned
    <2>11. QED
      BY <2>2, <2>9, <2>10 DEF OrganizationsFit, LimitsOf
  <1>13. QED
    BY <1>4, <1>5, <1>6, <1>7, <1>8, <1>9, <1>10, <1>11, <1>12, IdleType, QuotasStep

\* The commit of a session that adds a document, and the invoices of it.
LEMMA CommitDocumentStep ==
    ASSUME QuotasInv, NEW w \in Workers, Commit(w), job[w].kind \in DocumentTypes
    PROVE  QuotasInv'
  <1>1. PICK j \in Job : j = job[w]
    BY QuotasTyped
  <1>2. j.kind \in DocumentTypes /\ j.kind # "create" /\ j # Idle
    BY <1>1, IdleType DEF DocumentTypes
  <1>3. PICK row : row = [type |-> j.kind, path |-> j.path]
    OBVIOUS
  <1>4. /\ stored' = [stored EXCEPT ![j.adds] = row]
        /\ response' = IF j.kind = "anaf_response" THEN j.adds ELSE response
        /\ imported' = imported + j.count
        /\ plan' = plan /\ had' = had
        /\ job' = [job EXCEPT ![w] = Idle]
        /\ content' = content /\ received' = received
    BY <1>1, <1>2, <1>3 DEF Commit
  <1>5. DocumentFits(w)
    BY <1>1, <1>2, QuotasTyped DEF SessionFits
  <1>6. /\ j.adds \in Documents \ Held /\ j.path \in Paths
        /\ content[j.path] = j.adds
        /\ j.count # 0 => j.kind = "invoice_import"
        /\ j.kind # "anaf_response" =>
               /\ w = Loop /\ j.plan \in had
               /\ Cardinality(Uploaded) + 1 <= MaxDocuments[j.plan]
               /\ j.count # 0 => imported + j.count <= MaxInvoices[j.plan]
    BY <1>1, <1>5 DEF DocumentFits
  <1>7. /\ row \in DocumentRow /\ row # NoRow /\ row.type = j.kind /\ row.path = j.path
    BY <1>2, <1>3, <1>6, IdleType DEF DocumentRow
  <1>8. job'[w] = Idle /\ \A u \in Workers : u # w => job'[u] = job[u]
    BY <1>4, QuotasTyped
  <1>9. stored'[j.adds] = row /\ \A d \in Documents : d # j.adds => stored'[d] = stored[d]
    BY <1>4, <1>6, QuotasTyped
  <1>10. j.count \in Nat
    BY StorageAssumption DEF Job
  <1>11. QuotasTypeOK'
    BY <1>4, <1>6, <1>7, <1>10, QuotasTyped, IdleType DEF QuotasTypeOK, Workers
  <1>12. Held' = Held \cup {j.adds}
    BY <1>6, <1>7, <1>9 DEF Held
  <1>13. ASSUME j.kind = "anaf_response"
         PROVE  /\ UploadsWithinPlan'
                /\ w # Loop => Uploaded' = Uploaded /\ imported' = imported
    <2>1. j.count = 0 /\ imported' = imported
      BY <1>4, <1>6, <1>10, <1>13, QuotasTyped
    <2>2. Uploaded' = Uploaded
      BY <1>6, <1>7, <1>9, <1>12, <1>13, UploadedType DEF Uploaded
    <2>3. UploadsWithinPlan'
      BY <1>4, <2>1, <2>2, QuotasTyped, UploadsRest
    <2>4. QED
      BY <2>1, <2>2, <2>3
  <1>14. ASSUME j.kind # "anaf_response"
         PROVE  /\ UploadsWithinPlan'
                /\ w # Loop => Uploaded' = Uploaded /\ imported' = imported
    <2>1. Uploaded' = Uploaded \cup {j.adds}
      BY <1>6, <1>7, <1>9, <1>12, <1>14, UploadedType DEF Uploaded
    <2>2. Cardinality(Uploaded \cup {j.adds}) <= Cardinality(Uploaded) + 1
          /\ Cardinality(Uploaded \cup {j.adds}) \in Nat
      <3>1. Cardinality(Uploaded \cup {j.adds}) =
                IF j.adds \in Uploaded THEN Cardinality(Uploaded)
                                       ELSE Cardinality(Uploaded) + 1
        BY UploadedType, FS_AddElement
      <3>2. QED
        BY <3>1, UploadedType
    <2>3. j.plan \in had /\ had \in SUBSET Plans
      BY <1>6, <1>14, QuotasTyped
    <2>4. /\ Max(LimitsOf(MaxDocuments, had)) \in Nat
          /\ MaxDocuments[j.plan] <= Max(LimitsOf(MaxDocuments, had))
      BY <2>3, Limits, PlanCounts
    <2>5. /\ Max(LimitsOf(MaxInvoices, had)) \in Nat
          /\ MaxInvoices[j.plan] <= Max(LimitsOf(MaxInvoices, had))
      BY <2>3, Limits, PlanCounts
    <2>6. MaxInvoices[j.plan] \in Nat /\ MaxDocuments[j.plan] \in Nat
      BY <2>3, Limits
    <2>7. Cardinality(Uploaded') <= Max(LimitsOf(MaxDocuments, had))
      BY <1>6, <1>14, <2>1, <2>2, <2>4, <2>6, UploadedType
    <2>8. imported' <= Max(LimitsOf(MaxInvoices, had))
      <3>1. imported <= Max(LimitsOf(MaxInvoices, had))
        BY QuotasTyped DEF UploadsWithinPlan, LimitsOf
      <3>2. QED
        BY <1>4, <1>6, <1>10, <1>14, <2>5, <2>6, <3>1, QuotasTyped
    <2>9. UploadsWithinPlan'
      BY <1>4, <2>7, <2>8 DEF UploadsWithinPlan, LimitsOf, Uploaded
    <2>10. w = Loop
      BY <1>6, <1>14
    <2>11. QED
      BY <2>9, <2>10
  <1>15. /\ UploadsWithinPlan'
         /\ w # Loop => Uploaded' = Uploaded /\ imported' = imported
    BY <1>13, <1>14
  <1>16. DocumentsCanBeRead'
    <2>1. \A d \in Held' : content'[stored'[d].path] = d
      BY <1>4, <1>6, <1>7, <1>9, <1>12, QuotasTyped, UploadedType
      DEF DocumentsCanBeRead
    <2>2. ASSUME response' # NoDocument, j.kind # "anaf_response"
          PROVE  stored'[response'].type = "anaf_response"
      <3>1. response' = response /\ response \in Documents
        BY <1>4, <2>2, QuotasTyped
      <3>2. stored[response].type = "anaf_response"
        BY <2>2, <3>1, QuotasTyped DEF DocumentsCanBeRead
      <3>3. response \in Held
        BY <3>1, <3>2, IdleType DEF Held
      <3>4. QED
        BY <1>6, <1>9, <3>1, <3>2, <3>3
    <2>3. QED
      BY <1>4, <1>7, <1>9, <2>1, <2>2 DEF DocumentsCanBeRead
  <1>17. Creating' \in SUBSET Creating
    BY <1>8, IdleType DEF Creating, Workers
  <1>18. OrganizationsFit'
    BY <1>4, <1>17, OrganizationsRest
  <1>19. SessionFits(w)'
    BY <1>8 DEF SessionFits
  <1>20. \A d \in Documents : d \in Held' => \/ d \in Held
                                             \/ /\ job[w].kind \in DocumentTypes
                                                /\ d = job[w].adds
    BY <1>1, <1>2, <1>12
  <1>21. QED
    BY <1>4, <1>8, <1>11, <1>15, <1>16, <1>18, <1>19, <1>20, IdleType, QuotasStep

LEMMA NextQuotasInv ==
    ASSUME QuotasInv, [QuotasNext]_quotasVars
    PROVE  QuotasInv'
  <1>1. CASE UNCHANGED quotasVars
    <2>1. /\ plan' = plan /\ had' = had /\ content' = content /\ stored' = stored
          /\ response' = response /\ imported' = imported
          /\ received' = received /\ job' = job
      BY <1>1 DEF quotasVars
    <2>2. QuotasTypeOK'
      BY <2>1, QuotasTyped DEF QuotasTypeOK, Workers
    <2>3. OrganizationsFit' /\ UploadsWithinPlan' /\ DocumentsCanBeRead'
      BY <2>1, QuotasTyped
      DEF OrganizationsFit, Owned, Creating, UploadsWithinPlan, DocumentsCanBeRead, Held
    <2>4. QED
      BY <2>1, <2>2, <2>3, SessionsRest DEF QuotasInv
  <1>2. ASSUME NEW w \in Workers, Commit(w) PROVE QuotasInv'
    <2>1. job[w].kind = "create" \/ job[w].kind \in DocumentTypes
      BY <1>2 DEF Commit
    <2>2. QED
      BY <1>2, <2>1, CommitOrganizationStep, CommitDocumentStep
  <1>3. QED
    BY <1>1, <1>2, ApiStep, PlanStep, AbortStep, CreateStep, UploadStep,
       DownloadStep, ImportStep
    DEF QuotasNext

LEMMA InitQuotasInv ==
    ASSUME QuotasInit
    PROVE  QuotasInv
  <1>1. /\ plan = [o \in Organizations |-> IF o = Home THEN "one" ELSE "none"]
        /\ had = {"one"} /\ content = [p \in Paths |-> NoDocument]
        /\ stored = [d \in Documents |-> NoRow]
        /\ response = NoDocument /\ imported = 0 /\ received = 0
        /\ job = [w \in Workers |-> Idle]
    BY DEF QuotasInit
  <1>2. QuotasTypeOK
    BY <1>1, IdleType, PlansAssumption DEF QuotasTypeOK
  <1>3. Owned = {Home} /\ Creating = {} /\ Held = {} /\ Uploaded = {}
    BY <1>1, OwnerAssumption, IdleType, DocumentIds
    DEF Owned, Creating, Held, Uploaded
  <1>4. had \in SUBSET Plans /\ "one" \in had
    BY <1>1, PlansAssumption
  <1>5. Cardinality({Home}) = 1
    BY FS_Singleton
  <1>6. Cardinality({}) = 0
    BY FS_EmptySet
  <1>7. OrganizationsFit
    <2>1. PICK most \in Nat : most = Max({1} \cup LimitsOf(MaxOrganizations, had))
      BY <1>4, Limits, MorePlans
    <2>2. 1 <= most
      BY <1>4, <2>1, Limits, MorePlans
    <2>3. Cardinality(Owned) + Cardinality(Creating)
              <= most + Cardinality(Threads) - 1
      BY <1>3, <1>5, <1>6, <2>2, OwnedType
    <2>4. QED
      BY <1>1, <1>3, <2>1, <2>3, OwnerAssumption DEF OrganizationsFit, LimitsOf
  <1>8. UploadsWithinPlan
    <2>1. /\ Max(LimitsOf(MaxInvoices, had)) \in Nat
          /\ Max(LimitsOf(MaxDocuments, had)) \in Nat
      BY <1>4, Limits, PlanCounts
    <2>2. imported <= Max(LimitsOf(MaxInvoices, had))
          /\ Cardinality(Uploaded) <= Max(LimitsOf(MaxDocuments, had))
      BY <1>1, <1>3, <1>6, <2>1
    <2>3. QED
      BY <2>2 DEF UploadsWithinPlan, LimitsOf, Uploaded
  <1>9. DocumentsCanBeRead
    BY <1>1, <1>3 DEF DocumentsCanBeRead
  <1>10. \A w \in Workers : SessionFits(w)
    BY <1>1 DEF SessionFits
  <1>11. QED
    BY <1>2, <1>7, <1>8, <1>9, <1>10 DEF QuotasInv

\* The inductive invariant of the quotas holds in every state.
THEOREM QuotasInvariance == QuotasSpec => []QuotasInv
  <1>1. QuotasInit => QuotasInv
    BY InitQuotasInv
  <1>2. QuotasInv /\ [QuotasNext]_quotasVars => QuotasInv'
    BY NextQuotasInv
  <1>3. QED
    BY <1>1, <1>2, PTL DEF QuotasSpec

\* For all plans and limits, what was uploaded stays within a plan that the
\* organisation has had.
THEOREM UploadsKept == QuotasSpec => []UploadsWithinPlan
  <1>1. QuotasInv => UploadsWithinPlan
    BY DEF QuotasInv
  <1>2. QED
    BY <1>1, QuotasInvariance, PTL

\* For every number of threads, the limit of organisations is passed by no
\* more than the other threads.
THEOREM OrganizationsFew == QuotasSpec => []OrganizationsAreFew
  <1>1. ASSUME QuotasInv PROVE OrganizationsAreFew
    <2>1. PICK most \in Nat : most = Max({1} \cup LimitsOf(MaxOrganizations, had))
      BY <1>1, QuotasTyped, Limits, MorePlans
    <2>2. Cardinality(Owned) + Cardinality(Creating)
              <= most + Cardinality(Threads) - 1
      BY <1>1, <2>1, QuotasTyped DEF OrganizationsFit, LimitsOf
    <2>3. Cardinality(Owned) <= most + Cardinality(Threads) - 1
      BY <2>2, OwnedType
    <2>4. QED
      BY <2>1, <2>3 DEF OrganizationsAreFew, LimitsOf
  <1>2. QED
    BY <1>1, QuotasInvariance, PTL

\* For every number of workers and places, a document that the database knows
\* can be read back, and the response an invoice names is one.
THEOREM DocumentsReadable == QuotasSpec => []DocumentsCanBeRead
  <1>1. QuotasInv => DocumentsCanBeRead
    BY DEF QuotasInv
  <1>2. QED
    BY <1>1, QuotasInvariance, PTL

-----------------------------------------------------------------------------
(* The rate limiter.                                                       *)

LEMMA RateTyped ==
    ASSUME RateInv
    PROVE  /\ bucket \in Seq(Nat) /\ admitted \in Seq(Nat)
           /\ refused \in BOOLEAN /\ burst \in Nat
           /\ Len(bucket) \in Nat /\ Len(admitted) \in Nat
           /\ Len(admitted) <= Len(bucket)
           /\ DOMAIN bucket = 1..Len(bucket) /\ DOMAIN admitted = 1..Len(admitted)
           /\ \A n \in 1..Len(bucket) : bucket[n] \in Nat
           /\ \A n \in 1..Len(admitted) : admitted[n] \in Nat /\ admitted[n] <= Window
           /\ \A n \in 1..(Len(bucket) - Len(admitted)) : bucket[n] > Window
           /\ \A n \in 1..Len(admitted) :
                  bucket[(Len(bucket) - Len(admitted)) + n] = admitted[n]
           /\ \A m, n \in 1..Len(admitted) : m <= n => admitted[n] <= admitted[m]
           /\ Len(admitted) <= PerWindow
           /\ Window \in Nat /\ PerWindow \in Nat /\ PerWindow > 0 /\ MaxBurst \in Nat
  <1>1. /\ bucket \in Seq(Nat) /\ admitted \in Seq(0..Window)
        /\ refused \in BOOLEAN /\ burst \in Nat
        /\ Window \in Nat /\ PerWindow \in Nat /\ PerWindow > 0 /\ MaxBurst \in Nat
    BY LimitAssumption DEF RateInv, RateTypeOK
  <1>2. /\ Len(bucket) \in Nat /\ Len(admitted) \in Nat
        /\ DOMAIN bucket = 1..Len(bucket) /\ DOMAIN admitted = 1..Len(admitted)
        /\ \A n \in 1..Len(bucket) : bucket[n] \in Nat
        /\ \A n \in 1..Len(admitted) : admitted[n] \in 0..Window
    BY <1>1, LenProperties, ElementOfSeq
  <1>3. \A n \in 1..Len(admitted) : admitted[n] \in Nat /\ admitted[n] <= Window
    BY <1>1, <1>2
  <1>4. admitted \in Seq(Nat)
    BY <1>1
  <1>5. QED
    BY <1>1, <1>2, <1>3, <1>4 DEF RateInv, BucketFits, OldestFirst, WindowIsKept

\* Numbers of requests that leave: those before the first one that stays.
LEMMA FirstOnes ==
    ASSUME NEW m \in Nat, NEW A \in SUBSET (1..m),
           \A a \in A : \A b \in 1..m : b <= a => b \in A
    PROVE  /\ Cardinality(A) \in Nat /\ Cardinality(A) <= m
           /\ A = 1..Cardinality(A)
  <1>1. IsFiniteSet(1..m) /\ Cardinality(1..m) = m
    BY FS_Interval
  <1>2. Cardinality(A) \in Nat /\ Cardinality(A) <= m
    BY <1>1, PartIsSmaller
  <1> DEFINE T == {n \in Nat : n >= 1 /\ n \notin A}
  <1>3. T \in SUBSET Nat /\ m + 1 \in T
    OBVIOUS
  <1>4. PICK k \in T : \A n \in T : k <= n
    BY <1>3, LeastNumber
  <1>5. k - 1 \in Nat /\ A = 1..(k - 1)
    <2>1. k \in Nat /\ k >= 1 /\ k \notin A /\ k <= m + 1
      BY <1>3, <1>4
    <2>2. ASSUME NEW n \in 1..m, n < k PROVE n \in A
      BY <1>4, <2>1, <2>2
    <2>3. ASSUME NEW n \in A, n >= k PROVE FALSE
      <3>1. n \in 1..m /\ k \in 1..m /\ k <= n
        BY <2>1, <2>3
      <3>2. QED
        BY <2>1, <3>1
    <2>4. k - 1 \in Nat
      BY <2>1
    <2>5. ASSUME NEW n \in 1..(k - 1) PROVE n \in A
      <3>1. n \in 1..m /\ n < k
        BY <2>1
      <3>2. QED
        BY <2>2, <3>1
    <2>6. ASSUME NEW n \in A PROVE n \in 1..(k - 1)
      <3>1. n \in 1..m /\ ~ (n >= k)
        BY <2>3
      <3>2. QED
        BY <2>1, <3>1
    <2>7. QED
      BY <2>4, <2>5, <2>6
  <1>6. Cardinality(1..(k - 1)) = k - 1
    BY <1>5, FS_Interval
  <1>7. QED
    BY <1>2, <1>5, <1>6

\* What the loop leaves are the requests let through in the window.
LEMMA TrimLeavesWindow ==
    ASSUME RateInv
    PROVE  Trimmed = admitted
  <1>1. PICK all \in Nat : all = Len(bucket)
    BY RateTyped
  <1>2. PICK kept \in Nat : kept = Len(admitted) /\ kept <= all
    BY <1>1, RateTyped
  <1>3. PICK old \in Nat : old = all - kept
    <2>1. all - kept \in Nat
      BY <1>2
    <2>2. QED
      BY <2>1
  <1> DEFINE I == {n \in 1..all : bucket[n] <= Window}
  <1>4. /\ \A n \in 1..old : bucket[n] > Window
        /\ \A n \in 1..kept : bucket[old + n] = admitted[n] /\ admitted[n] <= Window
        /\ \A n \in 1..all : bucket[n] \in Nat
    BY <1>1, <1>2, <1>3, RateTyped
  <1>5. ASSUME NEW n \in 1..all PROVE n \in I <=> n > old
    <2>1. CASE n <= old
      BY <1>4, <2>1, RateTyped
    <2>2. CASE n > old
      <3>1. PICK m \in 1..kept : n = old + m
        <4>1. n - old \in 1..kept /\ n = old + (n - old)
          BY <1>2, <1>3, <2>2
        <4>2. QED
          BY <4>1
      <3>2. QED
        BY <1>4, <2>2, <3>1
    <2>3. QED
      BY <2>1, <2>2
  <1>6. Trimmed = IF (IF I # {} THEN Min(I) ELSE 0) = 0 THEN <<>>
                  ELSE SubSeq(bucket, IF I # {} THEN Min(I) ELSE 0, all)
    BY <1>1 DEF Trimmed, SelectInSeq
  <1> HIDE DEF I
  <1>7. CASE kept = 0
    <2>1. I = {}
      BY <1>2, <1>3, <1>5, <1>7 DEF I
    <2>2. Trimmed = <<>>
      BY <1>6, <2>1
    <2>3. QED
      BY <1>2, <1>7, <2>2, RateTyped, EmptySeq
  <1>8. CASE kept # 0
    <2>1. old + 1 \in 1..all
      BY <1>2, <1>3, <1>8
    <2>2. I # {} /\ old + 1 \in I
      BY <1>5, <2>1
    <2>3. \A n \in I : old + 1 <= n /\ n \in Nat
      BY <1>5 DEF I
    <2>4. Min(I) \in I /\ \A n \in I : Min(I) <= n
      BY <2>2, <2>3 DEF Min
    <2>5. Min(I) = old + 1
      BY <2>2, <2>3, <2>4
    <2>6. Trimmed = SubSeq(bucket, old + 1, all)
      BY <1>6, <2>2, <2>5
    <2>7. \A n \in (old + 1)..all : bucket[n] \in Nat
      BY <1>4
    <2>8. all - (old + 1) + 1 = kept /\ old + 1 <= all
      BY <1>2, <1>3, <1>8
    <2>9. /\ SubSeq(bucket, old + 1, all) \in Seq(Nat)
          /\ Len(SubSeq(bucket, old + 1, all)) = kept
          /\ \A n \in 1..kept : SubSeq(bucket, old + 1, all)[n] = bucket[old + 1 + n - 1]
      BY <2>7, <2>8, SubSeqProperties
    <2>10. \A n \in 1..kept : SubSeq(bucket, old + 1, all)[n] = admitted[n]
      <3>1. ASSUME NEW n \in 1..kept
            PROVE  SubSeq(bucket, old + 1, all)[n] = admitted[n]
        <4>1. old + 1 + n - 1 = old + n
          OBVIOUS
        <4>2. QED
          BY <1>4, <2>9, <4>1
      <3>2. QED
        BY <3>1
    <2>11. QED
      BY <1>2, <2>6, <2>9, <2>10, RateTyped, SeqEqual
  <1>9. QED
    BY <1>7, <1>8

\* A second makes every request of the window older, and the first of them
\* leave it.
LEMMA SecondStep ==
    ASSUME RateInv, SecondPasses
    PROVE  RateInv'
  <1>1. PICK all \in Nat : all = Len(bucket)
    BY RateTyped
  <1>2. PICK kept \in Nat : kept = Len(admitted) /\ kept <= all
    BY <1>1, RateTyped
  <1>3. PICK old \in Nat : old = all - kept
    <2>1. all - kept \in Nat
      BY <1>2
    <2>2. QED
      BY <2>1
  <1>4. /\ \A n \in 1..old : bucket[n] > Window
        /\ \A n \in 1..kept : /\ bucket[old + n] = admitted[n]
                              /\ admitted[n] \in Nat /\ admitted[n] <= Window
        /\ \A n \in 1..all : bucket[n] \in Nat
        /\ \A m, n \in 1..kept : m <= n => admitted[n] <= admitted[m]
        /\ kept <= PerWindow /\ PerWindow \in Nat /\ Window \in Nat
        /\ refused \in BOOLEAN /\ MaxBurst \in Nat
        /\ DOMAIN bucket = 1..all /\ DOMAIN admitted = 1..kept
    BY <1>1, <1>2, <1>3, RateTyped
  <1> DEFINE A == {n \in 1..kept : admitted[n] + 1 > Window}
             aged == [n \in 1..kept |-> admitted[n] + 1]
  <1>5. /\ bucket' = [n \in 1..all |->
                         IF bucket[n] > Window THEN bucket[n] ELSE bucket[n] + 1]
        /\ admitted' = SubSeq(aged, Cardinality(A) + 1, kept)
        /\ burst' = 0 /\ refused' = refused
    BY <1>2, <1>4 DEF SecondPasses, Older, Leaving
  <1>6. A \in SUBSET (1..kept) /\ \A a \in A : \A b \in 1..kept : b <= a => b \in A
    <2>1. ASSUME NEW a \in A, NEW b \in 1..kept, b <= a PROVE b \in A
      <3>1. admitted[a] <= admitted[b] /\ admitted[a] \in Nat /\ admitted[b] \in Nat
        BY <1>4, <2>1
      <3>2. QED
        BY <1>4, <3>1
    <2>2. QED
      BY <2>1
  <1>7. PICK k \in Nat : k = Cardinality(A) /\ k <= kept /\ A = 1..k
    BY <1>6, FirstOnes
  <1>8. PICK left \in Nat : left = kept - k
    <2>1. kept - k \in Nat
      BY <1>7
    <2>2. QED
      BY <2>1
  <1>9. \A n \in (k + 1)..kept : aged[n] \in 0..Window
    <2>1. ASSUME NEW n \in (k + 1)..kept PROVE aged[n] \in 0..Window
      <3>1. n \in 1..kept /\ n \notin A
        BY <1>7
      <3>2. ~ (admitted[n] + 1 > Window) /\ aged[n] = admitted[n] + 1
        BY <3>1
      <3>3. QED
        BY <1>4, <3>1, <3>2
    <2>2. QED
      BY <2>1
  <1>10. /\ admitted' \in Seq(0..Window) /\ Len(admitted') = left
         /\ \A n \in 1..left : admitted'[n] = admitted[k + n] + 1
    <2>1. /\ SubSeq(aged, k + 1, kept) \in Seq(0..Window)
          /\ Len(SubSeq(aged, k + 1, kept)) =
                IF k + 1 <= kept THEN kept - (k + 1) + 1 ELSE 0
          /\ \A n \in 1..(kept - (k + 1) + 1) :
                SubSeq(aged, k + 1, kept)[n] = aged[k + 1 + n - 1]
      <3>1. PICK ages : ages = aged
        OBVIOUS
      <3>2. PICK from \in Int : from = k + 1
        OBVIOUS
      <3>3. PICK S : S = 0..Window
        OBVIOUS
      <3>4. \A n \in from..kept : ages[n] \in S
        BY <1>9, <3>1, <3>2, <3>3
      <3>5. /\ SubSeq(ages, from, kept) \in Seq(S)
            /\ Len(SubSeq(ages, from, kept)) =
                  IF from <= kept THEN kept - from + 1 ELSE 0
            /\ \A n \in 1..(kept - from + 1) :
                  SubSeq(ages, from, kept)[n] = ages[from + n - 1]
        BY <3>4, SubSeqProperties
      <3>6. QED
        BY <3>1, <3>2, <3>3, <3>5
    <2>2. kept - (k + 1) + 1 = left /\ (~ (k + 1 <= kept) => left = 0)
      BY <1>7, <1>8
    <2>3. ASSUME NEW n \in 1..left
          PROVE  k + 1 + n - 1 = k + n /\ k + n \in 1..kept
      BY <1>7, <1>8
    <2>4. QED
      BY <1>5, <1>7, <2>1, <2>2, <2>3
  <1>11. bucket' \in Seq(Nat) /\ Len(bucket') = all
    <2>1. \A n \in 1..all :
              (IF bucket[n] > Window THEN bucket[n] ELSE bucket[n] + 1) \in Nat
      BY <1>4
    <2>2. QED
      BY <1>5, <2>1
  <1>12. all - left = old + k
    BY <1>2, <1>3, <1>7, <1>8
  <1>13. ASSUME NEW n \in 1..(old + k) PROVE bucket'[n] > Window
    <2>1. n \in 1..all
      BY <1>2, <1>3, <1>7
    <2>2. CASE n <= old
      BY <1>4, <1>5, <2>1, <2>2
    <2>3. CASE n > old
      <3>1. PICK m \in 1..k : n = old + m
        <4>1. n - old \in 1..k /\ n = old + (n - old)
          BY <2>3
        <4>2. QED
          BY <4>1
      <3>2. m \in 1..kept /\ admitted[m] + 1 > Window
        BY <1>7, <3>1
      <3>3. bucket[n] = admitted[m] /\ admitted[m] <= Window
        BY <1>4, <3>1, <3>2
      <3>4. QED
        BY <1>4, <1>5, <2>1, <3>2, <3>3
    <2>4. QED
      BY <2>2, <2>3
  <1>14. ASSUME NEW n \in 1..left PROVE bucket'[(old + k) + n] = admitted'[n]
    <2>1. k + n \in 1..kept /\ (old + k) + n = old + (k + n) /\ old + (k + n) \in 1..all
      BY <1>2, <1>3, <1>7, <1>8
    <2>2. bucket[old + (k + n)] = admitted[k + n] /\ admitted[k + n] <= Window
          /\ admitted[k + n] \in Nat
      BY <1>4, <2>1
    <2>3. bucket'[old + (k + n)] = bucket[old + (k + n)] + 1
      BY <1>4, <1>5, <2>1, <2>2
    <2>4. QED
      BY <1>10, <2>1, <2>2, <2>3
  <1>15. BucketFits'
    <2>1. left <= all /\ all - left = old + k
      BY <1>2, <1>7, <1>8, <1>12
    <2>2. QED
      BY <1>10, <1>11, <1>13, <1>14, <2>1 DEF BucketFits
  <1>16. OldestFirst'
    <2>1. ASSUME NEW m \in 1..left, NEW n \in 1..left, m <= n
          PROVE  admitted'[n] <= admitted'[m]
      <3>1. k + m \in 1..kept /\ k + n \in 1..kept /\ k + m <= k + n
        BY <1>7, <1>8, <2>1
      <3>2. admitted[k + n] <= admitted[k + m]
            /\ admitted[k + n] \in Nat /\ admitted[k + m] \in Nat
        BY <1>4, <3>1
      <3>3. QED
        BY <1>10, <3>2
    <2>2. QED
      BY <1>10, <2>1 DEF OldestFirst
  <1>17. WindowIsKept' /\ RateTypeOK'
    <2>1. left <= PerWindow
      BY <1>4, <1>7, <1>8
    <2>2. burst' \in 0..MaxBurst /\ refused' \in BOOLEAN
      BY <1>4, <1>5
    <2>3. QED
      BY <1>10, <1>11, <2>1, <2>2 DEF WindowIsKept, RateTypeOK
  <1>18. QED
    BY <1>15, <1>16, <1>17 DEF RateInv

LEMMA RequestStep ==
    ASSUME RateInv, Request
    PROVE  /\ RateInv'
           /\ refused' => Len(admitted) = PerWindow
  <1>1. Trimmed = admitted
    BY TrimLeavesWindow
  <1>2. /\ admitted \in Seq(0..Window) /\ admitted \in Seq(Nat)
        /\ 0 \in 0..Window /\ Window \in Nat
        /\ burst \in Nat /\ burst < MaxBurst /\ MaxBurst \in Nat /\ burst' = burst + 1
    BY RateTyped DEF RateInv, RateTypeOK, Request
  <1>3. RateTypeOK' /\ BucketFits' /\ OldestFirst' /\ WindowIsKept'
        /\ (refused' => Len(admitted) = PerWindow)
    <2>1. CASE Len(admitted) >= PerWindow
      <3>1. bucket' = admitted /\ refused' = TRUE /\ admitted' = admitted
        BY <1>1, <2>1, RateTyped DEF Request, WhenRefused
      <3>2. QED
        BY <1>2, <2>1, <3>1, RateTyped
        DEF RateTypeOK, BucketFits, OldestFirst, WindowIsKept
    <2>2. CASE Len(admitted) < PerWindow
      <3>1. /\ bucket' = Append(admitted, 0) /\ refused' = FALSE
            /\ admitted' = Append(admitted, 0)
        BY <1>1, <2>2, RateTyped DEF Request
      <3>2. PICK kept \in Nat : kept = Len(admitted)
        BY RateTyped
      <3>3. /\ Append(admitted, 0) \in Seq(0..Window)
            /\ Append(admitted, 0) \in Seq(Nat)
            /\ Len(Append(admitted, 0)) = kept + 1
            /\ \A n \in 1..kept : Append(admitted, 0)[n] = admitted[n]
            /\ Append(admitted, 0)[kept + 1] = 0
        <4>1. PICK S : S = 0..Window /\ 0 \in S /\ admitted \in Seq(S)
          BY <1>2
        <4>2. /\ Append(admitted, 0) \in Seq(S)
              /\ Len(Append(admitted, 0)) = Len(admitted) + 1
              /\ \A n \in 1..Len(admitted) : Append(admitted, 0)[n] = admitted[n]
              /\ Append(admitted, 0)[Len(admitted) + 1] = 0
          BY <4>1, AppendProperties
        <4>3. Append(admitted, 0) \in Seq(Nat)
          BY <1>2, AppendProperties
        <4>4. QED
          BY <3>2, <4>1, <4>2, <4>3
      <3>4. RateTypeOK'
        <4>1. burst' \in 0..MaxBurst
          BY <1>2
        <4>2. refused' \in BOOLEAN
          BY <3>1
        <4>3. bucket' \in Seq(Nat) /\ admitted' \in Seq(0..Window)
          BY <3>1, <3>3
        <4>4. QED
          BY <4>1, <4>2, <4>3 DEF RateTypeOK
      <3>5. BucketFits'
        BY <3>1, <3>3 DEF BucketFits
      <3>6. OldestFirst'
        <4>1. ASSUME NEW m \in 1..(kept + 1), NEW n \in 1..(kept + 1), m <= n
              PROVE  admitted'[n] <= admitted'[m]
          <5>1. CASE n = kept + 1
            <6>1. admitted'[m] \in Nat /\ admitted'[n] = 0
              BY <3>1, <3>2, <3>3, <5>1, RateTyped
            <6>2. QED
              BY <6>1
          <5>2. CASE n # kept + 1
            <6>1. m \in 1..kept /\ n \in 1..kept
              BY <4>1, <5>2
            <6>2. QED
              BY <3>1, <3>2, <3>3, <4>1, <6>1, RateTyped
          <5>3. QED
            BY <5>1, <5>2
        <4>2. QED
          BY <3>1, <3>3, <4>1 DEF OldestFirst
      <3>7. WindowIsKept'
        BY <2>2, <3>1, <3>2, <3>3, RateTyped DEF WindowIsKept
      <3>8. QED
        BY <3>1, <3>4, <3>5, <3>6, <3>7
    <2>3. QED
      BY <2>1, <2>2, RateTyped
  <1>4. QED
    BY <1>3 DEF RateInv

LEMMA NextRateInv ==
    ASSUME RateInv, [RateNext]_rateVars
    PROVE  RateInv'
  <1>1. CASE UNCHANGED rateVars
    BY <1>1 DEF rateVars, RateInv, RateTypeOK, BucketFits, OldestFirst, WindowIsKept
  <1>2. QED
    BY <1>1, SecondStep, RequestStep DEF RateNext

LEMMA InitRateInv ==
    ASSUME RateInit
    PROVE  RateInv
  <1>1. bucket = <<>> /\ admitted = <<>> /\ refused = FALSE /\ burst = 0
    BY DEF RateInit
  <1>2. Len(bucket) = 0 /\ Len(admitted) = 0
    BY <1>1
  <1>3. RateTypeOK
    <2>1. <<>> \in Seq(Nat) /\ <<>> \in Seq(0..Window)
      BY EmptySeq
    <2>2. 0 \in 0..MaxBurst
      BY LimitAssumption
    <2>3. QED
      BY <1>1, <2>1, <2>2, Zenon DEF RateTypeOK
  <1>4. BucketFits /\ OldestFirst /\ WindowIsKept
    BY <1>2, LimitAssumption DEF BucketFits, OldestFirst, WindowIsKept
  <1>5. QED
    BY <1>3, <1>4 DEF RateInv

\* The inductive invariant of the rate limiter holds in every state.
THEOREM RateInvariance == RateSpec => []RateInv
  <1>1. RateInit => RateInv
    BY InitRateInv
  <1>2. RateInv /\ [RateNext]_rateVars => RateInv'
    BY NextRateInv
  <1>3. QED
    BY <1>1, <1>2, PTL DEF RateSpec

\* For every window and limit, no window lets through more than the limit.
THEOREM WindowKept == RateSpec => []WindowIsKept
  <1>1. RateInv => WindowIsKept
    BY DEF RateInv
  <1>2. QED
    BY <1>1, RateInvariance, PTL

\* For every window and limit, a request is refused only after as many as the
\* limit were let through in its window.
THEOREM RefusedWhenFull == RateSpec => RefusedOnlyWhenFull
  <1>1. ASSUME RateInv, [RateNext]_rateVars
        PROVE  [burst' > burst /\ refused' => Len(admitted) = PerWindow]_rateVars
    <2>1. CASE UNCHANGED rateVars
      BY <2>1
    <2>2. CASE SecondPasses
      <3>1. burst \in Nat /\ burst' = 0
        BY <1>1, <2>2, RateTyped DEF SecondPasses
      <3>2. ~ (burst' > burst)
        BY <3>1
      <3>3. QED
        BY <3>2
    <2>3. CASE Request
      BY <1>1, <2>3, RequestStep
    <2>4. QED
      BY <1>1, <2>1, <2>2, <2>3 DEF RateNext
  <1>2. QED
    BY <1>1, RateInvariance, PTL DEF RateSpec, RefusedOnlyWhenFull
=============================================================================
