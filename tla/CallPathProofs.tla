--------------------------- MODULE CallPathProofs ---------------------------
(***************************************************************************)
(* Proofs about CallPath, for any callers, tools, configurations and calls.*)
(***************************************************************************)
EXTENDS CallPath, FiniteSetTheorems, TLAPS

USE DEF vars, switch, catalogue, outside

-----------------------------------------------------------------------------
(* What is known of a call, wherever it is                                 *)

\* A call before its first await, or as it goes on after one
Draft ==
  [st : Waiting \cup {"new"}, who : Callers, fn : Functions, tool : Tools, valid : BOOLEAN,
   d : Kinds, barred : BOOLEAN, approved : BOOLEAN, charged : BOOLEAN, reached : BOOLEAN,
   told : SUBSET Tools]

\* It was let in, has the roles of its tool and has paid.
Cleared(r) ==
  /\ ~r.barred /\ Guard(r.who) = "ok"
  /\ Check(r.who, r.tool) = "ok"
  /\ r.charged = conf.limited

\* It was let in, and nothing has been done for it yet.
Fresh(r) ==
  /\ ~r.barred /\ Guard(r.who) = "ok"
  /\ ~r.charged /\ ~r.reached /\ ~r.approved /\ r.told = {}

\* What the caller was told is what he may know.
MayKnow(fn, k, names) ==
  conf.hide => \A t \in names : /\ fn = "context_cost" \/ Check(k, t) = "ok"
                                /\ HidesListing => Guard(k) = "ok"

Right(x) ==
  /\ x.st = "relisting" => Fresh(x)
  /\ x.st \in Waiting \ {"relisting"} \/ x.reached => Cleared(x)
  /\ x.st \in {"asking", "settling"} => ~x.reached
  /\ x.charged => Check(x.who, x.tool) = "ok"
  /\ x.st = "ended" =>
       /\ x.reached => x.outcome \notin Refused
       /\ x.outcome = "confirmation_required" => x.charged = conf.limited
  /\ MayKnow(x.fn, x.who, x.told)

\* The call r becomes x; if it is in the executor, it was asked about or needs no question.
Lands(c, r, x) ==
  /\ call' = [call EXCEPT ![c] = x]
  /\ x \in Running \cup Past
  /\ x.fn = r.fn /\ x.who = r.who /\ x.charged = r.charged
  /\ Right(x)
  /\ x.st \in {"settling", "running"} =>
       /\ x.tool = r.tool /\ x.approved = r.approved
       /\ x.approved \/ ~Applies(x.tool, r.d)

LEMMA Ending ==
  ASSUME NEW c \in Calls, NEW r \in Draft, NEW why \in Outcomes, Ends(c, r, why),
         r.reached => Cleared(r) /\ why \notin Refused,
         r.charged => Check(r.who, r.tool) = "ok",
         why = "confirmation_required" => r.charged = conf.limited,
         MayKnow(r.fn, r.who, r.told)
  PROVE  Lands(c, r, Over(r, "ended", why))
<1> DEFINE x == Over(r, "ended", why)
<1>1. call' = [call EXCEPT ![c] = x]
  BY DEF Ends
<1>2. x \in Past
  BY DEF Over, Past, Draft
<1>3. /\ x.st = "ended" /\ x.who = r.who /\ x.fn = r.fn /\ x.tool = r.tool /\ x.outcome = why /\ x.barred = r.barred
      /\ x.charged = r.charged /\ x.reached = r.reached /\ x.told = r.told
  BY DEF Over
<1> HIDE DEF x
<1>4. Right(x)
  BY <1>3 DEF Right, Cleared, Waiting
<1>5. Lands(c, r, x)
  BY <1>1, <1>2, <1>3, <1>4 DEF Lands
<1>6. QED
  BY <1>5 DEF x

LEMMA Going ==
  ASSUME NEW c \in Calls, NEW r \in Draft, NEW st \in Waiting, Goes(c, r, st),
         st = "relisting" => Fresh(r),
         st # "relisting" \/ r.reached => Cleared(r),
         st \in {"asking", "settling"} => ~r.reached,
         st \in {"settling", "running"} => r.approved \/ ~Applies(r.tool, r.d),
         MayKnow(r.fn, r.who, r.told)
  PROVE  Lands(c, r, [r EXCEPT !.st = st])
<1> DEFINE x == [r EXCEPT !.st = st]
<1>1. call' = [call EXCEPT ![c] = x]
  BY DEF Goes
<1>2. x \in Running
  BY DEF Running, Draft
<1>3. /\ x.st = st /\ x.who = r.who /\ x.fn = r.fn /\ x.tool = r.tool /\ x.d = r.d
      /\ x.barred = r.barred /\ x.approved = r.approved /\ x.charged = r.charged
      /\ x.reached = r.reached /\ x.told = r.told
  BY DEF Draft
<1> HIDE DEF x
<1>4. r.charged \in BOOLEAN
  BY DEF Draft
<1>5. Right(x)
  BY <1>3, <1>4 DEF Right, Cleared, Fresh, Waiting
<1>6. Lands(c, r, x)
  BY <1>1, <1>2, <1>3, <1>5 DEF Lands
<1>7. QED
  BY <1>6 DEF x

\* It is to be run, if the answer to a question does not keep it.
Ready(r) == Cleared(r) /\ ~r.reached /\ MayKnow(r.fn, r.who, r.told)

LEMMA Verdicts ==
  /\ {"ok", "failed", "unauthenticated", "rate_limited", "confirmation_required"} \subseteq Outcomes
  /\ "failed" \notin Refused /\ "ok" \notin Refused
  /\ \A k, t : Check(k, t) \in {"ok", "unauthenticated", "missing_role"}
  /\ \A k : Admitted(k) \in Outcomes \ {"confirmation_required"}
BY DEF Outcomes, Refused, Check, Admitted, Guard, Gate, Stage

LEMMA Resolving ==
  ASSUME NEW c \in Calls, NEW r \in Draft, Resolves(c, r), Ready(r),
         r.approved \/ ~Applies(r.tool, r.d)
  PROVE  \E x : Lands(c, r, x)
<1>1. CASE Executes(c, r)
  <2>1. CASE conf.mode = "exchange"
    <3>1. Goes(c, r, "settling")
      BY <1>1, <2>1 DEF Executes
    <3>2. QED
      BY <3>1, Going DEF Ready, Waiting
  <2>2. CASE conf.mode # "exchange"
    <3> DEFINE s == [r EXCEPT !.reached = TRUE]
    <3>1. Goes(c, s, "running")
      BY <1>1, <2>2 DEF Executes
    <3>2. s \in Draft
      BY DEF Draft
    <3>3. /\ s.who = r.who /\ s.fn = r.fn /\ s.tool = r.tool /\ s.d = r.d /\ s.barred = r.barred
          /\ s.approved = r.approved /\ s.charged = r.charged /\ s.told = r.told
      BY DEF Draft
    <3> HIDE DEF s
    <3>4. \E x : Lands(c, s, x)
      BY <3>1, <3>2, <3>3, Going DEF Ready, Cleared, Waiting
    <3>5. QED
      BY <3>3, <3>4 DEF Lands
  <2>3. QED
    BY <2>1, <2>2
<1>2. CASE Ends(c, r, "unauthenticated")
  BY <1>2, Ending, Verdicts DEF Ready, Cleared
<1>3. CASE Ends(c, r, "failed")
  BY <1>3, Ending, Verdicts DEF Ready, Cleared
<1>4. QED
  BY <1>1, <1>2, <1>3 DEF Resolves

LEMMA Confirming ==
  ASSUME NEW c \in Calls, NEW r \in Draft, Confirms(c, r), Ready(r)
  PROVE  \E x : Lands(c, r, x)
<1>1. CASE ~Applies(r.tool, r.d) /\ Resolves(c, r)
  BY <1>1, Resolving
<1>2. CASE Ends(c, r, "confirmation_required")
  BY <1>2, Ending, Verdicts DEF Ready, Cleared
<1>3. CASE Goes(c, r, "asking")
  BY <1>3, Going DEF Ready, Waiting
<1>4. QED
  BY <1>1, <1>2, <1>3 DEF Confirms

\* What a call takes from its bucket is what it is charged.
Pays(r, x) ==
  IF x.charged
  THEN tokens[Bucket(r.who)] > 0 /\ tokens' = [tokens EXCEPT ![Bucket(r.who)] = @ - 1]
  ELSE UNCHANGED tokens

\* A call that has not been charged becomes x, and pays for it.
Arrives(c, r, x) ==
  /\ call' = [call EXCEPT ![c] = x]
  /\ x \in Running \cup Past
  /\ x.who = r.who
  /\ Right(x)
  /\ Pays(r, x)
  /\ x.st \in {"settling", "running"} =>
       /\ x.fn = r.fn /\ x.tool = r.tool
       /\ x.approved \/ ~Applies(x.tool, r.d)

LEMMA Charging ==
  ASSUME NEW c \in Calls, NEW r \in Draft, conf \in Configs, tokens \in [Buckets -> 0 .. Burst],
         Charges(c, r), Fresh(r), Check(r.who, r.tool) = "ok"
  PROVE  \E x : Arrives(c, r, x)
<1> DEFINE b == Bucket(r.who)
<1>0. conf.limited \in BOOLEAN
  BY ConfigsAssumption
<1>1. MayKnow(r.fn, r.who, r.told)
  BY DEF Fresh, MayKnow
<1>2. CASE ~conf.limited /\ UNCHANGED tokens /\ Confirms(c, r)
  <2>1. Ready(r)
    BY <1>0, <1>1, <1>2 DEF Ready, Cleared, Fresh, Draft
  <2>2. QED
    BY <1>2, <2>1, Confirming DEF Lands, Arrives, Pays, Fresh
<1>3. CASE UNCHANGED tokens /\ Ends(c, r, "rate_limited")
  <2>1. \E x : Lands(c, r, x)
    BY <1>1, <1>3, Ending, Verdicts DEF Fresh
  <2>2. QED
    BY <1>3, <2>1 DEF Lands, Arrives, Pays, Fresh
<1>4. CASE /\ conf.limited /\ tokens[b] > 0
           /\ tokens' = [tokens EXCEPT ![b] = @ - 1]
           /\ Confirms(c, [r EXCEPT !.charged = TRUE])
  <2> DEFINE s == [r EXCEPT !.charged = TRUE]
  <2>1. s \in Draft
    BY DEF Draft
  <2>2. /\ s.who = r.who /\ s.fn = r.fn /\ s.tool = r.tool /\ s.d = r.d /\ s.barred = r.barred
        /\ s.approved = r.approved /\ s.reached = r.reached /\ s.told = r.told /\ s.charged = TRUE
    BY DEF Draft
  <2>3. Confirms(c, s)
    BY <1>4
  <2> HIDE DEF s
  <2>4. Ready(s)
    BY <1>0, <1>1, <1>4, <2>2 DEF Ready, Cleared, Fresh
  <2>5. \E x : Lands(c, s, x)
    BY <2>1, <2>3, <2>4, Confirming
  <2>6. QED
    BY <1>4, <2>2, <2>5 DEF Lands, Arrives, Pays
<1>5. QED
  BY <1>2, <1>3, <1>4 DEF Charges

LEMMA Staging ==
  ASSUME NEW c \in Calls, NEW r \in Draft, conf \in Configs, tokens \in [Buckets -> 0 .. Burst],
         Stages(c, r), Fresh(r)
  PROVE  \E x : Arrives(c, r, x)
<1>1. CASE Check(r.who, r.tool) = "ok" /\ Charges(c, r)
  BY <1>1, Charging
<1>2. CASE Check(r.who, r.tool) # "ok" /\ Ends(c, r, Check(r.who, r.tool)) /\ UNCHANGED tokens
  <2>1. Check(r.who, r.tool) \in Outcomes /\ Check(r.who, r.tool) # "confirmation_required"
    BY Verdicts DEF Outcomes, Refused
  <2>2. \E x : Lands(c, r, x)
    BY <1>2, <2>1, Ending DEF Fresh, MayKnow
  <2>3. QED
    BY <1>2, <2>2 DEF Lands, Arrives, Pays, Fresh
<1>3. QED
  BY <1>1, <1>2 DEF Stages

\* The same of a call whose tool was looked up in the catalogue cat, or is pinned.
Comes(c, r, cat, x) ==
  /\ call' = [call EXCEPT ![c] = x]
  /\ x \in Running \cup Past
  /\ x.who = r.who
  /\ Right(x)
  /\ Pays(r, x)
  /\ x.st \in {"settling", "running"} =>
       x.approved \/ ~Applies(x.tool, (IF x.fn = "pinned" THEN Attached ELSE cat)[x.tool])

LEMMA Telling ==
  ASSUME NEW c \in Calls, NEW r \in Draft, Fresh(r), NEW names \in SUBSET Tools,
         MayKnow(r.fn, r.who, names), NEW why \in {"ok", "failed"}, NEW cat,
         Ends(c, [r EXCEPT !.told = names], why), UNCHANGED tokens
  PROVE  \E x : Comes(c, r, cat, x)
<1> DEFINE s == [r EXCEPT !.told = names]
<1>1. s \in Draft
  BY DEF Draft
<1>2. s.who = r.who /\ s.fn = r.fn /\ s.charged = r.charged /\ s.reached = r.reached /\ s.told = names
  BY DEF Draft
<1>3. Ends(c, s, why)
  OBVIOUS
<1> HIDE DEF s
<1> DEFINE x == Over(s, "ended", why)
<1>4. Lands(c, s, x)
  BY <1>1, <1>2, <1>3, Ending, Verdicts DEF Fresh
<1>5. x.st = "ended"
  BY DEF Over
<1>6. QED
  BY <1>2, <1>4, <1>5 DEF Lands, Comes, Pays, Fresh

LEMMA Failing ==
  ASSUME NEW c \in Calls, NEW r \in Draft, Fresh(r), NEW cat,
         NEW why \in Outcomes \ {"confirmation_required"}, Ends(c, r, why), UNCHANGED tokens
  PROVE  \E x : Comes(c, r, cat, x)
<1> DEFINE x == Over(r, "ended", why)
<1>1. Lands(c, r, x)
  BY Ending DEF Fresh, MayKnow
<1>2. x.st = "ended"
  BY DEF Over
<1>3. QED
  BY <1>1, <1>2 DEF Lands, Comes, Pays, Fresh

LEMMA SeenIsKnown ==
  ASSUME NEW k, Guard(k) = "ok", NEW names, \A t \in names : Visible(k, t)
  PROVE  \A fn : MayKnow(fn, k, names)
BY DEF MayKnow, Visible

LEMMA NotServed ==
  ASSUME NEW c \in Calls, NEW r \in Draft, Fresh(r), NEW cat \in [Tools -> Kinds], NEW list,
         Unknown(c, r, cat), UNCHANGED tokens
  PROVE  \E x : Comes(c, r, list, x)
<1> DEFINE names == {t \in Served(cat) : Visible(r.who, t)}
<1>1. names \in SUBSET Tools
  BY DEF Served
<1>2. MayKnow(r.fn, r.who, names)
  BY SeenIsKnown DEF Fresh
<1>3. Ends(c, [r EXCEPT !.told = names], "failed")
  BY DEF Unknown
<1> HIDE DEF names
<1>4. QED
  BY <1>1, <1>2, <1>3, Telling

LEMMA Working ==
  ASSUME NEW c \in Calls, NEW r \in Draft, NEW cat \in [Tools -> Kinds], NEW adrift \in SUBSET Tools,
         conf \in Configs, tokens \in [Buckets -> 0 .. Burst], Works(c, r, cat, adrift), Fresh(r)
  PROVE  \E x : Comes(c, r, cat, x)
<1>1. CASE SearchTools(c, r, cat)
  <2> DEFINE names == {t \in Served(cat) : Visible(r.who, t)}
  <2>1. names \in SUBSET Tools
    BY DEF Served
  <2>2. MayKnow(r.fn, r.who, names)
    BY SeenIsKnown DEF Fresh
  <2>3. Ends(c, [r EXCEPT !.told = names], "ok") /\ UNCHANGED tokens
    BY <1>1 DEF SearchTools
  <2> HIDE DEF names
  <2>4. QED
    BY <2>1, <2>2, <2>3, Telling
<1>2. CASE DescribeTool(c, r, cat)
  <2>1. UNCHANGED tokens
    BY <1>2 DEF DescribeTool
  <2>2. CASE Unknown(c, r, cat)
    BY <2>1, <2>2, NotServed
  <2>3. CASE Ends(c, r, Check(r.who, r.tool))
    <3>1. Check(r.who, r.tool) \in Outcomes \ {"confirmation_required"}
      BY Verdicts DEF Outcomes, Refused
    <3>2. QED
      BY <2>1, <2>3, <3>1, Failing
  <2>4. CASE Visible(r.who, r.tool) /\ Ends(c, [r EXCEPT !.told = {r.tool}], "ok")
    <3>1. MayKnow(r.fn, r.who, {r.tool}) /\ {r.tool} \in SUBSET Tools
      BY <2>4, SeenIsKnown DEF Fresh, Draft
    <3>2. QED
      BY <2>1, <2>4, <3>1, Telling
  <2>5. QED
    BY <1>2, <2>2, <2>3, <2>4 DEF DescribeTool
<1>3. CASE ContextCost(c, r, adrift)
  <2>1. CASE Ends(c, [r EXCEPT !.told = adrift], "ok")
    <3>1. MayKnow(r.fn, r.who, adrift)
      BY <1>3 DEF ContextCost, MayKnow, Fresh
    <3>2. QED
      BY <1>3, <2>1, <3>1, Telling DEF ContextCost
  <2>2. CASE Ends(c, r, "failed")
    BY <1>3, <2>2, Failing, Verdicts DEF ContextCost
  <2>3. QED
    BY <1>3, <2>1, <2>2 DEF ContextCost
<1>4. CASE RunTool(c, r, cat)
  <2>1. CASE Unknown(c, r, cat) /\ UNCHANGED tokens
    BY <2>1, NotServed
  <2>2. CASE Ends(c, r, "failed") /\ UNCHANGED tokens
    BY <2>2, Failing, Verdicts
  <2>3. CASE Stages(c, [r EXCEPT !.d = cat[r.tool]])
    <3> DEFINE s == [r EXCEPT !.d = cat[r.tool]]
    <3>1. s \in Draft
      BY DEF Draft
    <3>2. /\ s.who = r.who /\ s.fn = r.fn /\ s.tool = r.tool /\ s.d = cat[r.tool]
          /\ s.barred = r.barred /\ s.approved = r.approved /\ s.charged = r.charged
          /\ s.reached = r.reached /\ s.told = r.told
      BY DEF Draft
    <3>3. Stages(c, s) /\ r.fn = "run_tool"
      BY <1>4, <2>3 DEF RunTool
    <3> HIDE DEF s
    <3>4. \E x : Arrives(c, s, x)
      BY <3>1, <3>2, <3>3, Staging DEF Fresh
    <3>5. PICK x : Arrives(c, s, x)
      BY <3>4
    <3>6. x.st \in {"settling", "running"} =>
            x.fn # "pinned" /\ x.tool = r.tool /\ (x.approved \/ ~Applies(x.tool, cat[r.tool]))
      BY <3>2, <3>3, <3>5 DEF Arrives
    <3>7. QED
      BY <3>2, <3>5, <3>6 DEF Arrives, Comes, Pays
  <2>4. QED
    BY <1>4, <2>1, <2>2, <2>3 DEF RunTool
<1>5. QED
  BY <1>1, <1>2, <1>3, <1>4 DEF Works

LEMMA RunningPinned ==
  ASSUME NEW c \in Calls, NEW r \in Draft, NEW cat,
         conf \in Configs, tokens \in [Buckets -> 0 .. Burst], RunPinned(c, r), Fresh(r)
  PROVE  \E x : Comes(c, r, cat, x)
<1>1. CASE Ends(c, r, "failed") /\ UNCHANGED tokens
  BY <1>1, Failing, Verdicts
<1>2. CASE Stages(c, [r EXCEPT !.d = Attached[r.tool]])
  <2> DEFINE s == [r EXCEPT !.d = Attached[r.tool]]
  <2>1. s \in Draft
    BY AttachedAssumption DEF Draft
  <2>2. /\ s.who = r.who /\ s.fn = r.fn /\ s.tool = r.tool /\ s.d = Attached[r.tool]
        /\ s.barred = r.barred /\ s.approved = r.approved /\ s.charged = r.charged
        /\ s.reached = r.reached /\ s.told = r.told
    BY DEF Draft
  <2>3. Stages(c, s) /\ r.fn = "pinned"
    BY <1>2 DEF RunPinned
  <2> HIDE DEF s
  <2>4. \E x : Arrives(c, s, x)
    BY <2>1, <2>2, <2>3, Staging DEF Fresh
  <2>5. QED
    BY <2>2, <2>3, <2>4 DEF Arrives, Comes, Pays
<1>3. QED
  BY <1>1, <1>2 DEF RunPinned

-----------------------------------------------------------------------------
(* One call after the other                                                *)

Known == \A c \in Calls : call[c] # New => Right(call[c])

Paid(b) == {c \in Calls : /\ call[c] # New
                          /\ call[c].charged
                          /\ Bucket(call[c].who) = b}
Accounted == \A b \in Buckets : tokens[b] + Cardinality(Paid(b)) = Burst + refilled[b]

Inv == TypeOK /\ Known /\ Accounted

\* The call becomes x, new or as one that went on; what it is charged is what it pays.
Turn(c, x) ==
  /\ call' = [call EXCEPT ![c] = x]
  /\ x \in Running \cup Past
  /\ Right(x)
  /\ UNCHANGED <<conf, refilled>>
  /\ \/ (call[c] = New \/ ~call[c].charged) /\ Pays(x, x)
     \/ call[c] # New /\ x.who = call[c].who /\ x.charged = call[c].charged /\ UNCHANGED tokens

LEMMA BucketTypes == \A k \in Callers : Bucket(k) \in Buckets
BY DEF Bucket, Buckets

LEMMA TurnTypes ==
  ASSUME TypeOK, NEW c \in Calls, NEW x, Turn(c, x)
  PROVE  /\ call' \in [Calls -> {New} \cup Running \cup Past]
         /\ tokens' \in [Buckets -> 0 .. Burst]
         /\ x # New /\ x.charged \in BOOLEAN /\ Bucket(x.who) \in Buckets
<1>1. call' \in [Calls -> {New} \cup Running \cup Past]
  BY DEF Turn, TypeOK
<1>2. x.who \in Callers /\ x.charged \in BOOLEAN /\ x.st \in Waiting \cup {"ended", "gone"}
  BY DEF Turn, Running, Past
<1>3. x # New
  BY <1>2 DEF New, Waiting
<1>4. Bucket(x.who) \in Buckets
  BY <1>2, BucketTypes
<1>5. tokens' \in [Buckets -> 0 .. Burst]
  <2>1. CASE UNCHANGED tokens
    BY <2>1 DEF TypeOK
  <2>2. CASE Pays(x, x)
    BY <1>4, <2>2, BoundsAssumption DEF Pays, TypeOK
  <2>3. QED
    BY <2>1, <2>2 DEF Turn
<1>6. QED
  BY <1>1, <1>2, <1>3, <1>4, <1>5

LEMMA TurnKnown ==
  ASSUME TypeOK, Known, NEW c \in Calls, NEW x, Turn(c, x)
  PROVE  Known'
<1> SUFFICES ASSUME NEW d \in Calls, call'[d] # New PROVE Right(call[d])'
  BY DEF Known
<1>1. conf' = conf
  BY DEF Turn
<1>2. Right(call'[d])
  BY DEF Turn, Known, TypeOK
<1>3. QED
  BY <1>1, <1>2 DEF Right, Fresh, Cleared, MayKnow, Check, Guard, Gate, HidesListing

LEMMA TurnAccounted ==
  ASSUME TypeOK, Accounted, NEW c \in Calls, NEW x, Turn(c, x)
  PROVE  Accounted'
<1> SUFFICES ASSUME NEW b \in Buckets
             PROVE  tokens'[b] + Cardinality(Paid(b)') = Burst + refilled[b]
  BY DEF Accounted, Turn
<1>1. /\ x # New /\ x.charged \in BOOLEAN /\ Bucket(x.who) \in Buckets
  BY TurnTypes
<1>2. call'[c] = x /\ \A d \in Calls \ {c} : call'[d] = call[d]
  BY DEF Turn, TypeOK
<1>3. IsFiniteSet(Paid(b))
  BY CallsAssumption, FS_Subset DEF Paid
<1>4. Cardinality(Paid(b)) \in Nat
  BY <1>3, FS_CardinalityType
<1>5. tokens[b] + Cardinality(Paid(b)) = Burst + refilled[b]
  BY DEF Accounted
<1>6. tokens[b] \in Nat /\ refilled[b] \in Nat
  BY BoundsAssumption DEF TypeOK
<1>7. CASE x.charged /\ Bucket(x.who) = b /\ (call[c] = New \/ ~call[c].charged) /\ Pays(x, x)
  <2>1. c \notin Paid(b)
    BY <1>7 DEF Paid
  <2>2. Paid(b)' = Paid(b) \cup {c}
    BY <1>1, <1>2, <1>7, <2>1 DEF Paid, Bucket
  <2>3. Cardinality(Paid(b)') = Cardinality(Paid(b)) + 1
    BY <1>3, <2>1, <2>2, FS_AddElement
  <2>4. tokens'[b] = tokens[b] - 1
    BY <1>7 DEF Pays, TypeOK
  <2>5. QED
    BY <1>4, <1>5, <1>6, <2>3, <2>4
<1>8. CASE ~(x.charged /\ Bucket(x.who) = b) /\ (call[c] = New \/ ~call[c].charged) /\ Pays(x, x)
  <2>1. tokens'[b] = tokens[b]
    BY <1>1, <1>8 DEF Pays, TypeOK
  <2>2. Paid(b)' = Paid(b)
    BY <1>1, <1>2, <1>8 DEF Paid, Bucket
  <2>3. QED
    BY <1>5, <2>1, <2>2
<1>9. CASE call[c] # New /\ x.who = call[c].who /\ x.charged = call[c].charged /\ UNCHANGED tokens
  <2>1. Paid(b)' = Paid(b)
    BY <1>1, <1>2, <1>9 DEF Paid, Bucket
  <2>2. QED
    BY <1>5, <1>9, <2>1
<1>10. QED
  BY <1>7, <1>8, <1>9 DEF Turn

-----------------------------------------------------------------------------
(* The actions                                                             *)

LEMMA AskedTypes ==
  ASSUME NEW k \in Callers, NEW q \in Requests
  PROVE  /\ Asked(k, q) \in Draft
         /\ Asked(k, q).who = k /\ Asked(k, q).barred = Barred(k)
         /\ ~Asked(k, q).charged /\ ~Asked(k, q).reached /\ ~Asked(k, q).approved
         /\ Asked(k, q).told = {}
<1>1. Barred(k) \in BOOLEAN
  BY DEF Barred
<1>2. q.fn \in Functions /\ q.tool \in Tools /\ q.valid \in BOOLEAN
  BY DEF Requests
<1>3. QED
  BY <1>1, <1>2, KindsAssumption DEF Asked, Draft

LEMMA AskedFresh ==
  ASSUME NEW k \in Callers, NEW q \in Requests, Admitted(k) = "ok"
  PROVE  Fresh(Asked(k, q))
<1>1. Guard(k) = "ok" /\ Stage(k) = "ok"
  BY DEF Admitted
<1>2. ~Barred(k)
  BY <1>1 DEF Stage
<1>3. QED
  BY <1>1, <1>2, AskedTypes DEF Fresh

\* tools/list is asked for like a search.
LEMMA ListingAsks == \E q \in Requests : q.fn = "search_tools"
<1> DEFINE q == [fn |-> "search_tools", tool |-> CHOOSE t \in Tools : TRUE, valid |-> TRUE]
<1>1. q \in Requests
  BY ToolsAssumption DEF Requests, Functions, Meta
<1>2. QED
  BY <1>1

LEMMA Listing ==
  ASSUME Inv, NEW c \in Calls, NEW k \in Callers, Lists(c, k)
  PROVE  \E x : Turn(c, x) /\ x.st \notin {"settling", "running"}
<1> DEFINE any == CHOOSE q \in Requests : q.fn = "search_tools"
           shown == IF HidesListing /\ Guard(k) # "ok" THEN {} ELSE {t \in Pinned : Visible(k, t)}
           s == [Asked(k, any) EXCEPT !.told = shown]
           x == Over(s, "ended", "ok")
<1>1. any \in Requests
  BY ListingAsks
<1>2. shown \in SUBSET Tools
  BY AttachedAssumption
<1>3. \A fn : MayKnow(fn, k, shown)
  BY DEF MayKnow, Visible
<1>4. call[c] = New /\ Ends(c, s, "ok") /\ UNCHANGED <<conf, refilled, tokens>>
  BY DEF Lists
<1> HIDE DEF any, shown
<1>5. s \in Draft /\ s.who = k /\ ~s.charged /\ ~s.reached /\ s.told = shown
  BY <1>1, <1>2, AskedTypes DEF Draft
<1> HIDE DEF s
<1>6. Lands(c, s, x)
  BY <1>3, <1>4, <1>5, Ending, Verdicts
<1>7. x.st = "ended" /\ ~x.charged
  BY <1>5 DEF Over
<1>8. QED
  BY <1>4, <1>6, <1>7 DEF Lands, Turn, Pays

LEMMA Refusing ==
  ASSUME Inv, NEW c \in Calls, NEW k \in Callers, NEW q \in Requests, Refuse(c, k, q)
  PROVE  \E x : Turn(c, x) /\ x.st \notin {"settling", "running"}
<1> DEFINE r == Asked(k, q)
           x == Over(r, "ended", Admitted(k))
<1>1. call[c] = New /\ Ends(c, r, Admitted(k)) /\ UNCHANGED <<conf, refilled, tokens>>
  BY DEF Refuse
<1>2. r \in Draft /\ ~r.charged /\ ~r.reached /\ r.told = {}
  BY AskedTypes
<1> HIDE DEF r
<1>3. Lands(c, r, x)
  BY <1>1, <1>2, Ending, Verdicts DEF MayKnow
<1>4. x.st = "ended" /\ ~x.charged
  BY <1>2 DEF Over
<1>5. QED
  BY <1>1, <1>3, <1>4 DEF Lands, Turn, Pays

LEMMA Relisting ==
  ASSUME Inv, NEW c \in Calls, NEW k \in Callers, NEW q \in Requests, Relist(c, k, q)
  PROVE  \E x : Turn(c, x) /\ x.st \notin {"settling", "running"}
<1> DEFINE r == Asked(k, q)
           x == [r EXCEPT !.st = "relisting"]
<1>1. /\ call[c] = New /\ Goes(c, r, "relisting") /\ UNCHANGED <<conf, refilled, tokens>>
      /\ Admitted(k) = "ok"
  BY DEF Relist
<1>2. r \in Draft /\ Fresh(r)
  BY <1>1, AskedTypes, AskedFresh
<1> HIDE DEF r
<1>3. Lands(c, r, x)
  BY <1>1, <1>2, Going DEF Waiting, MayKnow, Fresh
<1>4. x.st = "relisting" /\ ~x.charged
  BY <1>2 DEF Draft, Fresh
<1>5. QED
  BY <1>1, <1>3, <1>4 DEF Lands, Turn, Pays

\* A call that gets to the executor unasked needs no question, as its tool is described now.
Asks(x) ==
  x.st \in {"settling", "running"} =>
    x.approved \/ ~Applies(x.tool, (IF x.fn = "pinned" THEN Attached ELSE listed')[x.tool])

LEMMA Beginning ==
  ASSUME Inv, NEW c \in Calls, NEW k \in Callers, NEW q \in Requests, Begin(c, k, q)
  PROVE  \E x : Turn(c, x) /\ Asks(x)
<1> DEFINE r == Asked(k, q)
<1>1. /\ call[c] = New /\ UNCHANGED <<conf, refilled, listed>> /\ Admitted(k) = "ok"
      /\ RunPinned(c, r) \/ Unpublished(c, r) \/ Works(c, r, listed, drift)
  BY DEF Begin
<1>2. r \in Draft /\ Fresh(r)
  BY <1>1, AskedTypes, AskedFresh
<1>3. conf \in Configs /\ tokens \in [Buckets -> 0 .. Burst] /\ listed \in [Tools -> Kinds]
      /\ drift \in SUBSET Tools
  BY DEF Inv, TypeOK
<1> HIDE DEF r
<1>4. \E x : Comes(c, r, listed, x)
  <2>1. CASE RunPinned(c, r)
    BY <1>2, <1>3, <2>1, RunningPinned
  <2>2. CASE Unpublished(c, r)
    BY <1>2, <1>3, <2>2, NotServed, Failing, Verdicts DEF Unpublished
  <2>3. CASE Works(c, r, listed, drift)
    BY <1>2, <1>3, <2>3, Working
  <2>4. QED
    BY <1>1, <2>1, <2>2, <2>3
<1>5. QED
  BY <1>1, <1>4 DEF Comes, Turn, Asks, Pays

\* A call that waits is one of those that the lemmas are about.
LEMMA WaitingTypes ==
  ASSUME Inv, NEW c \in Calls, call[c].st \in Waiting
  PROVE  call[c] \in Draft /\ call[c] # New /\ Right(call[c])
<1>1. call[c] # New
  BY DEF New, Waiting
<1>2. call[c] \in Running
  BY <1>1 DEF Inv, TypeOK, Past, Waiting
<1>3. QED
  BY <1>1, <1>2 DEF Inv, Known, Running, Draft

LEMMA ComingBack ==
  ASSUME Inv, NEW c \in Calls, Relisted(c)
  PROVE  \E x : Turn(c, x) /\ Asks(x)
<1>1. call[c] \in Draft /\ call[c].st = "relisting" /\ Fresh(call[c])
  BY WaitingTypes DEF Relisted, Right, Waiting
<1>2. /\ UNCHANGED <<conf, refilled>> /\ listed' \in [Tools -> Kinds] /\ drift' \in SUBSET Tools
      /\ Works(c, call[c], listed', drift')
  BY DEF Relisted, Refreshes, Differences, Inv, TypeOK
<1>3. conf \in Configs /\ tokens \in [Buckets -> 0 .. Burst]
  BY DEF Inv, TypeOK
<1>4. \E x : Comes(c, call[c], listed', x)
  BY <1>1, <1>2, <1>3, Working
<1>5. ~call[c].charged
  BY <1>1 DEF Fresh
<1>6. QED
  BY <1>2, <1>4, <1>5 DEF Comes, Turn, Asks, Pays

LEMMA Approving ==
  ASSUME Inv, NEW c \in Calls, Approves(c)
  PROVE  \E x : Turn(c, x) /\ (x.st \in {"settling", "running"} => x.approved)
<1> DEFINE s == [call[c] EXCEPT !.approved = TRUE]
<1>1. call[c] \in Draft /\ call[c].st = "asking" /\ call[c] # New /\ Right(call[c])
  BY WaitingTypes DEF Approves, Waiting
<1>2. Resolves(c, s) /\ UNCHANGED <<conf, refilled, tokens>>
  BY DEF Approves
<1>3. s \in Draft
  BY <1>1 DEF Draft
<1>4. /\ s.who = call[c].who /\ s.fn = call[c].fn /\ s.tool = call[c].tool /\ s.barred = call[c].barred /\ s.approved
      /\ s.charged = call[c].charged /\ s.reached = call[c].reached /\ s.told = call[c].told
  BY <1>1 DEF Draft
<1> HIDE DEF s
<1>5. Ready(s)
  BY <1>1, <1>4 DEF Right, Ready, Cleared, Waiting
<1>6. \E x : Lands(c, s, x)
  BY <1>2, <1>3, <1>4, <1>5, Resolving
<1>7. QED
  BY <1>1, <1>2, <1>4, <1>6 DEF Lands, Turn

\* A call that ends where it waits.
LEMMA Finishing ==
  ASSUME Inv, NEW c \in Calls, call[c].st \in Waiting, NEW why \in Outcomes, Ends(c, call[c], why),
         call[c].reached => why \notin Refused,
         why = "confirmation_required" => call[c].st = "asking",
         UNCHANGED <<conf, refilled, tokens>>
  PROVE  \E x : Turn(c, x) /\ x.st \notin {"settling", "running"}
<1> DEFINE x == Over(call[c], "ended", why)
<1>1. call[c] \in Draft /\ call[c] # New /\ Right(call[c])
  BY WaitingTypes
<1>2. Lands(c, call[c], x)
  BY <1>1, Ending DEF Right, Cleared, Waiting
<1>3. x.st = "ended"
  BY DEF Over
<1>4. QED
  BY <1>1, <1>2, <1>3 DEF Lands, Turn

LEMMA GoingOn ==
  ASSUME Inv, NEW c \in Calls,
         Declines(c) \/ Settles(c) \/ Answers(c) \/ Expires(c) \/ Aborted(c) \/ HangsUp(c)
  PROVE  \E x : Turn(c, x) /\ (x.st \in {"settling", "running"} => call[c].st = "settling")
<1>1. /\ call[c].st \in Waiting /\ UNCHANGED <<conf, refilled, tokens>>
      /\ call[c] \in Draft /\ call[c] # New /\ Right(call[c])
  BY WaitingTypes DEF Declines, Settles, Answers, Expires, Aborted, HangsUp, Waiting
<1>2. CASE Declines(c)
  BY <1>1, <1>2, Finishing, Verdicts DEF Declines, Right
<1>3. CASE Settles(c)
  <2> DEFINE s == [call[c] EXCEPT !.reached = TRUE]
  <2>1. call[c].st = "settling"
    BY <1>3 DEF Settles
  <2>2. CASE Goes(c, s, "running")
    <3> DEFINE x == [s EXCEPT !.st = "running"]
    <3>1. x \in Running /\ call' = [call EXCEPT ![c] = x]
      BY <1>1, <2>2 DEF Goes, Draft, Running, Waiting
    <3>2. /\ x.st = "running" /\ x.who = call[c].who /\ x.fn = call[c].fn /\ x.tool = call[c].tool /\ x.reached
          /\ x.barred = call[c].barred /\ x.charged = call[c].charged /\ x.told = call[c].told
      BY <1>1 DEF Draft
    <3> HIDE DEF x
    <3>3. Right(x)
      BY <1>1, <2>1, <3>2 DEF Right, Cleared, Waiting
    <3>4. QED
      BY <1>1, <2>1, <3>1, <3>2, <3>3 DEF Turn
  <2>3. ASSUME NEW why \in {"unauthenticated", "failed"}, Ends(c, call[c], why)
        PROVE  \E x : Turn(c, x) /\ x.st \notin {"settling", "running"}
    BY <1>1, <2>1, <2>3, Finishing, Verdicts DEF Right
  <2>4. QED
    BY <1>3, <2>1, <2>2, <2>3 DEF Settles
<1>4. CASE Answers(c) \/ Aborted(c)
  BY <1>1, <1>4, Finishing, Verdicts DEF Answers, Aborted
<1>5. CASE Expires(c)
  <2> DEFINE x == [call[c] EXCEPT !.st = "aborting"]
  <2>1. x \in Running /\ call' = [call EXCEPT ![c] = x]
    BY <1>1, <1>5 DEF Expires, Goes, Draft, Running, Waiting
  <2>2. /\ x.st = "aborting" /\ x.who = call[c].who /\ x.fn = call[c].fn /\ x.tool = call[c].tool
        /\ x.barred = call[c].barred /\ x.charged = call[c].charged /\ x.told = call[c].told
        /\ x.reached = call[c].reached
    BY <1>1 DEF Draft
  <2> HIDE DEF x
  <2>3. Right(x)
    BY <1>1, <1>5, <2>2 DEF Expires, Right, Cleared, Waiting
  <2>4. QED
    BY <1>1, <2>1, <2>2, <2>3 DEF Turn
<1>6. CASE HangsUp(c)
  <2> DEFINE x == Over(call[c], "gone", "failed")
  <2>1. x \in Past /\ call' = [call EXCEPT ![c] = x]
    BY <1>1, <1>6, Verdicts DEF HangsUp, Over, Past, Draft
  <2>2. /\ x.st = "gone" /\ x.who = call[c].who /\ x.fn = call[c].fn /\ x.tool = call[c].tool
        /\ x.barred = call[c].barred /\ x.charged = call[c].charged /\ x.told = call[c].told
        /\ x.reached = call[c].reached
    BY DEF Over
  <2> HIDE DEF x
  <2>3. Right(x)
    BY <1>1, <2>2 DEF Right, Cleared, Waiting
  <2>4. QED
    BY <1>1, <2>1, <2>2, <2>3 DEF Turn
<1>7. QED
  BY <1>2, <1>3, <1>4, <1>5, <1>6

-----------------------------------------------------------------------------
(* The theorems                                                            *)

\* A step of call c
Moves(c) ==
  \/ \E k \in Callers : Lists(c, k)
  \/ \E k \in Callers, q \in Requests : Refuse(c, k, q) \/ Relist(c, k, q) \/ Begin(c, k, q)
  \/ Relisted(c) \/ Approves(c) \/ Declines(c) \/ Settles(c) \/ Answers(c)
  \/ Expires(c) \/ Aborted(c) \/ HangsUp(c)

LEMMA Turns ==
  ASSUME Inv, NEW c \in Calls, Moves(c)
  PROVE  \E x : Turn(c, x) /\ (call[c].st = "settling" \/ Asks(x))
BY Listing, Refusing, Relisting, Beginning, ComingBack, Approving, GoingOn DEF Asks, Moves

LEMMA WorldTypes ==
  ASSUME TypeOK, BackendChanges \/ TTLPasses \/ SwitchTurns \/ Refill
  PROVE  TypeOK'
<1> USE DEF TypeOK
<1>1. changes' \in 0 .. MaxChanges
  BY BoundsAssumption DEF BackendChanges, TTLPasses, SwitchTurns, Refill, Change
<1>2. CASE BackendChanges \/ TTLPasses
  BY <1>1, <1>2 DEF BackendChanges, TTLPasses
<1>3. CASE SwitchTurns
  BY <1>1, <1>3 DEF SwitchTurns, Buckets
<1>4. CASE Refill
  <2>1. PICK b \in Buckets : /\ tokens[b] < Burst
                            /\ tokens' = [tokens EXCEPT ![b] = @ + 1]
                            /\ refilled' = [refilled EXCEPT ![b] = @ + 1]
    BY <1>4 DEF Refill
  <2>2. tokens' \in [Buckets -> 0 .. Burst] /\ refilled' \in [Buckets -> Nat]
    BY <2>1, BoundsAssumption
  <2>3. QED
    BY <1>1, <1>4, <2>2 DEF Refill
<1>5. QED
  BY <1>2, <1>3, <1>4

LEMMA CallTypes ==
  ASSUME Inv, NEW c \in Calls, NEW x, Turn(c, x), Moves(c)
  PROVE  TypeOK'
<1>1. /\ listed' \in [Tools -> Kinds] /\ expired' \in BOOLEAN /\ leader' \in Calls \cup {NoCall}
      /\ drift' \in SUBSET Tools /\ UNCHANGED outside
  BY DEF Moves, Inv, TypeOK, Lists, Refuse, Relist, Begin, Relisted, Refreshes, Differences, Approves, Declines, Settles, Answers,
         Expires, Aborted, HangsUp
<1>2. QED
  BY <1>1, TurnTypes DEF Inv, TypeOK

LEMMA InitInv == Init => Inv
<1> SUFFICES ASSUME Init PROVE Inv
  OBVIOUS
<1>1. TypeOK
  <2>1. tokens \in [Buckets -> 0 .. Burst] /\ refilled \in [Buckets -> Nat] /\ changes \in 0 .. MaxChanges
    BY BoundsAssumption DEF Init
  <2>2. call \in [Calls -> {New} \cup Running \cup Past]
    BY DEF Init
  <2>3. offers \in [Tools -> Kinds] /\ listed \in [Tools -> Kinds]
    BY AttachedAssumption DEF Init
  <2>4. QED
    BY <2>1, <2>2, <2>3 DEF Init, TypeOK
<1>2. Known
  BY DEF Init, Known
<1>3. ASSUME NEW b \in Buckets PROVE tokens[b] + Cardinality(Paid(b)) = Burst + refilled[b]
  <2>1. Paid(b) = {}
    BY DEF Init, Paid
  <2>2. Cardinality(Paid(b)) = 0
    BY <2>1, FS_EmptySet
  <2>3. QED
    BY <2>2, BoundsAssumption DEF Init
<1>4. QED
  BY <1>1, <1>2, <1>3 DEF Inv, Accounted

LEMMA InvStep == Inv /\ [Next]_vars => Inv'
<1> SUFFICES ASSUME Inv, [Next]_vars PROVE Inv'
  OBVIOUS
<1>1. CASE BackendChanges \/ TTLPasses \/ SwitchTurns \/ Refill
  <2>1. TypeOK'
    BY <1>1, WorldTypes DEF Inv
  <2>2. call' = call /\ conf' = conf
    BY <1>1 DEF BackendChanges, TTLPasses, SwitchTurns, Refill
  <2>3. Known'
    BY <2>2 DEF Inv, Known, Right, Fresh, Cleared, MayKnow, Check, Guard, Gate, HidesListing
  <2>4. ASSUME NEW b \in Buckets PROVE tokens'[b] + Cardinality(Paid(b)') = Burst + refilled'[b]
    <3>1. Paid(b)' = Paid(b)
      BY <2>2 DEF Paid, Bucket
    <3>2. Cardinality(Paid(b)) \in Nat
      BY CallsAssumption, FS_Subset, FS_CardinalityType DEF Paid
    <3>3. tokens[b] + Cardinality(Paid(b)) = Burst + refilled[b]
      BY DEF Inv, Accounted
    <3>4. tokens[b] \in Nat /\ refilled[b] \in Nat
      BY BoundsAssumption DEF Inv, TypeOK
    <3>5. \/ tokens'[b] = tokens[b] /\ refilled'[b] = refilled[b]
          \/ tokens'[b] = tokens[b] + 1 /\ refilled'[b] = refilled[b] + 1
      BY <1>1 DEF BackendChanges, TTLPasses, SwitchTurns, Refill, Inv, TypeOK
    <3>6. QED
      BY <3>1, <3>2, <3>3, <3>4, <3>5, BoundsAssumption
  <2>5. QED
    BY <2>1, <2>3, <2>4 DEF Inv, Accounted
<1>2. ASSUME NEW c \in Calls, Moves(c)
      PROVE  Inv'
  <2>1. PICK x : Turn(c, x)
    BY <1>2, Turns
  <2>2. QED
    BY <1>2, <2>1, CallTypes, TurnKnown, TurnAccounted DEF Inv
<1>3. CASE UNCHANGED vars
  BY <1>3 DEF Inv, TypeOK, Known, Accounted, Paid, Right, Fresh, Cleared, MayKnow, Check, Guard, Gate,
              HidesListing, Bucket
<1>4. QED
  BY <1>1, <1>2, <1>3 DEF Next, Moves

LEMMA Invariant == Spec => []Inv
BY InitInv, InvStep, PTL DEF Spec

\* Type correctness of the call path (pipeline.py, surface.py, gates.py).
THEOREM TypeCorrect == Spec => []TypeOK
<1>1. Inv => TypeOK
  BY DEF Inv
<1>2. QED
  BY <1>1, Invariant, PTL

\* CallPipeline.run and gates_from_entry: whatever changes while it waits, a call that
\* reaches the backend or makes it list its tools was let in by the guard and the kill
\* switch, and one that reaches it has the roles of its tool and does not end as refused.
THEOREM RefusalIsFree == Spec => []RefusedCostNothing
<1>1. Inv => RefusedCostNothing
  BY DEF Inv, Known, Right, Cleared, Fresh, RefusedCostNothing
<1>2. QED
  BY <1>1, Invariant, PTL

\* gates_from_entry: a bucket holds its burst and what came back but for one token of
\* each call that was charged, for any number of calls, hang-ups and timeouts.
THEOREM ChargesAreExact == Spec => []TokensAreAccounted
<1>1. Inv => TokensAreAccounted
  <2> SUFFICES ASSUME Inv PROVE TokensAreAccounted
    OBVIOUS
  <2>1. \A b \in Buckets :
          tokens[b] + Cardinality({c \in Calls : /\ call[c] # New
                                                 /\ call[c].charged
                                                 /\ Bucket(call[c].who) = b}) = Burst + refilled[b]
    BY DEF Inv, Accounted, Paid
  <2>2. ASSUME NEW c \in Calls, call[c] # New
        PROVE  /\ call[c].charged => Check(call[c].who, call[c].tool) = "ok"
               /\ \/ call[c].reached
                  \/ call[c].st = "asking"
                  \/ call[c].st = "ended" /\ call[c].outcome = "confirmation_required"
                  => call[c].charged = conf.limited
    BY <2>2 DEF Inv, Known, Right, Cleared, Waiting
  <2>3. QED
    BY <2>1, <2>2 DEF TokensAreAccounted
<1>2. QED
  BY <1>1, Invariant, PTL

\* Gates.visible, unknown_tool and _GateListing: no function but context_cost, whose drift
\* is not filtered, no suggestion and no listing names a tool to a caller whom its roles
\* would refuse, and none at all one to a caller whom the surface turns away.
THEOREM NothingHiddenIsTold == Spec => []HiddenStaysHidden
<1>1. Inv => HiddenStaysHidden
  BY DEF Inv, Known, Right, MayKnow, HiddenStaysHidden
<1>2. QED
  BY <1>1, Invariant, PTL

\* ConfirmGate and run_tool: a call gets to the executor unasked only with a tool that is
\* exempt or read-only as it is described when the call gets there.
THEOREM NoWriteUnasked == Spec => WritesAreApproved
<1>1. ASSUME Inv, [Next]_vars, NEW d \in Calls, Enters(d), conf.confirm, ~call'[d].approved,
             call'[d].tool \notin conf.exempt
      PROVE  (IF call'[d].fn = "pinned" THEN Attached ELSE listed')[call'[d].tool] = "reads"
  <2>1. call' # call
    BY <1>1 DEF Enters
  <2>2. PICK c \in Calls : Moves(c)
    BY <1>1, <2>1 DEF Next, Moves, BackendChanges, TTLPasses, SwitchTurns, Refill
  <2>3. PICK x : Turn(c, x) /\ (call[c].st = "settling" \/ Asks(x))
    BY <1>1, <2>2, Turns
  <2>4. d = c /\ call'[c] = x
    BY <1>1, <2>3 DEF Turn, Enters, Inv, TypeOK
  <2> DEFINE said == (IF x.fn = "pinned" THEN Attached ELSE listed')[x.tool]
  <2>5. x.st \in {"settling", "running"} /\ call[c].st # "settling"
    BY <1>1, <2>4 DEF Enters
  <2>6. ~Applies(x.tool, said)
    BY <1>1, <2>3, <2>4, <2>5 DEF Asks
  <2> HIDE DEF said
  <2>7. said = "reads"
    BY <1>1, <2>4, <2>6 DEF Applies
  <2>8. QED
    BY <2>4, <2>7 DEF said
<1>2. Inv /\ [Next]_vars =>
        [\A c \in Calls :
           /\ Enters(c)
           /\ conf.confirm /\ ~call'[c].approved /\ call'[c].tool \notin conf.exempt
           => (IF call'[c].fn = "pinned" THEN Attached ELSE listed')[call'[c].tool] = "reads"]_vars
  BY <1>1
<1>3. QED
  BY <1>2, Invariant, PTL DEF Spec, WritesAreApproved

=============================================================================
