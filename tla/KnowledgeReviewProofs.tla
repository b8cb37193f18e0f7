----------------------- MODULE KnowledgeReviewProofs -----------------------
(***************************************************************************)
(* A validation covers the wording it was given on, an accepted correction *)
(* is kept, a key names one decision and requests never all wait, for any  *)
(* items, requests, keys and bounds.  The first three follow from what an  *)
(* open transaction holds: one record of each item it loaded, no newer     *)
(* than the item, which adds a version unless the item has moved on.       *)
(***************************************************************************)
EXTENDS KnowledgeReview, FiniteSetTheorems, WellFoundedInduction, TLAPS

Copied == {"item", "life", "version", "adds", "saved"}

\* What a request is about, from its beginning to its end.
Posed(q) ==
  /\ q.number \in Nat
  /\ q.items \in Seq(Item) /\ q.items # <<>>
  /\ \A j, k \in 1 .. Len(q.items) : q.items[j] = q.items[k] => j = k
  /\ q.op \in Reviewed => \A j \in 1 .. Len(q.items) : q.items[j] = q.items[1]
  /\ q.key # NoKey => q.op \in Reviewed

\* What is left to load.
Pending(q) ==
  /\ q.todo \in Seq(Item)
  /\ q.phase \in {"begun", "loaded"} => q.todo # <<>>
  /\ \A j, k \in 1 .. Len(q.todo) : q.todo[j] = q.todo[k] => j = k
  /\ q.op \in Reviewed => \A j \in 1 .. Len(q.todo) : q.todo[j] = q.items[1]

\* A record of a loaded item, written back unless it is the one at hand.
Held(q, c) ==
  /\ DOMAIN c = Copied /\ c.item \in Item /\ c.version \in Nat
  /\ c.adds => q.op \in Correction
  /\ q.op \in Reviewed => c.item = q.items[1]
  /\ \A j \in 1 .. Len(q.todo) : c.item = q.todo[j] => j = 1 /\ q.phase = "loaded"
  /\ c.saved \/ (q.phase = "loaded" /\ c.item = q.todo[1])

Shaped(q) ==
  /\ DOMAIN q = DOMAIN None
  /\ q.phase = "idle" => q.loaded = {}
  /\ q.phase # "idle" => Posed(q) /\ Pending(q)
  /\ \A c \in q.loaded : Held(q, c)
  /\ \A c, d \in q.loaded : c.item = d.item => c = d

\* A record is no newer than its item, and a correction that was written back
\* adds a version unless the item has moved on.
Current(q, c) ==
  /\ c.version <= Version(c.item)
  /\ c.saved /\ q.op \in Correction /\ c.version = Version(c.item) => c.adds

RequestsShaped == DOMAIN request = Reviewer /\ \A v \in Reviewer : Shaped(request[v])
RecordsCurrent == \A v \in Reviewer : \A c \in request[v].loaded : Current(request[v], c)
ItemsHold == made \in Nat /\ \A i \in Item : item[i].wordings \in Seq(Nat)
Open == RequestsShaped /\ RecordsCurrent /\ ItemsHold

\* The parts of the properties, whatever the isolation.
Covered == \A i \in Item : item[i].life = "validated" => covered[i] = Version(i)
Kept ==
  \A e \in events : e.op = "review_correct" =>
    /\ e.item \in Item /\ e.version \in Nat \ {0}
    /\ e.version <= Version(e.item) /\ item[e.item].wordings[e.version] = e.number
Indexed == \A i \in Item : index[i] = item[i].wordings[Version(i)]
Truthful == Serializable => Covered /\ Kept /\ Indexed

-----------------------------------------------------------------------------
(* Requests *)

LEMMA NoneIsShaped == Shaped(None)
BY DEF Shaped, None

LEMMA ReviewsAreOne ==
  ASSUME NEW op \in Reviewed, NEW i \in Item, NEW who, NEW q \in Reviews(op, i, who)
  PROVE  q.items = <<i>> /\ q.op \in Reviewed
BY DEF Reviews

LEMMA DecisionsHaveNoKey ==
  ASSUME NEW op, NEW items, NEW by, NEW q \in Decides(op, items, by)
  PROVE  q.items \in items /\ q.key = NoKey /\ q.op = op
BY DEF Decides

\* A request is about one item or, for the set, about two different ones.
LEMMA RequestsAreAboutItems ==
  ASSUME NEW q \in Requests
  PROVE  \/ \E i \in Item : q.items = <<i>> /\ (q.key = NoKey \/ q.op \in Reviewed)
         \/ \E s \in Item \X Item :
              q.items = s /\ s[1] # s[2] /\ q.key = NoKey /\ q.op = "confirm_knowledge_set"
<1>1. CASE q \in SetRequests
  BY <1>1, DecisionsHaveNoKey DEF SetRequests
<1>2. ASSUME NEW i \in Item,
             \/ q \in ConfirmRequests(i) \cup ToolConfirmRequests(i)
             \/ q \in RejectRequests(i) \cup ToolRejectRequests(i)
             \/ q \in CorrectRequests(i) \cup ToolCorrectRequests(i)
      PROVE  q.items = <<i>> /\ q.op \in Reviewed
  BY <1>2, ReviewsAreOne
  DEF ConfirmRequests, ToolConfirmRequests, RejectRequests, ToolRejectRequests,
      CorrectRequests, ToolCorrectRequests, Reviewed
<1>3. ASSUME NEW i \in Item, q \in PlainConfirmRequests(i) \cup ServiceRequests(i)
      PROVE  q.items = <<i>> /\ (q.key = NoKey \/ q.op \in Reviewed)
  <2>1. CASE \E op \in Reviewed : q \in Reviews(op, i, {FALSE})
    BY <2>1, ReviewsAreOne
  <2>2. CASE ~ \E op \in Reviewed : q \in Reviews(op, i, {FALSE})
    <3>1. \E op, by : q \in Decides(op, {<<i>>}, by)
      BY <1>3, <2>2 DEF PlainConfirmRequests, ServiceRequests
    <3>. QED  BY <3>1, DecisionsHaveNoKey
  <2>. QED  BY <2>1, <2>2
<1>. QED  BY <1>1, <1>2, <1>3 DEF Requests

LEMMA RequestsArePosed ==
  ASSUME NEW q \in Requests
  PROVE  /\ q.items \in Seq(Item) /\ q.items # <<>>
         /\ \A j, k \in 1 .. Len(q.items) : q.items[j] = q.items[k] => j = k
         /\ q.op \in Reviewed => \A j \in 1 .. Len(q.items) : q.items[j] = q.items[1]
         /\ q.key # NoKey => q.op \in Reviewed
<1>1. CASE \E i \in Item : q.items = <<i>> /\ (q.key = NoKey \/ q.op \in Reviewed)
  BY <1>1
<1>2. CASE \E s \in Item \X Item :
             q.items = s /\ s[1] # s[2] /\ q.key = NoKey /\ q.op = "confirm_knowledge_set"
  <2>. PICK a \in Item, b \in Item : q.items = <<a, b>> /\ a # b
    BY <1>2
  <2>. QED  BY <1>2 DEF Reviewed
<1>. QED  BY <1>1, <1>2, RequestsAreAboutItems

\* A step that replaces one request by a sound one and leaves the items alone.
LEMMA ReplacingIsOpen ==
  ASSUME Open, NEW v \in Reviewer, NEW q, Shaped(q), \A c \in q.loaded : Current(q, c),
         request' = [request EXCEPT ![v] = q], item' = item, made' = made
  PROVE  Open'
<1>1. RequestsShaped'
  BY DEF Open, RequestsShaped
<1>2. RecordsCurrent'
  BY DEF Open, RequestsShaped, RecordsCurrent, Current, Version
<1>. QED  BY <1>1, <1>2 DEF Open, ItemsHold

LEMMA EndingIsOpen ==
  ASSUME Open, NEW v \in Reviewer, Finish(v), item' = item, made' = made
  PROVE  Open'
BY NoneIsShaped, ReplacingIsOpen DEF Finish, None

LEMMA BeginningIsOpen ==
  ASSUME Open, NEW v \in Reviewer, Begin(v)
  PROVE  Open'
<1>. PICK q \in Requests : request' = [request EXCEPT ![v] =
         IF Recorded(q.items[1], q.key) THEN None
         ELSE [phase |-> "begun", op |-> q.op, items |-> q.items, todo |-> q.items,
               by |-> q.by, key |-> q.key, expected |-> q.expected, user |-> q.user,
               number |-> made + 1, loaded |-> {}]]
  BY DEF Begin
<1>. DEFINE r == [phase |-> "begun", op |-> q.op, items |-> q.items, todo |-> q.items,
                  by |-> q.by, key |-> q.key, expected |-> q.expected, user |-> q.user,
                  number |-> made + 1, loaded |-> {}]
<1>1. DOMAIN r = DOMAIN None /\ r.phase = "begun" /\ r.loaded = {} /\ r.op = q.op
      /\ r.items = q.items /\ r.todo = q.items /\ r.key = q.key /\ r.number = made + 1
  BY DEF None
<1>2. r.number \in Nat
  BY <1>1 DEF Open, ItemsHold
<1>. HIDE DEF r
<1>3. Posed(r) /\ Pending(r)
  BY <1>1, <1>2, RequestsArePosed DEF Posed, Pending
<1>4. Shaped(r)
  BY <1>1, <1>3 DEF Shaped
<1>5. request' = [request EXCEPT ![v] = None] \/ request' = [request EXCEPT ![v] = r]
  BY DEF r
<1>6. RequestsShaped'
  BY <1>4, <1>5, NoneIsShaped DEF Open, RequestsShaped
<1>7. RecordsCurrent'
  BY <1>1, <1>5 DEF Open, RequestsShaped, RecordsCurrent, Current, Version, None, Begin
<1>. QED  BY <1>6, <1>7 DEF Open, ItemsHold, Begin

LEMMA LoadingIsOpen ==
  ASSUME Open, NEW v \in Reviewer, Load(v)
  PROVE  Open'
<1>. DEFINE q == request[v]
            c == [item |-> Head(q.todo), life |-> item[Head(q.todo)].life,
                  version |-> Version(Head(q.todo)), adds |-> FALSE, saved |-> FALSE]
            r == [q EXCEPT !.phase = "loaded", !.loaded = @ \cup {c}]
<1>1. q.phase = "begun" /\ Shaped(q) /\ Posed(q) /\ Pending(q)
  BY DEF Load, Open, RequestsShaped, Shaped
<1>2. Head(q.todo) = q.todo[1] /\ 1 \in 1 .. Len(q.todo) /\ q.todo[1] \in Item
  BY <1>1 DEF Pending
<1>3. c.item = q.todo[1] /\ DOMAIN c = Copied /\ c.version = Version(q.todo[1]) /\ ~c.adds /\ ~c.saved
  BY <1>2 DEF Copied
<1>4. c.version \in Nat
  BY <1>2, <1>3 DEF Open, ItemsHold, Version
<1>5. DOMAIN r = DOMAIN None /\ r.phase = "loaded" /\ r.loaded = q.loaded \cup {c} /\ r.op = q.op
      /\ r.items = q.items /\ r.todo = q.todo /\ r.key = q.key /\ r.number = q.number
  BY <1>1 DEF Shaped, None
<1>6. request' = [request EXCEPT ![v] = None] \/ request' = [request EXCEPT ![v] = r]
  BY DEF Load, Finish, Open, RequestsShaped
<1>. HIDE DEF r, c
<1>7. Posed(r) /\ Pending(r)
  BY <1>1, <1>5 DEF Posed, Pending
<1>8. Held(r, c)
  BY <1>1, <1>2, <1>3, <1>4, <1>5 DEF Held, Pending
<1>9. ASSUME NEW d \in q.loaded PROVE Held(r, d) /\ d.item # c.item
  BY <1>1, <1>2, <1>3, <1>5, <1>9 DEF Shaped, Held
<1>10. Shaped(r)
  BY <1>1, <1>5, <1>7, <1>8, <1>9 DEF Shaped
<1>11. \A d \in r.loaded : Current(r, d)
  BY <1>3, <1>4, <1>5 DEF Open, RecordsCurrent, Current
<1>. QED  BY <1>6, <1>10, <1>11, EndingIsOpen, ReplacingIsOpen DEF Load, Unwritten, Finish

LEMMA SavingIsOpen ==
  ASSUME Open, NEW v \in Reviewer, Save(v)
  PROVE  Open'
<1>. DEFINE q == request[v]
<1>. PICK c \in q.loaded :
       /\ c.item = Head(q.todo)
       /\ LET done == [c EXCEPT !.saved = TRUE,
                         !.adds = q.op \in Correction /\ Version(Head(q.todo)) = c.version]
          IN request' = [request EXCEPT
               ![v].phase = IF Len(q.todo) = 1 THEN "saved" ELSE "begun",
               ![v].todo = Tail(@),
               ![v].loaded = (@ \ {c}) \cup {done}]
  BY DEF Save, MaySave
<1>. DEFINE d == [c EXCEPT !.saved = TRUE,
                    !.adds = q.op \in Correction /\ Version(Head(q.todo)) = c.version]
            r == [q EXCEPT !.phase = IF Len(q.todo) = 1 THEN "saved" ELSE "begun",
                           !.todo = Tail(@), !.loaded = (@ \ {c}) \cup {d}]
<1>1. q.phase = "loaded" /\ Shaped(q) /\ Posed(q) /\ Pending(q) /\ Held(q, c)
  BY DEF Save, MaySave, Open, RequestsShaped, Shaped
<1>2. d.saved /\ d.item = c.item /\ d.version = c.version /\ DOMAIN d = Copied
      /\ (d.adds => q.op \in Correction)
      /\ (q.op \in Correction /\ Version(Head(q.todo)) = c.version => d.adds)
  BY <1>1 DEF Held, Copied
<1>3. /\ DOMAIN r = DOMAIN None /\ r.phase = IF Len(q.todo) = 1 THEN "saved" ELSE "begun"
      /\ r.loaded = (q.loaded \ {c}) \cup {d} /\ r.op = q.op
      /\ r.items = q.items /\ r.todo = Tail(q.todo) /\ r.key = q.key /\ r.number = q.number
  BY <1>1 DEF Shaped, None
<1>4. request' = [request EXCEPT ![v] = r]
  BY DEF Open, RequestsShaped
<1>. HIDE DEF r, d
<1>5. /\ q.todo \in Seq(Item) /\ Len(q.todo) \in Nat \ {0} /\ Head(q.todo) = q.todo[1]
      /\ Tail(q.todo) \in Seq(Item) /\ Len(Tail(q.todo)) = Len(q.todo) - 1
      /\ \A j \in 1 .. Len(Tail(q.todo)) :
           Tail(q.todo)[j] = q.todo[j + 1] /\ j + 1 \in 1 .. Len(q.todo) /\ j + 1 # 1
  BY <1>1 DEF Pending
<1>6. Posed(r)
  BY <1>1, <1>3 DEF Posed
<1>7. Pending(r)
  <2>1. r.phase = "begun" => r.todo # <<>>
    <3>1. Len(q.todo) # 1 => Len(Tail(q.todo)) # 0
      BY <1>5
    <3>2. r.phase = "begun" => Len(r.todo) # 0
      BY <1>3, <3>1
    <3>. QED  BY <3>2
  <2>2. \A j, k \in 1 .. Len(r.todo) : r.todo[j] = r.todo[k] => j = k
    <3>. TAKE j, k \in 1 .. Len(r.todo)
    <3>1. r.todo[j] = q.todo[j + 1] /\ r.todo[k] = q.todo[k + 1]
          /\ j + 1 \in 1 .. Len(q.todo) /\ k + 1 \in 1 .. Len(q.todo)
      BY <1>3, <1>5
    <3>2. q.todo[j + 1] = q.todo[k + 1] => j + 1 = k + 1
      BY <1>1, <3>1 DEF Pending
    <3>. QED  BY <3>1, <3>2, <1>3, <1>5
  <2>3. r.op \in Reviewed => \A j \in 1 .. Len(r.todo) : r.todo[j] = r.items[1]
    BY <1>1, <1>3, <1>5 DEF Pending
  <2>. QED  BY <1>3, <1>5, <2>1, <2>2, <2>3 DEF Pending
<1>8. Held(r, d)
  <2>1. \A j \in 1 .. Len(r.todo) : d.item # r.todo[j]
    <3>. TAKE j \in 1 .. Len(r.todo)
    <3>1. r.todo[j] = q.todo[j + 1] /\ j + 1 \in 1 .. Len(q.todo) /\ j + 1 # 1
          /\ 1 \in 1 .. Len(q.todo)
      BY <1>3, <1>5
    <3>2. q.todo[j + 1] # q.todo[1]
      BY <1>1, <3>1 DEF Pending
    <3>. QED  BY <1>2, <1>5, <3>1, <3>2
  <2>. QED  BY <1>1, <1>2, <1>3, <2>1 DEF Held
<1>9. ASSUME NEW e \in q.loaded, e # c PROVE Held(r, e) /\ e.item # d.item
  <2>1. Held(q, e) /\ e.item # c.item
    BY <1>1, <1>9 DEF Shaped
  <2>2. \A j \in 1 .. Len(r.todo) : e.item # r.todo[j]
    BY <1>3, <1>5, <2>1 DEF Held
  <2>3. e.saved
    BY <1>5, <2>1 DEF Held
  <2>. QED  BY <1>2, <1>3, <2>1, <2>2, <2>3 DEF Held
<1>10. Shaped(r)
  BY <1>3, <1>6, <1>7, <1>8, <1>9, <1>1 DEF Shaped
<1>11. \A e \in r.loaded : Current(r, e)
  <2>1. Current(r, d)
    <3>1. c.version <= Version(c.item)
      BY DEF Open, RecordsCurrent, Current
    <3>. QED  BY <1>2, <1>3, <3>1 DEF Current
  <2>. QED  BY <1>3, <2>1 DEF Open, RecordsCurrent, Current
<1>. QED  BY <1>4, <1>10, <1>11, ReplacingIsOpen DEF Save, Unwritten

LEMMA StartingOverIsOpen ==
  ASSUME Open, NEW v \in Reviewer, request[v].phase # "idle", StartsOver(v), Unwritten
  PROVE  Open'
<1>. DEFINE q == request[v]
            r == [q EXCEPT !.phase = "begun", !.todo = q.items, !.loaded = {}]
<1>1. DOMAIN q = DOMAIN None /\ Posed(q)
  BY DEF Open, RequestsShaped, Shaped
<1>2. DOMAIN r = DOMAIN None /\ r.phase = "begun" /\ r.loaded = {} /\ r.op = q.op
      /\ r.items = q.items /\ r.todo = q.items /\ r.key = q.key /\ r.number = q.number
  BY <1>1 DEF None
<1>3. request' = [request EXCEPT ![v] = None] \/ request' = [request EXCEPT ![v] = r]
  BY DEF StartsOver, Restart
<1>. HIDE DEF r
<1>4. Shaped(r)
  BY <1>1, <1>2 DEF Shaped, Posed, Pending
<1>. QED  BY <1>2, <1>3, <1>4, EndingIsOpen, ReplacingIsOpen DEF Unwritten, Finish

LEMMA EntangledIsLoaded ==
  ASSUME NEW v \in Reviewer, Entangled(v)
  PROVE  request[v].phase = "loaded"
BY DEF Entangled, Waits

-----------------------------------------------------------------------------
(* Commits *)

\* What a commit does to an item it has no record of, and to one it has.
LEMMA CommitLeaves ==
  ASSUME Open, NEW v \in Reviewer, Commit(v), NEW i \in Item,
         \A c \in request[v].loaded : c.item # i
  PROVE  /\ item'[i].life = item[i].life /\ item'[i].wordings = item[i].wordings
         /\ covered'[i] = covered[i] /\ index'[i] = index[i]
BY DEF Commit, Reindexed

LEMMA CommitDecides ==
  ASSUME Open, NEW v \in Reviewer, Commit(v), NEW c \in request[v].loaded
  PROVE  LET q == request[v]  i == c.item IN
         /\ item'[i].life = IF Writes(q, c) THEN Target(q, c.life) ELSE item[i].life
         /\ item'[i].wordings = IF c.adds THEN Append(item[i].wordings, q.number)
                                ELSE item[i].wordings
         /\ covered'[i] = IF Writes(q, c) /\ Target(q, c.life) = "validated"
                          THEN IF q.op \in Correction THEN c.version + 1 ELSE c.version
                          ELSE covered[i]
         /\ index'[i] = IF q.op \in Correction THEN q.number ELSE index[i]
<1>. DEFINE q == request[v]
            of(i) == {d \in q.loaded : d.item = i}
<1>1. c.item \in Item /\ of(c.item) = {c}
  BY DEF Open, RequestsShaped, Shaped, Held
<1>2. (CHOOSE d \in of(c.item) : TRUE) = c
  BY <1>1
<1>3. /\ item' = [i \in Item |->
           [life |-> IF \E d \in of(i) : Writes(q, d)
                     THEN Target(q, (CHOOSE d \in of(i) : TRUE).life) ELSE item[i].life,
            wordings |-> IF \E d \in of(i) : d.adds
                         THEN Append(item[i].wordings, q.number) ELSE item[i].wordings]]
      /\ covered' = [i \in Item |->
           IF \E d \in of(i) : Writes(q, d) /\ Target(q, d.life) = "validated"
           THEN IF q.op \in Correction THEN (CHOOSE d \in of(i) : TRUE).version + 1
                ELSE (CHOOSE d \in of(i) : TRUE).version
           ELSE covered[i]]
      /\ index' = [i \in Item |->
           IF q.op \in Correction /\ (\E d \in q.loaded : d.item = i) THEN q.number ELSE index[i]]
  BY DEF Commit, Reindexed
<1>. HIDE DEF of
<1>. QED  BY <1>1, <1>2, <1>3

\* A commit that nothing interfered with.
Clean(v) == \A c \in request[v].loaded : c.life = item[c.item].life /\ c.version = Version(c.item)

LEMMA CommitsAreClean ==
  ASSUME Serializable, NEW v \in Reviewer, Commit(v)
  PROVE  Clean(v)
BY DEF Commit, Wins, Stale, Clean

\* What a commit holds.
LEMMA CommitsHold ==
  ASSUME Open, NEW v \in Reviewer, Commit(v), NEW c \in request[v].loaded
  PROVE  /\ c.saved /\ c.item \in Item /\ c.version \in Nat /\ Current(request[v], c)
         /\ request[v].number \in Nat
         /\ c.adds => request[v].op \in Correction
BY DEF Open, RequestsShaped, RecordsCurrent, Shaped, Posed, Held, Commit

LEMMA CommitAddsAtMostOne ==
  ASSUME Open, NEW v \in Reviewer, Commit(v), NEW i \in Item
  PROVE  /\ item'[i].wordings \in Seq(Nat)
         /\ Version(i)' = Version(i) \/ Version(i)' = Version(i) + 1
         /\ \A j \in 1 .. Version(i) : item'[i].wordings[j] = item[i].wordings[j]
<1>1. item[i].wordings \in Seq(Nat)
  BY DEF Open, ItemsHold
<1>2. CASE \A c \in request[v].loaded : c.item # i
  BY <1>1, <1>2, CommitLeaves DEF Version
<1>3. ASSUME NEW c \in request[v].loaded, c.item = i
      PROVE  item'[i].wordings = item[i].wordings
             \/ item'[i].wordings = Append(item[i].wordings, request[v].number)
  BY <1>3, CommitDecides
<1>4. ASSUME NEW c \in request[v].loaded PROVE request[v].number \in Nat
  BY CommitsHold
<1>5. ASSUME NEW w \in Seq(Nat), NEW n \in Nat
      PROVE  /\ Append(w, n) \in Seq(Nat) /\ Len(Append(w, n)) = Len(w) + 1
             /\ \A j \in 1 .. Len(w) : Append(w, n)[j] = w[j]
  OBVIOUS
<1>6. ASSUME NEW c \in request[v].loaded, c.item = i
      PROVE  /\ item'[i].wordings \in Seq(Nat)
             /\ Version(i)' = Version(i) \/ Version(i)' = Version(i) + 1
             /\ \A j \in 1 .. Version(i) : item'[i].wordings[j] = item[i].wordings[j]
  <2>. DEFINE w == item[i].wordings
  <2>1. CASE item'[i].wordings = w
    BY <1>1, <2>1 DEF Version
  <2>2. CASE item'[i].wordings = Append(w, request[v].number)
    <3>1. /\ Append(w, request[v].number) \in Seq(Nat)
          /\ Len(Append(w, request[v].number)) = Len(w) + 1
          /\ \A j \in 1 .. Len(w) : Append(w, request[v].number)[j] = w[j]
      BY <1>1, <1>4, <1>5, <1>6
    <3>. QED  BY <2>2, <3>1 DEF Version
  <2>. QED  BY <1>3, <1>6, <2>1, <2>2
<1>. QED  BY <1>1, <1>2, <1>6 DEF Version

LEMMA CommittingIsOpen ==
  ASSUME Open, NEW v \in Reviewer, Commit(v)
  PROVE  Open'
<1>1. request' = [request EXCEPT ![v] = None] /\ made' = made
  BY DEF Commit, Finish
<1>2. RequestsShaped'
  BY <1>1, NoneIsShaped DEF Open, RequestsShaped
<1>3. ItemsHold'
  BY <1>1, CommitAddsAtMostOne DEF Open, ItemsHold
<1>4. ASSUME NEW u \in Reviewer, NEW c \in request'[u].loaded
      PROVE  Current(request[u], c)'
  <2>1. request'[u] = request[u] /\ c \in request[u].loaded
    BY <1>1, <1>4 DEF Open, RequestsShaped, None
  <2>2. c.item \in Item /\ c.version \in Nat
    BY <2>1 DEF Open, RequestsShaped, Shaped, Held
  <2>3. Current(request[u], c)
    BY <2>1 DEF Open, RecordsCurrent
  <2>4. Version(c.item) \in Nat
    BY <2>2 DEF Open, ItemsHold, Version
  <2>5. Version(c.item)' = Version(c.item) \/ Version(c.item)' = Version(c.item) + 1
    BY <2>2, CommitAddsAtMostOne
  <2>. QED  BY <2>1, <2>2, <2>3, <2>4, <2>5 DEF Current
<1>. QED  BY <1>2, <1>3, <1>4 DEF Open, RecordsCurrent

LEMMA InitOpen == Init => Open
<1>. SUFFICES ASSUME Init PROVE Open
  OBVIOUS
<1>1. RequestsShaped
  BY NoneIsShaped DEF Init, RequestsShaped
<1>2. RecordsCurrent
  BY DEF Init, RecordsCurrent, None
<1>3. ItemsHold
  <2>1. \A i \in Item : item[i].wordings = <<0>>
    BY DEF Init
  <2>2. <<0>> \in Seq(Nat)
    OBVIOUS
  <2>. QED  BY <2>1, <2>2 DEF Init, ItemsHold
<1>. QED  BY <1>1, <1>2, <1>3 DEF Open

LEMMA NextStaysOpen == Open /\ [Next]_vars => Open'
<1>. SUFFICES ASSUME Open, [Next]_vars PROVE Open'
  OBVIOUS
<1>1. CASE UNCHANGED vars
  BY <1>1 DEF vars, Open, RequestsShaped, RecordsCurrent, Current, Version, ItemsHold
<1>2. ASSUME NEW v \in Reviewer, Begin(v) PROVE Open'
  BY <1>2, BeginningIsOpen
<1>3. ASSUME NEW v \in Reviewer, Load(v) PROVE Open'
  BY <1>3, LoadingIsOpen
<1>4. ASSUME NEW v \in Reviewer, Save(v) PROVE Open'
  BY <1>4, SavingIsOpen
<1>5. ASSUME NEW v \in Reviewer, Deadlocked(v) PROVE Open'
  BY <1>5, EndingIsOpen, EntangledIsLoaded, StartingOverIsOpen DEF Deadlocked, Unwritten
<1>6. ASSUME NEW v \in Reviewer, RaceLost(v) \/ Retry(v) PROVE Open'
  BY <1>6, EndingIsOpen, StartingOverIsOpen DEF RaceLost, Retry, Unwritten
<1>7. ASSUME NEW v \in Reviewer, Commit(v) PROVE Open'
  BY <1>7, CommittingIsOpen
<1>. QED  BY <1>1, <1>2, <1>3, <1>4, <1>5, <1>6, <1>7 DEF Next, Handle

-----------------------------------------------------------------------------
(* What the items and the events say *)

\* What a clean commit leaves of an item it decided.
LEMMA CleanCommitAdds ==
  ASSUME Open, NEW v \in Reviewer, Commit(v), Clean(v), NEW c \in request[v].loaded
  PROVE  LET q == request[v]  i == c.item IN
         /\ c.version = Version(i) /\ c.life = item[i].life
         /\ q.op \in Correction =>
              /\ Version(i)' = c.version + 1
              /\ item'[i].wordings[c.version + 1] = q.number
         /\ q.op \notin Correction => item'[i].wordings = item[i].wordings
<1>. DEFINE q == request[v]
            w == item[c.item].wordings
<1>1. /\ c.version = Version(c.item) /\ c.life = item[c.item].life
      /\ c.saved /\ c.item \in Item /\ q.number \in Nat
      /\ c.adds => q.op \in Correction
      /\ q.op \in Correction => c.adds
  BY CommitsHold DEF Clean, Current
<1>2. w \in Seq(Nat)
  BY <1>1 DEF Open, ItemsHold
<1>3. Len(Append(w, q.number)) = Len(w) + 1 /\ Append(w, q.number)[Len(w) + 1] = q.number
  BY <1>1, <1>2
<1>4. item'[c.item].wordings = IF c.adds THEN Append(w, q.number) ELSE w
  BY CommitDecides
<1>5. CASE c.adds
  BY <1>1, <1>3, <1>4, <1>5 DEF Version
<1>6. CASE ~c.adds
  BY <1>1, <1>4, <1>6
<1>. QED  BY <1>5, <1>6

LEMMA CommitsCover ==
  ASSUME Open, NEW v \in Reviewer, Commit(v), Clean(v), Covered
  PROVE  Covered'
<1>. DEFINE q == request[v]
<1>. SUFFICES ASSUME NEW i \in Item, item'[i].life = "validated"
              PROVE  covered'[i] = Version(i)'
  BY DEF Covered
<1>1. CASE \A c \in q.loaded : c.item # i
  BY <1>1, CommitLeaves DEF Covered, Version
<1>2. ASSUME NEW c \in q.loaded, c.item = i PROVE covered'[i] = Version(i)'
  <2>1. c.version = Version(i) /\ c.life = item[i].life
        /\ (q.op \in Correction => Version(i)' = c.version + 1)
        /\ (q.op \notin Correction => Version(i)' = Version(i))
    BY <1>2, CleanCommitAdds DEF Version
  <2>2. /\ item'[i].life = IF Writes(q, c) THEN Target(q, c.life) ELSE item[i].life
        /\ covered'[i] = IF Writes(q, c) /\ Target(q, c.life) = "validated"
                         THEN IF q.op \in Correction THEN c.version + 1 ELSE c.version
                         ELSE covered[i]
    BY <1>2, CommitDecides
  <2>3. CASE Writes(q, c)
    BY <2>1, <2>2, <2>3
  <2>4. CASE ~Writes(q, c)
    <3>1. Target(q, c.life) = c.life /\ c.life = "validated"
      BY <2>1, <2>2, <2>4 DEF Writes
    <3>2. q.op \notin Correction
      BY <3>1 DEF Target
    <3>. QED  BY <2>1, <2>2, <2>4, <3>1, <3>2 DEF Covered
  <2>. QED  BY <2>3, <2>4
<1>. QED  BY <1>1, <1>2

LEMMA CommitsKeep ==
  ASSUME Open, NEW v \in Reviewer, Commit(v), Clean(v), Kept
  PROVE  Kept'
<1>. DEFINE q == request[v]
<1>. SUFFICES ASSUME NEW e \in events', e.op = "review_correct"
              PROVE  /\ e.item \in Item /\ e.version \in Nat \ {0}
                     /\ e.version <= Version(e.item)'
                     /\ item'[e.item].wordings[e.version] = e.number
  BY DEF Kept
<1>1. e \in events \/ e \in Decided(q)
  BY DEF Commit
<1>2. CASE e \in events
  <2>1. /\ e.item \in Item /\ e.version \in Nat \ {0}
        /\ e.version <= Version(e.item) /\ item[e.item].wordings[e.version] = e.number
    BY <1>2 DEF Kept
  <2>2. Version(e.item) \in Nat
    BY <2>1 DEF Open, ItemsHold, Version
  <2>3. /\ Version(e.item)' = Version(e.item) \/ Version(e.item)' = Version(e.item) + 1
        /\ \A j \in 1 .. Version(e.item) : item'[e.item].wordings[j] = item[e.item].wordings[j]
    BY <2>1, CommitAddsAtMostOne
  <2>. QED  BY <2>1, <2>2, <2>3
<1>3. CASE e \in Decided(q)
  <2>. PICK c \in q.loaded :
         e = [item |-> c.item, key |-> q.key, op |-> q.op, from |-> c.life,
              to |-> Target(q, c.life), number |-> q.number,
              version |-> IF q.op \in Correction THEN c.version + 1 ELSE c.version]
    BY <1>3 DEF Decided
  <2>1. q.op \in Correction /\ e.item = c.item /\ e.version = c.version + 1 /\ e.number = q.number
    BY DEF Correction
  <2>2. c.item \in Item /\ c.version \in Nat
    BY CommitsHold
  <2>3. Version(c.item)' = c.version + 1 /\ item'[c.item].wordings[c.version + 1] = q.number
    BY <2>1, CleanCommitAdds
  <2>. QED  BY <2>1, <2>2, <2>3
<1>. QED  BY <1>1, <1>2, <1>3

LEMMA CommitsIndex ==
  ASSUME Open, NEW v \in Reviewer, Commit(v), Clean(v), Indexed
  PROVE  Indexed'
<1>. DEFINE q == request[v]
<1>. SUFFICES ASSUME NEW i \in Item PROVE index'[i] = item'[i].wordings[Version(i)']
  BY DEF Indexed
<1>1. CASE \A c \in q.loaded : c.item # i
  BY <1>1, CommitLeaves DEF Indexed, Version
<1>2. ASSUME NEW c \in q.loaded, c.item = i PROVE index'[i] = item'[i].wordings[Version(i)']
  BY <1>2, CommitDecides, CleanCommitAdds DEF Indexed, Version
<1>. QED  BY <1>1, <1>2

LEMMA InitTruthful == Init => Truthful
<1>. SUFFICES ASSUME Init PROVE Covered /\ Kept /\ Indexed
  BY DEF Truthful
<1>1. Covered /\ Kept
  BY DEF Init, Covered, Kept
<1>2. ASSUME NEW i \in Item PROVE index[i] = item[i].wordings[Version(i)]
  <2>1. index[i] = 0 /\ item[i].wordings = <<0>> /\ Len(<<0>>) = 1
    BY DEF Init
  <2>. QED  BY <2>1 DEF Version
<1>. QED  BY <1>1, <1>2 DEF Indexed

LEMMA NextStaysTruthful == Open /\ Truthful /\ [Next]_vars => Truthful'
<1>. SUFFICES ASSUME Open, Truthful, [Next]_vars, Serializable' PROVE Truthful'
  BY DEF Truthful
<1>1. ASSUME UNCHANGED <<item, index, events, covered, isolation>> PROVE Truthful'
  BY <1>1 DEF Truthful, Serializable, Covered, Kept, Indexed, Version
<1>2. ASSUME NEW v \in Reviewer, Commit(v) PROVE Truthful'
  <2>1. Serializable
    BY <1>2 DEF Commit, Serializable
  <2>. QED  BY <1>2, <2>1, CommitsAreClean, CommitsCover, CommitsKeep, CommitsIndex DEF Truthful
<1>. QED  BY <1>1, <1>2
          DEF Next, Handle, Begin, Load, Save, Deadlocked, Retry, RaceLost, Unwritten, vars

LEMMA TruthHolds == Spec => [](Open /\ Truthful)
BY InitOpen, NextStaysOpen, InitTruthful, NextStaysTruthful, PTL DEF Spec

\* Whatever the number of items, requests and people, a validated item carries
\* the wording its validation was given on (`expected_version` and save).
THEOREM AuthorityHolds == Spec => []AuthorityCoversWording
<1>1. Truthful => AuthorityCoversWording
  BY DEF Truthful, Covered, AuthorityCoversWording
<1>. QED  BY <1>1, TruthHolds, PTL

\* Whatever the number of items, requests and people, an accepted correction
\* stays in the history and the index follows the latest (correct_knowledge).
THEOREM CorrectionsAreKept == Spec => []CorrectionIsKept
<1>1. Truthful => CorrectionIsKept
  BY DEF Truthful, Kept, Indexed, CorrectionIsKept
<1>. QED  BY <1>1, TruthHolds, PTL

-----------------------------------------------------------------------------
(* Keys *)

LEMMA CommitsAreNew ==
  ASSUME NEW v \in Reviewer, Commit(v)
  PROVE  ~Recorded(request[v].items[1], request[v].key)
BY DEF Commit, Wins, Duplicate

LEMMA NextKeepsKeys == Open /\ OneDecisionPerKey /\ [Next]_vars => OneDecisionPerKey'
<1>. SUFFICES ASSUME Open, OneDecisionPerKey, [Next]_vars PROVE OneDecisionPerKey'
  OBVIOUS
<1>1. ASSUME UNCHANGED events PROVE OneDecisionPerKey'
  BY <1>1 DEF OneDecisionPerKey
<1>2. ASSUME NEW v \in Reviewer, Commit(v) PROVE OneDecisionPerKey'
  <2>. DEFINE q == request[v]
  <2>1. events' = events \cup Decided(q)
    BY <1>2 DEF Commit
  <2>2. \A e \in events : e.key # NoKey => ~(e.item = q.items[1] /\ e.key = q.key)
    BY <1>2, CommitsAreNew DEF Recorded
  <2>3. Shaped(q) /\ Posed(q)
    BY <1>2 DEF Open, RequestsShaped, Shaped, Commit
  <2>4. ASSUME NEW e \in Decided(q), e.key # NoKey
        PROVE  e.key = q.key /\ e.item = q.items[1]
    BY <2>3, <2>4 DEF Decided, Shaped, Posed, Held
  <2>5. ASSUME NEW e \in Decided(q), NEW f \in Decided(q), e.item = f.item PROVE e = f
    BY <2>3, <2>5 DEF Decided, Shaped
  <2>. QED  BY <2>1, <2>2, <2>4, <2>5 DEF OneDecisionPerKey
<1>. QED  BY <1>1, <1>2
          DEF Next, Handle, Begin, Load, Save, Deadlocked, Retry, RaceLost, Unwritten, vars

\* Whatever the number of requests and at either isolation level, a key names
\* one decision about an item (find_by_idempotency_key and the unique index).
THEOREM KeysNameOneDecision == Spec => []OneDecisionPerKey
<1>1. Init => OneDecisionPerKey
  BY DEF Init, OneDecisionPerKey
<1>. QED  BY <1>1, InitOpen, NextStaysOpen, NextKeepsKeys, PTL DEF Spec

-----------------------------------------------------------------------------
(* Row locks *)

\* The requests in progress are finitely many, however many people there are.
InProgress == {v \in Reviewer : request[v].phase # "idle"}
FewInProgress == IsFiniteSet(InProgress)

LEMMA OneMoreInProgress ==
  ASSUME IsFiniteSet(InProgress), NEW v, InProgress' \subseteq InProgress \cup {v}
  PROVE  IsFiniteSet(InProgress')
<1>1. IsFiniteSet(InProgress \cup {v})
  BY FS_AddElement
<1>. QED  BY <1>1, FS_Subset

LEMMA FewAreInProgress == Spec => []FewInProgress
<1>1. Init => FewInProgress
  <2>. SUFFICES ASSUME Init PROVE InProgress = {}
    BY FS_EmptySet DEF FewInProgress
  <2>. QED  BY DEF Init, InProgress, None
<1>2. Open /\ FewInProgress /\ [Next]_vars => FewInProgress'
  <2>. SUFFICES ASSUME Open, FewInProgress, [Next]_vars PROVE FewInProgress'
    OBVIOUS
  <2>1. CASE UNCHANGED vars
    BY <2>1 DEF FewInProgress, InProgress, vars
  <2>2. ASSUME NEW v \in Reviewer, \A u \in Reviewer \ {v} : request'[u] = request[u]
        PROVE  FewInProgress'
    <3>1. InProgress' \subseteq InProgress \cup {v}
      BY <2>2 DEF InProgress
    <3>. QED  BY <3>1, OneMoreInProgress DEF FewInProgress
  <2>3. ASSUME NEW v \in Reviewer, Begin(v) \/ Handle(v)
        PROVE  \A u \in Reviewer \ {v} : request'[u] = request[u]
    BY <2>3 DEF Begin, Handle, Load, Save, Deadlocked, Retry, RaceLost, Commit, Finish,
                StartsOver, Open, RequestsShaped
  <2>. QED  BY <2>1, <2>2, <2>3 DEF Next
<1>. QED  BY <1>1, <1>2, InitOpen, NextStaysOpen, PTL DEF Spec

\* A set of numbers that is not empty has a least one.
LEMMA LeastOf ==
  ASSUME NEW T \in SUBSET Nat, T # {}
  PROVE  \E n \in T : \A m \in T : n <= m
<1>1. PICK n \in T : \A m \in T : ~(<<m, n>> \in OpToRel(<, Nat))
  BY NatLessThanWellFounded, WFMin
<1>2. \A m \in T : ~(m < n)
  BY <1>1 DEF OpToRel
<1>. QED  BY <1>2

\* Where each of finitely many waits for one of them, some of them wait in a
\* circle: the fewest that are left when everyone goes where it waits.
LEMMA CirclesClose ==
  ASSUME NEW A, IsFiniteSet(A), A # {}, NEW f \in [A -> A]
  PROVE  \E C \in SUBSET A :
           /\ C # {} /\ \A u \in C : f[u] \in C
           /\ \A w \in C : \E u \in C : f[u] = w
<1>. DEFINE closed == {C \in SUBSET A : C # {} /\ \A u \in C : f[u] \in C}
            sizes == {Cardinality(C) : C \in closed}
<1>1. A \in closed
  OBVIOUS
<1>2. \A C \in closed : IsFiniteSet(C) /\ Cardinality(C) \in Nat
  BY FS_Subset, FS_CardinalityType
<1>3. sizes \subseteq Nat /\ sizes # {}
  BY <1>1, <1>2
<1>4. PICK n \in sizes : \A m \in sizes : n <= m
  BY <1>3, LeastOf
<1>5. PICK C \in closed : n = Cardinality(C)
  OBVIOUS
<1>. DEFINE D == {f[u] : u \in C}
<1>6. D \in SUBSET C
  OBVIOUS
<1>7. D \in closed
  OBVIOUS
<1>8. Cardinality(C) <= Cardinality(D)
  BY <1>4, <1>5, <1>7
<1>9. D = C
  <2>1. IsFiniteSet(C) /\ Cardinality(C) \in Nat /\ Cardinality(D) \in Nat
    BY <1>2, <1>7
  <2>2. Cardinality(D) <= Cardinality(C)
    BY <1>6, <2>1, FS_Subset
  <2>3. Cardinality(C) = Cardinality(D)
    BY <1>8, <2>1, <2>2
  <2>. QED  BY <1>6, <2>1, <2>3, FS_Subset
<1>. QED  BY <1>9

\* The record a request is about to write back.
AtHand(q) ==
  /\ q.phase \in {"idle", "begun", "loaded", "saved"}
  /\ q.phase = "loaded" => \E c \in q.loaded : c.item = Head(q.todo) /\ ~c.saved
RecordsAtHand == \A v \in Reviewer : AtHand(request[v])

LEMMA RecordsAreAtHand == Spec => []RecordsAtHand
<1>1. Init => RecordsAtHand
  BY DEF Init, RecordsAtHand, AtHand, None
<1>2. Open /\ RecordsAtHand /\ [Next]_vars => RecordsAtHand'
  <2>. SUFFICES ASSUME Open, RecordsAtHand, [Next]_vars PROVE RecordsAtHand'
    OBVIOUS
  <2>1. CASE UNCHANGED vars
    BY <2>1 DEF RecordsAtHand, vars
  <2>2. ASSUME NEW v \in Reviewer, NEW q, AtHand(q), request' = [request EXCEPT ![v] = q]
        PROVE  RecordsAtHand'
    BY <2>2 DEF Open, RequestsShaped, RecordsAtHand
  <2>3. ASSUME NEW v \in Reviewer, Finish(v)  PROVE RecordsAtHand'
    BY <2>2, <2>3 DEF Finish, AtHand, None
  <2>4. ASSUME NEW v \in Reviewer, request'[v].phase \in {"begun", "saved"},
               \A u \in Reviewer \ {v} : request'[u] = request[u]
        PROVE  RecordsAtHand'
    BY <2>4 DEF RecordsAtHand, AtHand
  <2>5. ASSUME NEW v \in Reviewer, Begin(v)  PROVE RecordsAtHand'
    <3>0. PICK q \in Requests : request' = [request EXCEPT ![v] =
              IF Recorded(q.items[1], q.key) THEN None
              ELSE [phase |-> "begun", op |-> q.op, items |-> q.items, todo |-> q.items,
                    by |-> q.by, key |-> q.key, expected |-> q.expected, user |-> q.user,
                    number |-> made + 1, loaded |-> {}]]
      BY <2>5 DEF Begin
    <3>1. Finish(v) \/ request'[v].phase = "begun"
      BY <3>0 DEF Finish, Open, RequestsShaped
    <3>2. \A u \in Reviewer \ {v} : request'[u] = request[u]
      BY <2>5 DEF Begin, Open, RequestsShaped
    <3>. QED  BY <2>3, <2>4, <3>1, <3>2
  <2>6. ASSUME NEW v \in Reviewer, StartsOver(v)  PROVE RecordsAtHand'
    <3>1. DOMAIN request[v] = DOMAIN None
      BY DEF Open, RequestsShaped, Shaped
    <3>2. Finish(v) \/ request'[v].phase = "begun"
      BY <2>6, <3>1 DEF StartsOver, Restart, Finish, None, Open, RequestsShaped
    <3>3. \A u \in Reviewer \ {v} : request'[u] = request[u]
      BY <2>6 DEF StartsOver, Open, RequestsShaped
    <3>. QED  BY <2>3, <2>4, <3>2, <3>3
  <2>7. ASSUME NEW v \in Reviewer, Load(v)  PROVE RecordsAtHand'
    <3>. DEFINE q == request[v]
                c == [item |-> Head(q.todo), life |-> item[Head(q.todo)].life,
                      version |-> Version(Head(q.todo)), adds |-> FALSE, saved |-> FALSE]
                r == [q EXCEPT !.phase = "loaded", !.loaded = @ \cup {c}]
    <3>1. DOMAIN q = DOMAIN None
      BY DEF Open, RequestsShaped, Shaped
    <3>2. r.phase = "loaded" /\ r.loaded = q.loaded \cup {c} /\ r.todo = q.todo
      BY <3>1 DEF None
    <3>3. c.item = Head(q.todo) /\ ~c.saved
      OBVIOUS
    <3>4. Finish(v) \/ request' = [request EXCEPT ![v] = r]
      BY <2>7 DEF Load, Finish, Open, RequestsShaped
    <3>. HIDE DEF r, c
    <3>5. AtHand(r)
      BY <3>2, <3>3 DEF AtHand
    <3>. QED  BY <2>2, <2>3, <3>4, <3>5
  <2>8. ASSUME NEW v \in Reviewer, Save(v)  PROVE RecordsAtHand'
    <3>1. DOMAIN request[v] = DOMAIN None
      BY DEF Open, RequestsShaped, Shaped
    <3>2. request'[v].phase \in {"begun", "saved"} /\ \A u \in Reviewer \ {v} : request'[u] = request[u]
      BY <2>8, <3>1 DEF Save, None, Open, RequestsShaped
    <3>. QED  BY <2>4, <3>2
  <2>9. ASSUME NEW v \in Reviewer, Deadlocked(v) \/ RaceLost(v) \/ Retry(v) \/ Commit(v)  PROVE RecordsAtHand'
    BY <2>3, <2>6, <2>9 DEF Deadlocked, RaceLost, Retry, Commit
  <2>. QED  BY <2>1, <2>5, <2>7, <2>8, <2>9 DEF Next, Handle
<1>. QED  BY <1>1, <1>2, InitOpen, NextStaysOpen, PTL DEF Spec

\* A request that can take no step waits for another: the row it is about to
\* write is not one it holds.
LEMMA StuckWaits ==
  ASSUME Open, RecordsAtHand, NEW v \in InProgress, ~MayMove(v)
  PROVE  \E u \in InProgress : Waits(v, u)
<1>. DEFINE q == request[v]
<1>1. v \in Reviewer /\ Shaped(q) /\ AtHand(q) /\ q.phase # "idle"
  BY DEF Open, RequestsShaped, RecordsAtHand, InProgress
<1>2. Retries(v) \/ Loses(v) \/ Wins(v)
  BY DEF Retries, Loses, Wins
<1>3. q.phase = "loaded"
  BY <1>1, <1>2 DEF AtHand, MayMove
<1>4. PICK c \in q.loaded : c.item = Head(q.todo) /\ ~c.saved
  BY <1>1, <1>3 DEF AtHand
<1>5. Writes(q, c) /\ Locked(c.item)
  BY <1>3, <1>4 DEF MayMove, MaySave
<1>6. PICK u \in Reviewer : \E d \in request[u].loaded :
                               d.item = c.item /\ d.saved /\ Writes(request[u], d)
  BY <1>5 DEF Locked
<1>7. u \in InProgress
  BY <1>6 DEF Open, RequestsShaped, Shaped, InProgress
<1>. QED  BY <1>3, <1>4, <1>5, <1>6, <1>7 DEF Waits

\* Whatever the number of people, items and requests, and at either isolation
\* level, the requests in progress never all wait.
THEOREM RequestsNeverAllWait == Spec => []SomeoneProceeds
<1>1. ASSUME Open, FewInProgress, RecordsAtHand  PROVE SomeoneProceeds
  <2>. SUFFICES ASSUME InProgress # {}, \A v \in Reviewer : ~MayMove(v)  PROVE FALSE
    BY DEF SomeoneProceeds, InProgress
  <2>. DEFINE f == [v \in InProgress |-> CHOOSE u \in InProgress : Waits(v, u)]
  <2>1. \A v \in InProgress : f[v] \in InProgress /\ Waits(v, f[v])
    BY <1>1, StuckWaits DEF InProgress
  <2>2. f \in [InProgress -> InProgress]
    BY <2>1
  <2>. HIDE DEF f
  <2>3. PICK C \in SUBSET InProgress :
          /\ C # {} /\ \A u \in C : f[u] \in C
          /\ \A w \in C : \E u \in C : f[u] = w
    BY <1>1, <2>2, CirclesClose DEF FewInProgress
  <2>4. \A u \in C : (\E w \in C : Waits(u, w)) /\ (\E w \in C : Waits(w, u))
    BY <2>1, <2>3
  <2>5. C \in SUBSET Reviewer
    BY DEF InProgress
  <2>6. \A v \in C : Entangled(v)
    BY <2>4, <2>5 DEF Entangled
  <2>. QED  BY <2>3, <2>5, <2>6 DEF MayMove
<1>. QED  BY <1>1, FewAreInProgress, RecordsAreAtHand, InitOpen, NextStaysOpen, PTL DEF Spec
=============================================================================
