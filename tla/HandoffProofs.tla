---------------------------- MODULE HandoffProofs ----------------------------
(***************************************************************************)
(* Proofs about the handoff leases: for any number of leases, sends of a   *)
(* lease, acks, listings, waits, failed writes and reads, expiries and     *)
(* restarts, an ack is seen by whoever asks for it after it was answered.  *)
(***************************************************************************)
EXTENDS Handoff, TLAPS

-----------------------------------------------------------------------------
(* The inductive invariant *)

Acking(a) == ack[a].pc \in {"mark", "archive"}
Acked(l, g) == box[l][g].out \in AckStatuses

LeaseRow == [status : {"none", "pending", "not_required"} \cup AckStatuses, gen : 0..MaxSends]
AckCall == [pc : {"idle", "mark", "archive", "done"},
            lease : Leases \cup {"none"}, status : AckStatuses \cup {"none"},
            seen : 0..MaxSends, left : SUBSET {"in", "out"}, marked : SUBSET Gens]
Listing == [pc : {"idle", "known", "files", "answered", "error"},
            pend : SUBSET Leases, known : SUBSET Leases, failed : SUBSET {"pending", "known"},
            answer : SUBSET Leases, owed : SUBSET Leases, gone : SUBSET Leases]
Waiting == [pc : {"idle", "row", "files", "answered"}, lease : Leases \cup {"none"},
            since : 0..MaxSends, acked : BOOLEAN, down : BOOLEAN,
            answer : AckStatuses \cup {"none", "not_required", "timeout", "error"}]

HandoffShape ==
    /\ box \in [Leases -> [Gens -> Packet]] /\ row \in [Leases -> LeaseRow]
    /\ expired \subseteq Leases \X Gens
    /\ send \in [Leases -> {"idle", "inbox", "row", "audit"}]
    /\ ack \in [Ackers -> AckCall] /\ list \in [Listers -> Listing]
    /\ wait \in [Waiters -> Waiting]
    /\ sent \in [Leases -> 0..MaxSends]
    /\ given \in [Leases -> 0..MaxSends] /\ done \in [Leases -> 0..MaxSends]
    /\ delivered \subseteq Leases /\ persisted \subseteq Leases
    /\ clean \subseteq Leases /\ settled \subseteq Leases

\* Every send that began is in the sender's outbox; an ack that has been to the
\* outboxes, and one that has been answered, left its status on all it knew of.
MarksStay ==
    /\ \A l \in Leases, g \in Gens : g <= sent[l] => box[l][g].out # "absent"
    /\ \A a \in Ackers : Acking(a) =>
          /\ ack[a].lease \in Leases /\ ack[a].status \in AckStatuses
          /\ ack[a].seen <= sent[ack[a].lease]
          /\ ack[a].pc = "archive" => ack[a].left = {}
          /\ "out" \notin ack[a].left =>
                \A g \in Gens : g <= ack[a].seen => Acked(ack[a].lease, g)
    /\ \A l \in Leases : /\ done[l] <= sent[l]
                         /\ \A g \in Gens : g <= done[l] => Acked(l, g)

\* A wait that polled after an ack was answered has the mark of it to read.
WaitsFindMarks ==
    \A w \in Waiters :
        /\ wait[w].pc \in {"row", "files"} =>
              wait[w].lease \in Leases /\ sent[wait[w].lease] > 0
        /\ wait[w].pc = "files" /\ wait[w].acked =>
              \E g \in Gens : g <= sent[wait[w].lease] /\ Acked(wait[w].lease, g)
        /\ wait[w].pc # "answered" => wait[w].answer = "none"
        /\ wait[w].answer \in {"timeout", "error"} => ~wait[w].acked

\* What a send that no ack has touched left in the inbox and in the row.
CleanSendsStand ==
    \A l \in clean :
        /\ sent[l] > 0
        /\ \A a \in Ackers : Acking(a) => ack[a].lease # l
        /\ send[l] \in {"row", "audit"} \/ l \in delivered => box[l][sent[l]].in = "open"
        /\ l \in persisted /\ l \notin Silent =>
              row[l].status = "pending" /\ row[l].gen = sent[l]

SettledIsAcked == \A l \in settled : row[l].status \in AckStatuses

\* What a listing has read, against the store as it is now.
ListStands(x) ==
    /\ list[x].owed \subseteq Owed
    /\ list[x].pc = "known" => "known" \notin list[x].failed
    /\ list[x].pc \in {"known", "files"} =>
          /\ list[x].pend \cap list[x].gone = {}
          /\ \A l \in list[x].gone : row[l].status \in AckStatuses
          /\ "pending" \notin list[x].failed => list[x].owed \cap persisted \subseteq list[x].pend
    /\ list[x].pc = "files" =>
          /\ "known" \notin list[x].failed => list[x].gone \subseteq list[x].known
          /\ "known" \in list[x].failed => list[x].known = list[x].pend
          /\ \A l \in list[x].known \ list[x].pend : row[l].status # "none"
    /\ list[x].pc = "answered" =>
          /\ list[x].failed # {"pending"} =>
                \A l \in list[x].owed :
                   l \in persisted \/ row[l].status = "none" => l \in list[x].answer
          /\ "known" \notin list[x].failed => list[x].gone \cap list[x].answer = {}
ListsStand == \A x \in Listers : ListStands(x)

HandoffInv == /\ HandoffShape /\ MarksStay /\ WaitsFindMarks
              /\ CleanSendsStand /\ SettledIsAcked /\ ListsStand

-----------------------------------------------------------------------------
(* What the steps of the calls keep *)

LEMMA HandoffInitInv == HandoffInit => HandoffInv
<1> SUFFICES ASSUME HandoffInit PROVE HandoffInv
  OBVIOUS
<1> USE HandoffAssumption DEF HandoffInit
<1>1. HandoffShape
  <2>1. ack \in [Ackers -> AckCall]
    BY DEF NoAck, AckCall
  <2>2. list \in [Listers -> Listing]
    BY DEF NoList, Listing
  <2>3. wait \in [Waiters -> Waiting]
    BY DEF NoWait, Waiting
  <2>4. box \in [Leases -> [Gens -> Packet]]
    BY DEF NoPacket, Packet
  <2>5. row \in [Leases -> LeaseRow]
    BY DEF LeaseRow
  <2> QED BY <2>1, <2>2, <2>3, <2>4, <2>5 DEF HandoffShape
<1>2. MarksStay
  BY DEF MarksStay, Acking, NoAck, Acked, Gens
<1>3. WaitsFindMarks
  BY DEF WaitsFindMarks, NoWait
<1>4. CleanSendsStand /\ SettledIsAcked
  BY DEF CleanSendsStand, SettledIsAcked
<1>5. ListsStand
  BY DEF ListsStand, ListStands, NoList
<1> QED BY <1>1, <1>2, <1>3, <1>4, <1>5 DEF HandoffInv

\* What a step must leave alone for waits and acks to find what they found.
LEMMA WaitsStand ==
    ASSUME HandoffInv, UNCHANGED wait, sent' \in [Leases -> 0..MaxSends],
           \A l \in Leases : sent'[l] >= sent[l],
           \A l \in Leases, g \in Gens : g <= sent[l] /\ Acked(l, g) => Acked(l, g)'
    PROVE  WaitsFindMarks'
<1> USE DEF HandoffInv
<1> SUFFICES ASSUME NEW w \in Waiters
             PROVE /\ wait[w].pc \in {"row", "files"} =>
                        wait[w].lease \in Leases /\ sent'[wait[w].lease] > 0
                   /\ wait[w].pc = "files" /\ wait[w].acked =>
                        \E g \in Gens : g <= sent'[wait[w].lease] /\ Acked(wait[w].lease, g)'
                   /\ wait[w].pc # "answered" => wait[w].answer = "none"
                   /\ wait[w].answer \in {"timeout", "error"} => ~wait[w].acked
  BY DEF WaitsFindMarks, Acked
<1>1. wait[w].pc \in {"row", "files"} =>
         wait[w].lease \in Leases /\ sent[wait[w].lease] > 0 /\ sent'[wait[w].lease] > 0
  BY DEF WaitsFindMarks, HandoffShape
<1>2. CASE wait[w].pc = "files" /\ wait[w].acked
  <2>1. PICK g \in Gens : g <= sent[wait[w].lease] /\ Acked(wait[w].lease, g)
    BY <1>2 DEF WaitsFindMarks
  <2>2. Acked(wait[w].lease, g)' /\ g <= sent'[wait[w].lease]
    BY <2>1, <1>1, <1>2 DEF HandoffShape, Gens
  <2> QED BY <2>2, <1>1, <1>2 DEF WaitsFindMarks
<1>3. CASE ~(wait[w].pc = "files" /\ wait[w].acked)
  BY <1>1, <1>3 DEF WaitsFindMarks
<1> QED BY <1>2, <1>3

LEMMA MarksStand ==
    ASSUME HandoffInv, UNCHANGED <<ack, sent, done>>,
           \A l \in Leases, g \in Gens :
              /\ box[l][g].out # "absent" => box'[l][g].out # "absent"
              /\ Acked(l, g) => Acked(l, g)'
    PROVE  MarksStay'
<1> USE DEF HandoffInv
<1>1. \A l \in Leases, g \in Gens : g <= sent'[l] => box'[l][g].out # "absent"
  BY DEF MarksStay
<1>2. ASSUME NEW a \in Ackers, Acking(a)
      PROVE  /\ ack[a].lease \in Leases /\ ack[a].status \in AckStatuses
             /\ ack[a].seen <= sent'[ack[a].lease]
             /\ ack[a].pc = "archive" => ack[a].left = {}
             /\ "out" \notin ack[a].left =>
                   \A g \in Gens : g <= ack[a].seen =>
                      box'[ack[a].lease][g].out \in AckStatuses
  <2>1. /\ ack[a].lease \in Leases /\ ack[a].status \in AckStatuses
        /\ ack[a].seen <= sent'[ack[a].lease]
        /\ ack[a].pc = "archive" => ack[a].left = {}
    BY <1>2 DEF MarksStay
  <2>2. ASSUME "out" \notin ack[a].left, NEW g \in Gens, g <= ack[a].seen
        PROVE  box'[ack[a].lease][g].out \in AckStatuses
    <3>1. Acked(ack[a].lease, g)
      BY <1>2, <2>2 DEF MarksStay
    <3> QED BY <2>1, <3>1 DEF Acked
  <2> QED BY <2>1, <2>2
<1>3. \A l \in Leases : /\ done'[l] <= sent'[l]
                        /\ \A g \in Gens : g <= done'[l] => Acked(l, g)'
  BY DEF MarksStay
<1> QED BY <1>1, <1>2, <1>3 DEF MarksStay, Acking, Acked

\* A listing stands while the leases it answers for do.
LEMMA ListingsStand ==
    ASSUME HandoffInv, list' \in [Listers -> Listing],
           \A x \in Listers :
              /\ list'[x].pc = list[x].pc /\ list'[x].pend = list[x].pend
              /\ list'[x].known = list[x].known /\ list'[x].failed = list[x].failed
              /\ list'[x].answer = list[x].answer
              /\ list'[x].owed \subseteq list[x].owed /\ list'[x].gone \subseteq list[x].gone,
           \A x \in Listers : \A m \in list'[x].owed :
              /\ m \in Owed => m \in Owed'
              /\ m \in persisted' => m \in persisted
              /\ row'[m].status = "none" => row[m].status = "none",
           \A x \in Listers : \A m \in list'[x].gone :
              row[m].status \in AckStatuses => row'[m].status \in AckStatuses,
           \A m \in Leases : row'[m].status = "none" => row[m].status = "none"
    PROVE  ListsStand'
<1> USE DEF HandoffInv
<1> SUFFICES ASSUME NEW x \in Listers PROVE ListStands(x)'
  BY DEF ListsStand
<1>0. list[x] \in Listing /\ list'[x] \in Listing
  BY DEF HandoffShape
<1>1. ListStands(x)
  BY DEF ListsStand
<1>2. list'[x].owed \subseteq Owed'
  BY <1>1 DEF ListStands
<1>3. list'[x].pc = "known" => "known" \notin list'[x].failed
  BY <1>1 DEF ListStands
<1>4. list'[x].pc \in {"known", "files"} =>
          /\ list'[x].pend \cap list'[x].gone = {}
          /\ \A l \in list'[x].gone : row'[l].status \in AckStatuses
          /\ "pending" \notin list'[x].failed =>
                list'[x].owed \cap persisted' \subseteq list'[x].pend
  BY <1>1 DEF ListStands
<1>5. list'[x].pc = "files" =>
          /\ "known" \notin list'[x].failed => list'[x].gone \subseteq list'[x].known
          /\ "known" \in list'[x].failed => list'[x].known = list'[x].pend
          /\ \A l \in list'[x].known \ list'[x].pend : row'[l].status # "none"
  BY <1>0, <1>1 DEF ListStands, Listing
<1>6. list'[x].pc = "answered" =>
          /\ list'[x].failed # {"pending"} =>
                \A l \in list'[x].owed :
                   l \in persisted' \/ row'[l].status = "none" => l \in list'[x].answer
          /\ "known" \notin list'[x].failed => list'[x].gone \cap list'[x].answer = {}
  BY <1>1 DEF ListStands
<1> QED BY <1>2, <1>3, <1>4, <1>5, <1>6 DEF ListStands

\* What a send left stands while no ack, and no other send, touches it.
LEMMA CleanSendsKept ==
    ASSUME HandoffInv, UNCHANGED sent, clean' \subseteq clean,
           \A a \in Ackers : Acking(a)' => \/ Acking(a) /\ ack'[a].lease = ack[a].lease
                                          \/ ack'[a].lease \notin clean',
           \A m \in clean' :
              /\ send'[m] \in {"row", "audit"} \/ m \in delivered' =>
                    \/ send[m] \in {"row", "audit"} \/ m \in delivered
                    \/ box'[m][sent[m]].in = "open"
              /\ box[m][sent[m]].in = "open" => box'[m][sent[m]].in = "open"
              /\ m \in persisted' /\ m \notin Silent =>
                    \/ m \in persisted /\ row'[m] = row[m]
                    \/ row'[m].status = "pending" /\ row'[m].gen = sent[m]
    PROVE  CleanSendsStand'
<1> USE DEF HandoffInv
<1> SUFFICES ASSUME NEW m \in clean'
             PROVE  /\ sent'[m] > 0
                    /\ \A a \in Ackers : Acking(a)' => ack'[a].lease # m
                    /\ send'[m] \in {"row", "audit"} \/ m \in delivered' =>
                          box'[m][sent'[m]].in = "open"
                    /\ m \in persisted' /\ m \notin Silent =>
                          row'[m].status = "pending" /\ row'[m].gen = sent'[m]
  BY DEF CleanSendsStand, Acking
<1>1. /\ sent[m] > 0
      /\ \A a \in Ackers : Acking(a) => ack[a].lease # m
      /\ send[m] \in {"row", "audit"} \/ m \in delivered => box[m][sent[m]].in = "open"
      /\ m \in persisted /\ m \notin Silent =>
            row[m].status = "pending" /\ row[m].gen = sent[m]
  BY DEF CleanSendsStand
<1>2. \A a \in Ackers : Acking(a)' => ack'[a].lease # m
  BY <1>1
<1> QED BY <1>1, <1>2

\* A lease that is sent again, acked or out of date leaves what a listing owes.
LEMMA ListsShed ==
    ASSUME HandoffInv, NEW l \in Leases, list' = Reopened(l) \/ list' = Unowed(l)
    PROVE  /\ list' \in [Listers -> Listing]
           /\ \A x \in Listers :
                 /\ list'[x].pc = list[x].pc /\ list'[x].pend = list[x].pend
                 /\ list'[x].known = list[x].known /\ list'[x].failed = list[x].failed
                 /\ list'[x].answer = list[x].answer
                 /\ list'[x].owed = list[x].owed \ {l}
                 /\ list'[x].gone \subseteq list[x].gone
                 /\ list' = Reopened(l) => l \notin list'[x].gone
<1> USE DEF HandoffInv
<1>1. list \in [Listers -> Listing]
  BY DEF HandoffShape
<1>2. ASSUME NEW x \in Listers, NEW r \in Listing,
             r = [list[x] EXCEPT !.owed = @ \ {l}, !.gone = @ \ {l}]
                \/ r = [list[x] EXCEPT !.owed = @ \ {l}]
      PROVE  /\ r.pc = list[x].pc /\ r.pend = list[x].pend
             /\ r.known = list[x].known /\ r.failed = list[x].failed
             /\ r.answer = list[x].answer /\ r.owed = list[x].owed \ {l}
             /\ r.gone \subseteq list[x].gone
  <2>1. list[x] \in Listing
    BY <1>1
  <2>2. CASE r = [list[x] EXCEPT !.owed = @ \ {l}]
    BY <2>1, <2>2 DEF Listing
  <2>3. CASE r = [list[x] EXCEPT !.owed = @ \ {l}, !.gone = @ \ {l}]
    BY <2>1, <2>3 DEF Listing
  <2> QED BY <1>2, <2>2, <2>3
<1>3. ASSUME NEW x \in Listers
      PROVE  /\ [list[x] EXCEPT !.owed = @ \ {l}, !.gone = @ \ {l}] \in Listing
             /\ [list[x] EXCEPT !.owed = @ \ {l}] \in Listing
             /\ l \notin [list[x] EXCEPT !.owed = @ \ {l}, !.gone = @ \ {l}].gone
  <2>1. list[x] \in Listing
    BY <1>1
  <2> QED BY <2>1 DEF Listing
<1>4. CASE list' = Reopened(l)
  BY <1>2, <1>3, <1>4 DEF Reopened
<1>5. CASE list' = Unowed(l)
  <2>1. list' \in [Listers -> Listing]
    BY <1>3, <1>5 DEF Unowed
  <2>2. ASSUME NEW x \in Listers, list' = Reopened(l)
        PROVE  l \notin list'[x].gone
    BY <1>3, <2>2 DEF Reopened
  <2>3. \A x \in Listers : list'[x] = [list[x] EXCEPT !.owed = @ \ {l}]
    BY <1>5 DEF Unowed
  <2>4. ASSUME NEW x \in Listers
        PROVE  /\ list'[x].pc = list[x].pc /\ list'[x].pend = list[x].pend
               /\ list'[x].known = list[x].known /\ list'[x].failed = list[x].failed
               /\ list'[x].answer = list[x].answer
               /\ list'[x].owed = list[x].owed \ {l}
               /\ list'[x].gone \subseteq list[x].gone
    <3>1. list'[x] \in Listing /\ list'[x] = [list[x] EXCEPT !.owed = @ \ {l}]
      BY <2>1, <2>3
    <3> QED BY <1>2, <3>1
  <2> QED BY <2>1, <2>2, <2>4
<1> QED BY <1>4, <1>5

LEMMA SendOutboxKeeps ==
    ASSUME HandoffInv, NEW l \in Leases, SendOutbox(l) PROVE HandoffInv'
<1> USE HandoffAssumption DEF HandoffInv, SendOutbox
<1> DEFINE k == sent[l] + 1
<1>1. k \in Gens /\ sent[l] \in 0..MaxSends
  BY DEF HandoffShape, Gens
<1>2. /\ box' \in [Leases -> [Gens -> Packet]]
      /\ \A m \in Leases, g \in Gens :
            /\ box'[m][g].in = box[m][g].in
            /\ box'[m][g].out = IF m = l /\ g = k THEN "open" ELSE box[m][g].out
  <2>1. box \in [Leases -> [Gens -> Packet]] /\ box' = [box EXCEPT ![l][k].out = "open"]
    BY DEF HandoffShape
  <2>2. box'[l] = [box[l] EXCEPT ![k].out = "open"]
    BY <2>1
  <2>3. [box[l][k] EXCEPT !.out = "open"] \in Packet
    <3>1. box[l][k] \in Packet
      BY <1>1, <2>1
    <3> QED BY <3>1 DEF Packet
  <2>4. box'[l] \in [Gens -> Packet]
    BY <1>1, <2>1, <2>2, <2>3
  <2>5. box' \in [Leases -> [Gens -> Packet]]
    BY <2>1, <2>2, <2>4
  <2>6. \A m \in Leases : m # l => box'[m] = box[m]
    BY <2>1
  <2>7. ASSUME NEW g \in Gens
        PROVE  /\ box'[l][g].in = box[l][g].in
               /\ box'[l][g].out = IF g = k THEN "open" ELSE box[l][g].out
    <3>1. box[l][g] \in Packet
      BY <2>1
    <3> QED BY <1>1, <2>1, <2>2, <3>1 DEF Packet
  <2> QED BY <2>5, <2>6, <2>7
<1>3. /\ sent' \in [Leases -> 0..MaxSends]
      /\ \A m \in Leases : sent'[m] = IF m = l THEN k ELSE sent[m]
  BY <1>1 DEF HandoffShape, Gens
<1>4. list' \in [Listers -> Listing]
  BY ListsShed
<1> HIDE DEF k
<1>5. HandoffShape'
  BY <1>2, <1>3, <1>4 DEF HandoffShape
<1>6. MarksStay'
  <2>1. ASSUME NEW m \in Leases, NEW g \in Gens
        PROVE  g <= sent[m] /\ Acked(m, g) => box'[m][g].out \in AckStatuses
    BY <1>1, <1>2, <2>1 DEF Acked, HandoffShape, k, Gens
  <2>2. ASSUME NEW m \in Leases, NEW g \in Gens, g <= sent'[m]
        PROVE  box'[m][g].out # "absent"
    BY <1>1, <1>2, <1>3, <2>2 DEF MarksStay, HandoffShape, k, Gens
  <2>3. ASSUME NEW a \in Ackers, Acking(a)
        PROVE  /\ ack[a].lease \in Leases /\ ack[a].status \in AckStatuses
               /\ ack[a].seen <= sent[ack[a].lease]
               /\ ack[a].seen <= sent'[ack[a].lease]
               /\ ack[a].pc = "archive" => ack[a].left = {}
    <3>1. /\ ack[a].lease \in Leases /\ ack[a].status \in AckStatuses
          /\ ack[a].seen <= sent[ack[a].lease]
          /\ ack[a].pc = "archive" => ack[a].left = {}
      BY <2>3 DEF MarksStay
    <3> QED BY <1>1, <1>3, <3>1 DEF HandoffShape, AckCall, k
  <2>4. ASSUME NEW a \in Ackers, Acking(a), "out" \notin ack[a].left,
               NEW g \in Gens, g <= ack[a].seen
        PROVE  box'[ack[a].lease][g].out \in AckStatuses
    <3>1. Acked(ack[a].lease, g)
      BY <2>4 DEF MarksStay
    <3>2. ack[a].lease \in Leases /\ g <= sent[ack[a].lease]
      BY <2>3, <2>4 DEF HandoffShape, AckCall, Gens
    <3> QED BY <2>1, <3>1, <3>2
  <2>5. ASSUME NEW m \in Leases
        PROVE  /\ done[m] <= sent'[m]
               /\ \A g \in Gens : g <= done[m] => box'[m][g].out \in AckStatuses
    <3>1. done[m] <= sent[m] /\ \A g \in Gens : g <= done[m] => Acked(m, g)
      BY DEF MarksStay
    <3>2. done[m] \in Nat /\ sent[m] \in Nat
      BY DEF HandoffShape
    <3> QED BY <1>1, <1>3, <2>1, <3>1, <3>2 DEF k, Gens
  <2> QED BY <2>2, <2>3, <2>4, <2>5 DEF MarksStay, Acking, Acked
<1>7. WaitsFindMarks'
  <2>1. \A m \in Leases : sent'[m] >= sent[m]
    BY <1>1, <1>3 DEF HandoffShape, k
  <2>2. \A m \in Leases, g \in Gens : g <= sent[m] /\ Acked(m, g) => Acked(m, g)'
    BY <1>1, <1>2 DEF Acked, HandoffShape, k, Gens
  <2> QED BY <1>3, <2>1, <2>2, WaitsStand
<1>8. CleanSendsStand'
  <2> SUFFICES ASSUME NEW m \in clean'
               PROVE  /\ sent'[m] > 0
                      /\ \A a \in Ackers : Acking(a) => ack[a].lease # m
                      /\ send'[m] \in {"row", "audit"} \/ m \in delivered' =>
                            box'[m][sent'[m]].in = "open"
                      /\ m \in persisted' /\ m \notin Silent =>
                            row[m].status = "pending" /\ row[m].gen = sent'[m]
    BY DEF CleanSendsStand, Acking
  <2>1. CASE m = l
    <3>1. sent'[l] > 0 /\ send'[l] = "inbox" /\ l \notin delivered' /\ l \notin persisted'
      BY <1>1, <1>3 DEF HandoffShape, k
    <3>2. \A a \in Ackers : ack[a].lease # l
      BY <2>1
    <3> QED BY <2>1, <3>1, <3>2
  <2>2. CASE m # l
    <3>1. /\ m \in clean /\ m \in Leases /\ sent'[m] = sent[m] /\ send'[m] = send[m]
          /\ m \in delivered' <=> m \in delivered
          /\ m \in persisted' <=> m \in persisted
      BY <1>3, <2>2 DEF HandoffShape
    <3>2. sent[m] > 0 /\ sent[m] \in Gens
      BY <3>1 DEF CleanSendsStand, HandoffShape, Gens
    <3>3. box'[m][sent[m]].in = box[m][sent[m]].in
      BY <1>2, <3>1, <3>2
    <3> QED BY <3>1, <3>2, <3>3 DEF CleanSendsStand
  <2> QED BY <2>1, <2>2
<1>9. SettledIsAcked'
  BY DEF SettledIsAcked
<1>10. ListsStand'
  <2>1. \A x \in Listers : /\ l \notin list'[x].owed
                           /\ list'[x].owed \subseteq list[x].owed
                           /\ list'[x].gone \subseteq list[x].gone
                           /\ list'[x].pc = list[x].pc /\ list'[x].pend = list[x].pend
                           /\ list'[x].known = list[x].known /\ list'[x].failed = list[x].failed
                           /\ list'[x].answer = list[x].answer
    BY ListsShed
  <2>2. \A m \in Owed : m # l => m \in Owed'
    BY <1>3 DEF Owed, Current, HandoffShape
  <2>3. persisted' \subseteq persisted /\ row' = row
    OBVIOUS
  <2> QED BY <1>4, <2>1, <2>2, <2>3, ListingsStand
<1> QED BY <1>5, <1>6, <1>7, <1>8, <1>9, <1>10

LEMMA SendInboxKeeps ==
    ASSUME HandoffInv, NEW l \in Leases, SendInbox(l) PROVE HandoffInv'
<1> USE HandoffAssumption DEF HandoffInv, SendInbox
<1>1. /\ box' \in [Leases -> [Gens -> Packet]]
      /\ \A m \in Leases, g \in Gens :
            /\ box'[m][g].out = box[m][g].out
            /\ box'[m][g].in = IF m = l /\ g = sent[l] THEN "open" ELSE box[m][g].in
  <2>1. box \in [Leases -> [Gens -> Packet]] /\ box' = [box EXCEPT ![l][sent[l]].in = "open"]
    BY DEF HandoffShape
  <2>2. box'[l] = [box[l] EXCEPT ![sent[l]].in = "open"]
    BY <2>1
  <2>3. sent[l] \in Gens => [box[l][sent[l]] EXCEPT !.in = "open"] \in Packet
    <3>1. sent[l] \in Gens => box[l][sent[l]] \in Packet
      BY <2>1
    <3> QED BY <3>1 DEF Packet
  <2>4. box'[l] \in [Gens -> Packet]
    <3>1. CASE sent[l] \in Gens
      BY <2>1, <2>2, <2>3, <3>1
    <3>2. CASE sent[l] \notin Gens
      <4>1. box[l] \in [Gens -> Packet]
        BY <2>1
      <4>2. box'[l] = [g \in Gens |-> IF g = sent[l] THEN [box[l][g] EXCEPT !.in = "open"]
                                      ELSE box[l][g]]
        BY <2>2, <4>1
      <4> QED BY <3>2, <4>1, <4>2
    <3> QED BY <3>1, <3>2
  <2>5. box' \in [Leases -> [Gens -> Packet]]
    BY <2>1, <2>2, <2>4
  <2>6. \A m \in Leases : m # l => box'[m] = box[m]
    BY <2>1
  <2>7. ASSUME NEW g \in Gens
        PROVE  /\ box'[l][g].out = box[l][g].out
               /\ box'[l][g].in = IF g = sent[l] THEN "open" ELSE box[l][g].in
    <3>1. box[l][g] \in Packet
      BY <2>1
    <3> QED BY <2>1, <2>2, <3>1 DEF Packet
  <2> QED BY <2>5, <2>6, <2>7
<1>2. HandoffShape'
  <2>1. send' \in [Leases -> {"idle", "inbox", "row", "audit"}]
    BY DEF HandoffShape
  <2> QED BY <1>1, <2>1 DEF HandoffShape, history
<1>3. \A m \in Leases, g \in Gens : Acked(m, g)' <=> Acked(m, g)
  BY <1>1 DEF Acked
<1>4. MarksStay'
  BY <1>1, <1>3, MarksStand DEF history
<1>5. WaitsFindMarks'
  <2>1. sent' \in [Leases -> 0..MaxSends] /\ \A m \in Leases : sent'[m] >= sent[m]
    BY DEF HandoffShape
  <2> QED BY <1>3, <2>1, WaitsStand
<1>6. CleanSendsStand'
  <2>1. ASSUME NEW m \in clean
        PROVE  /\ send'[m] \in {"row", "audit"} \/ m \in delivered =>
                     \/ send[m] \in {"row", "audit"} \/ m \in delivered
                     \/ box'[m][sent[m]].in = "open"
               /\ box[m][sent[m]].in = "open" => box'[m][sent[m]].in = "open"
    <3>1. m \in Leases /\ sent[m] \in Gens
      BY DEF HandoffShape, CleanSendsStand, Gens
    <3>2. m # l => send'[m] = send[m]
      BY <3>1 DEF HandoffShape
    <3> QED BY <1>1, <3>1, <3>2
  <2>2. UNCHANGED <<ack, sent, clean, row, delivered, persisted>>
    BY DEF history
  <2> QED BY <2>1, <2>2, CleanSendsKept DEF Acking
<1>7. SettledIsAcked'
  BY DEF SettledIsAcked, history
<1>8. ListsStand'
  <2>1. UNCHANGED <<list, row, persisted, delivered, clean, expired, sent>>
    BY DEF history
  <2>2. Owed' = Owed
    BY <2>1 DEF Owed, Current
  <2>3. list' \in [Listers -> Listing]
    BY DEF HandoffShape
  <2> QED BY <2>1, <2>2, <2>3, ListingsStand
<1> QED BY <1>2, <1>4, <1>5, <1>6, <1>7, <1>8

LEMMA StoreLeaseKeeps ==
    ASSUME HandoffInv, NEW l \in Leases, StoreLease(l) PROVE HandoffInv'
<1> USE HandoffAssumption DEF HandoffInv, StoreLease
<1>1. /\ row' \in [Leases -> LeaseRow]
      /\ \A m \in Leases : m # l => row'[m] = row[m]
      /\ row'[l].status = IF l \in Silent THEN "not_required" ELSE "pending"
      /\ row'[l].gen = sent[l]
  BY DEF HandoffShape, LeaseRow
<1>2. /\ send' \in [Leases -> {"idle", "inbox", "row", "audit"}]
      /\ \A m \in Leases : m # l => send'[m] = send[m]
  BY DEF HandoffShape
<1>3. list' \in [Listers -> Listing]
  BY ListsShed
<1>4. HandoffShape'
  BY <1>1, <1>2, <1>3 DEF HandoffShape
<1>5. \A m \in Leases, g \in Gens : Acked(m, g)' <=> Acked(m, g)
  BY DEF Acked
<1>6. MarksStay'
  BY <1>5, MarksStand
<1>7. WaitsFindMarks'
  <2>1. sent' \in [Leases -> 0..MaxSends] /\ \A m \in Leases : sent'[m] >= sent[m]
    BY DEF HandoffShape
  <2> QED BY <1>5, <2>1, WaitsStand
<1>8. CleanSendsStand'
  <2>1. ASSUME NEW m \in clean
        PROVE  /\ send'[m] \in {"row", "audit"} \/ m \in delivered =>
                     send[m] \in {"row", "audit"} \/ m \in delivered
               /\ m \in persisted' /\ m \notin Silent =>
                     \/ m \in persisted /\ row'[m] = row[m]
                     \/ row'[m].status = "pending" /\ row'[m].gen = sent[m]
    <3>1. m \in Leases
      BY DEF HandoffShape
    <3> QED BY <1>1, <1>2, <3>1
  <2> QED BY <2>1, CleanSendsKept DEF Acking
<1>9. SettledIsAcked'
  <2>1. \A m \in settled' : m \in settled /\ m \in Leases /\ m # l
    BY DEF HandoffShape
  <2> QED BY <1>1, <2>1 DEF SettledIsAcked
<1>10. ListsStand'
  <2>1. \A x \in Listers :
           /\ list'[x].pc = list[x].pc /\ list'[x].pend = list[x].pend
           /\ list'[x].known = list[x].known /\ list'[x].failed = list[x].failed
           /\ list'[x].answer = list[x].answer
           /\ list'[x].owed = list[x].owed \ {l}
           /\ list'[x].gone \subseteq list[x].gone /\ l \notin list'[x].gone
    BY ListsShed
  <2>2. \A x \in Listers : \A m \in list'[x].owed \cup list'[x].gone : m \in Leases /\ m # l
    BY <1>3, <2>1 DEF Listing
  <2>3. Owed' = Owed
    BY DEF Owed, Current
  <2>4. \A x \in Listers : \A m \in list'[x].owed :
           /\ m \in Owed => m \in Owed'
           /\ m \in persisted' => m \in persisted
           /\ row'[m].status = "none" => row[m].status = "none"
    BY <1>1, <2>2, <2>3
  <2>5. \A x \in Listers : \A m \in list'[x].gone :
           row[m].status \in AckStatuses => row'[m].status \in AckStatuses
    BY <1>1, <2>2
  <2>6. \A m \in Leases : row'[m].status = "none" => row[m].status = "none"
    BY <1>1
  <2> QED BY <1>3, <2>1, <2>4, <2>5, <2>6, ListingsStand
<1> QED BY <1>4, <1>6, <1>7, <1>8, <1>9, <1>10

LEMMA SendStepsKeep ==
    ASSUME HandoffInv, NEW l \in Leases,
           StoreLeaseFails(l) \/ SendEnds(l) \/ SendFails(l)
    PROVE  HandoffInv'
<1> USE HandoffAssumption DEF HandoffInv
<1>1. /\ UNCHANGED <<box, row, expired, ack, list, wait, sent, persisted, clean,
                     settled, given, done>>
      /\ delivered' \subseteq Leases /\ delivered \subseteq delivered'
      /\ send' \in [Leases -> {"idle", "inbox", "row", "audit"}]
      /\ \A m \in Leases : send'[m] \in {"row", "audit"} \/ m \in delivered' =>
                             send[m] \in {"row", "audit"} \/ m \in delivered
  <2>1. CASE StoreLeaseFails(l)
    BY <2>1 DEF StoreLeaseFails, HandoffShape, handoffStore, history
  <2>2. CASE SendEnds(l)
    BY <2>2 DEF SendEnds, HandoffShape, handoffStore
  <2>3. CASE SendFails(l)
    BY <2>3 DEF SendFails, HandoffShape, handoffStore, history
  <2> QED BY <2>1, <2>2, <2>3
<1>2. HandoffShape'
  BY <1>1 DEF HandoffShape
<1>3. \A m \in Leases, g \in Gens : Acked(m, g)' <=> Acked(m, g)
  BY <1>1 DEF Acked
<1>4. MarksStay'
  BY <1>1, <1>3, MarksStand
<1>5. WaitsFindMarks'
  <2>1. sent' \in [Leases -> 0..MaxSends] /\ \A m \in Leases : sent'[m] >= sent[m]
    BY <1>1 DEF HandoffShape
  <2> QED BY <1>1, <1>3, <2>1, WaitsStand
<1>6. CleanSendsStand'
  <2>1. clean \subseteq Leases
    BY DEF HandoffShape
  <2> QED BY <1>1, <2>1, CleanSendsKept DEF Acking
<1>7. SettledIsAcked'
  BY <1>1 DEF SettledIsAcked
<1>8. ListsStand'
  <2>1. Owed \subseteq Owed'
    BY <1>1 DEF Owed, Current
  <2>2. list' \in [Listers -> Listing]
    BY <1>1 DEF HandoffShape
  <2> QED BY <1>1, <2>1, <2>2, ListingsStand
<1> QED BY <1>2, <1>4, <1>5, <1>6, <1>7, <1>8

LEMMA ExpireKeeps ==
    ASSUME HandoffInv, NEW l \in Leases, Expire(l) PROVE HandoffInv'
<1> USE HandoffAssumption DEF HandoffInv
<1>1. UNCHANGED <<box, row, send, ack, wait, sent, delivered, persisted, clean,
                  settled, given, done>>
  BY DEF Expire, history
<1>2. PICK g \in 1..sent[l] : expired' = expired \cup {<<l, g>>}
  BY DEF Expire
<1>3. list' = Unowed(l)
  BY DEF Expire
<1>4. list' \in [Listers -> Listing]
  BY <1>3, ListsShed
<1>5. HandoffShape'
  <2>1. g \in Gens
    BY <1>2 DEF HandoffShape, Gens
  <2> QED BY <1>1, <1>2, <1>4, <2>1 DEF HandoffShape
<1>6. \A m \in Leases, n \in Gens : Acked(m, n)' <=> Acked(m, n)
  BY <1>1 DEF Acked
<1>7. MarksStay'
  BY <1>1, <1>6, MarksStand
<1>8. WaitsFindMarks'
  <2>1. sent' \in [Leases -> 0..MaxSends] /\ \A m \in Leases : sent'[m] >= sent[m]
    BY <1>1 DEF HandoffShape
  <2> QED BY <1>1, <1>6, <2>1, WaitsStand
<1>9. CleanSendsStand'
  BY <1>1, CleanSendsKept DEF Acking
<1>10. SettledIsAcked'
  BY <1>1 DEF SettledIsAcked
<1>11. ListsStand'
  <2>1. \A x \in Listers :
           /\ list'[x].pc = list[x].pc /\ list'[x].pend = list[x].pend
           /\ list'[x].known = list[x].known /\ list'[x].failed = list[x].failed
           /\ list'[x].answer = list[x].answer
           /\ list'[x].owed = list[x].owed \ {l} /\ list'[x].gone \subseteq list[x].gone
    BY <1>3, ListsShed
  <2>2. \A m \in Owed : m # l => m \in Owed'
    BY <1>1, <1>2 DEF Owed, Current
  <2> QED BY <1>1, <1>4, <2>1, <2>2, ListingsStand
<1> QED BY <1>5, <1>7, <1>8, <1>9, <1>10, <1>11

LEMMA AckBeginKeeps ==
    ASSUME HandoffInv, NEW a \in Ackers, NEW l \in Leases, NEW s \in AckStatuses,
           AckBegin(a, l, s)
    PROVE  HandoffInv'
<1> USE HandoffAssumption DEF HandoffInv
<1>1. UNCHANGED <<box, row, expired, send, wait, sent, delivered, persisted, settled, done>>
  BY DEF AckBegin, handoffStore
<1>2. /\ ack'[a] = [pc |-> "mark", lease |-> l, status |-> s, seen |-> sent[l],
                    left |-> {"out"} \cup (IF l \in Hidden THEN {} ELSE {"in"}),
                    marked |-> {}]
      /\ ack' \in [Ackers -> AckCall]
      /\ \A b \in Ackers : b # a => ack'[b] = ack[b]
  <2>1. /\ ack \in [Ackers -> AckCall] /\ sent[l] \in 0..MaxSends
        /\ ack' = [ack EXCEPT ![a] = [pc |-> "mark", lease |-> l, status |-> s,
                     seen |-> sent[l],
                     left |-> {"out"} \cup (IF l \in Hidden THEN {} ELSE {"in"}),
                     marked |-> {}]]
    BY DEF HandoffShape, AckBegin
  <2>2. [pc |-> "mark", lease |-> l, status |-> s, seen |-> sent[l],
         left |-> {"out"} \cup (IF l \in Hidden THEN {} ELSE {"in"}), marked |-> {}]
           \in AckCall
    BY <2>1 DEF AckCall
  <2> QED BY <2>1, <2>2
<1>3. clean' = clean \ {l} /\ list' = Unowed(l) /\ list' \in [Listers -> Listing]
  BY ListsShed DEF AckBegin
<1>4. HandoffShape'
  <2>1. given' \in [Leases -> 0..MaxSends]
    BY DEF HandoffShape, AckBegin, Larger
  <2> QED BY <1>1, <1>2, <1>3, <2>1 DEF HandoffShape
<1>5. \A m \in Leases, g \in Gens : Acked(m, g)' <=> Acked(m, g)
  BY <1>1 DEF Acked
<1>6. MarksStay'
  <2>1. /\ ack'[a].lease \in Leases /\ ack'[a].status \in AckStatuses
        /\ ack'[a].seen <= sent[ack'[a].lease]
        /\ ack'[a].pc # "archive" /\ "out" \in ack'[a].left
    BY <1>2 DEF HandoffShape
  <2>2. ASSUME NEW b \in Ackers, b # a, Acking(b)'
        PROVE  /\ ack'[b].lease \in Leases /\ ack'[b].status \in AckStatuses
               /\ ack'[b].seen <= sent[ack'[b].lease]
               /\ ack'[b].pc = "archive" => ack'[b].left = {}
               /\ "out" \notin ack'[b].left =>
                     \A g \in Gens : g <= ack'[b].seen =>
                        box[ack'[b].lease][g].out \in AckStatuses
    BY <1>2, <2>2 DEF MarksStay, Acking, Acked
  <2>3. /\ \A m \in Leases, g \in Gens : g <= sent[m] => box[m][g].out # "absent"
        /\ \A m \in Leases : /\ done[m] <= sent[m]
                             /\ \A g \in Gens : g <= done[m] => Acked(m, g)
    BY DEF MarksStay
  <2> QED BY <1>1, <2>1, <2>2, <2>3 DEF MarksStay, Acked, Acking
<1>7. WaitsFindMarks'
  <2>1. sent' \in [Leases -> 0..MaxSends] /\ \A m \in Leases : sent'[m] >= sent[m]
    BY <1>1 DEF HandoffShape
  <2> QED BY <1>1, <1>5, <2>1, WaitsStand
<1>8. CleanSendsStand'
  <2>1. \A b \in Ackers : Acking(b)' => \/ Acking(b) /\ ack'[b].lease = ack[b].lease
                                        \/ ack'[b].lease \notin clean'
    BY <1>2, <1>3 DEF Acking
  <2> QED BY <1>1, <1>3, <2>1, CleanSendsKept
<1>9. SettledIsAcked'
  BY <1>1 DEF SettledIsAcked
<1>10. ListsStand'
  <2>1. \A x \in Listers :
           /\ list'[x].pc = list[x].pc /\ list'[x].pend = list[x].pend
           /\ list'[x].known = list[x].known /\ list'[x].failed = list[x].failed
           /\ list'[x].answer = list[x].answer
           /\ list'[x].owed = list[x].owed \ {l} /\ list'[x].gone \subseteq list[x].gone
    BY <1>3, ListsShed
  <2>2. \A m \in Owed : m # l => m \in Owed'
    BY <1>1, <1>3 DEF Owed, Current
  <2> QED BY <1>1, <1>3, <2>1, <2>2, ListingsStand
<1> QED BY <1>4, <1>6, <1>7, <1>8, <1>9, <1>10

\* An ack that marks the outbox marks every send it knew of.
LEMMA AckMarkOutboxKeeps ==
    ASSUME HandoffInv, NEW a \in Ackers, AckMarkOutbox(a) PROVE HandoffInv'
<1> USE HandoffAssumption DEF HandoffInv
<1> DEFINE l == ack[a].lease
           s == ack[a].status
<1>1. /\ Acking(a) /\ ack[a].pc = "mark"
      /\ l \in Leases /\ s \in AckStatuses /\ ack[a].seen \in 0..MaxSends
      /\ ack[a].seen <= sent[l] /\ ack[a] \in AckCall
  BY DEF AckMarkOutbox, Acking, MarksStay, HandoffShape, AckCall
<1>2. UNCHANGED <<row, expired, send, list, wait, sent, delivered, persisted, clean,
                  settled, given, done>>
  BY DEF AckMarkOutbox, history
<1>3. /\ ack' \in [Ackers -> AckCall]
      /\ \A b \in Ackers : b # a => ack'[b] = ack[b]
      /\ ack'[a] = [ack[a] EXCEPT !.left = @ \ {"out"}]
  <2>1. ack \in [Ackers -> AckCall] /\ ack' = [ack EXCEPT ![a].left = @ \ {"out"}]
    BY DEF HandoffShape, AckMarkOutbox
  <2>2. [ack[a] EXCEPT !.left = @ \ {"out"}] \in AckCall
    BY <1>1 DEF AckCall
  <2> QED BY <2>1, <2>2
<1>4. /\ ack'[a].pc = "mark" /\ ack'[a].lease = l /\ ack'[a].status = s
      /\ ack'[a].seen = ack[a].seen
  BY <1>1, <1>3 DEF AckCall
<1>5. /\ box' \in [Leases -> [Gens -> Packet]]
      /\ \A m \in Leases, g \in Gens :
            /\ box'[m][g].in = box[m][g].in
            /\ box'[m][g].out = IF m = l /\ box[m][g].out # "absent" THEN s
                                ELSE box[m][g].out
  <2>1. /\ box \in [Leases -> [Gens -> Packet]]
        /\ box' = [box EXCEPT ![l] = [g \in Gens |->
              IF box[l][g].out = "absent" THEN box[l][g] ELSE [box[l][g] EXCEPT !.out = s]]]
    BY DEF HandoffShape, AckMarkOutbox
  <2>2. box'[l] = [g \in Gens |->
              IF box[l][g].out = "absent" THEN box[l][g] ELSE [box[l][g] EXCEPT !.out = s]]
    BY <1>1, <2>1
  <2>3. ASSUME NEW g \in Gens
        PROVE  [box[l][g] EXCEPT !.out = s] \in Packet /\ box[l][g] \in Packet
    <3>1. box[l][g] \in Packet
      BY <1>1, <2>1
    <3> QED BY <1>1, <3>1 DEF Packet
  <2> HIDE DEF l, s
  <2>4. box'[l] \in [Gens -> Packet]
    BY <2>2, <2>3
  <2>5. box' \in [Leases -> [Gens -> Packet]]
    BY <2>1, <2>2, <2>4
  <2>6. \A m \in Leases : m # l => box'[m] = box[m]
    BY <2>1
  <2>7. ASSUME NEW g \in Gens
        PROVE  /\ box'[l][g].in = box[l][g].in
               /\ box'[l][g].out = IF box[l][g].out # "absent" THEN s ELSE box[l][g].out
    <3>1. box[l][g] \in Packet
      BY <2>3
    <3> QED BY <2>2, <3>1 DEF Packet
  <2> QED BY <2>5, <2>6, <2>7
<1> HIDE DEF l, s
<1>6. HandoffShape'
  BY <1>2, <1>3, <1>5 DEF HandoffShape
<1>7. \A m \in Leases, g \in Gens : Acked(m, g) => Acked(m, g)'
  BY <1>1, <1>5 DEF Acked
<1>8. MarksStay'
  <2>1. \A m \in Leases, g \in Gens : g <= sent[m] => box'[m][g].out # "absent"
    BY <1>1, <1>5 DEF MarksStay
  <2>2. ASSUME NEW g \in Gens, g <= ack[a].seen
        PROVE  box'[l][g].out \in AckStatuses
    <3>1. g <= sent[l]
      BY <1>1, <2>2 DEF HandoffShape, Gens
    <3>2. box[l][g].out # "absent"
      BY <1>1, <3>1 DEF MarksStay
    <3> QED BY <1>1, <1>5, <3>2
  <2>3. ASSUME NEW b \in Ackers, b # a, Acking(b)'
        PROVE  /\ ack'[b].lease \in Leases /\ ack'[b].status \in AckStatuses
               /\ ack'[b].seen <= sent[ack'[b].lease]
               /\ ack'[b].pc = "archive" => ack'[b].left = {}
               /\ "out" \notin ack'[b].left =>
                     \A g \in Gens : g <= ack'[b].seen =>
                        box'[ack'[b].lease][g].out \in AckStatuses
    <3>1. ack'[b] = ack[b] /\ Acking(b)
      BY <1>3, <2>3 DEF Acking
    <3>2. ack[b].lease \in Leases
      BY <3>1 DEF MarksStay
    <3>3. \A g \in Gens : Acked(ack[b].lease, g) => box'[ack[b].lease][g].out \in AckStatuses
      BY <1>7, <3>2 DEF Acked
    <3> QED BY <3>1, <3>3 DEF MarksStay
  <2>4. \A m \in Leases : /\ done[m] <= sent[m]
                          /\ \A g \in Gens : g <= done[m] => box'[m][g].out \in AckStatuses
    BY <1>7 DEF MarksStay, Acked
  <2> QED BY <1>1, <1>2, <1>4, <2>1, <2>2, <2>3, <2>4 DEF MarksStay, Acked, Acking
<1>9. WaitsFindMarks'
  <2>1. sent' \in [Leases -> 0..MaxSends] /\ \A m \in Leases : sent'[m] >= sent[m]
    BY <1>2 DEF HandoffShape
  <2> QED BY <1>2, <1>7, <2>1, WaitsStand
<1>10. CleanSendsStand'
  <2>1. \A b \in Ackers : Acking(b)' => Acking(b) /\ ack'[b].lease = ack[b].lease
    BY <1>1, <1>3, <1>4 DEF Acking, l
  <2>2. \A m \in clean : box'[m][sent[m]].in = box[m][sent[m]].in
    <3>1. \A m \in clean : m \in Leases /\ sent[m] \in Gens
      BY DEF CleanSendsStand, HandoffShape, Gens
    <3> QED BY <1>5, <3>1
  <2> QED BY <1>2, <2>1, <2>2, CleanSendsKept
<1>11. SettledIsAcked'
  BY <1>2 DEF SettledIsAcked
<1>12. ListsStand'
  <2>1. Owed' = Owed
    BY <1>2 DEF Owed, Current
  <2>2. list' \in [Listers -> Listing]
    BY <1>2 DEF HandoffShape
  <2> QED BY <1>2, <2>1, <2>2, ListingsStand
<1> QED BY <1>6, <1>8, <1>9, <1>10, <1>11, <1>12

\* An ack that marks the inbox touches the packets of its own lease only.
LEMMA AckMarkInboxKeeps ==
    ASSUME HandoffInv, NEW a \in Ackers, AckMarkInbox(a) PROVE HandoffInv'
<1> USE HandoffAssumption DEF HandoffInv
<1> DEFINE l == ack[a].lease
           s == ack[a].status
<1>1. /\ Acking(a) /\ ack[a].pc = "mark"
      /\ l \in Leases /\ s \in AckStatuses /\ ack[a] \in AckCall
  BY DEF AckMarkInbox, Acking, MarksStay, HandoffShape
<1>2. UNCHANGED <<row, expired, send, list, wait, sent, delivered, persisted, clean,
                  settled, given, done>>
  BY DEF AckMarkInbox, history
<1>3. /\ ack' \in [Ackers -> AckCall]
      /\ \A b \in Ackers : /\ ack'[b].pc = ack[b].pc /\ ack'[b].lease = ack[b].lease
                           /\ ack'[b].status = ack[b].status /\ ack'[b].seen = ack[b].seen
                           /\ "out" \in ack'[b].left <=> "out" \in ack[b].left
                           /\ ack'[b].left \subseteq ack[b].left
  <2>1. /\ ack \in [Ackers -> AckCall]
        /\ ack' = [ack EXCEPT ![a].left = @ \ {"in"}, ![a].marked = Live(l)]
    BY DEF HandoffShape, AckMarkInbox
  <2>2. Live(l) \in SUBSET Gens
    BY DEF Live
  <2>3. ack'[a] = [ack[a] EXCEPT !.left = @ \ {"in"}, !.marked = Live(l)]
    BY <2>1
  <2> HIDE DEF l, s
  <2>4. ack'[a] \in AckCall
    BY <1>1, <2>2, <2>3 DEF AckCall
  <2>5. \A b \in Ackers : b # a => ack'[b] = ack[b]
    BY <2>1
  <2>6. ack' \in [Ackers -> AckCall]
    BY <2>1, <2>4, <2>5
  <2>7. /\ ack'[a].pc = ack[a].pc /\ ack'[a].lease = ack[a].lease
        /\ ack'[a].status = ack[a].status /\ ack'[a].seen = ack[a].seen
        /\ ack'[a].left = ack[a].left \ {"in"}
    BY <1>1, <2>3 DEF AckCall
  <2> QED BY <2>5, <2>6, <2>7
<1>4. /\ box' \in [Leases -> [Gens -> Packet]]
      /\ \A m \in Leases, g \in Gens :
            /\ box'[m][g].out = box[m][g].out
            /\ m # l => box'[m][g].in = box[m][g].in
  <2>1. /\ box \in [Leases -> [Gens -> Packet]]
        /\ box' = [box EXCEPT ![l] = [g \in Gens |->
              IF g \in Live(l) THEN [box[l][g] EXCEPT !.in = s] ELSE box[l][g]]]
    BY DEF HandoffShape, AckMarkInbox
  <2>2. box'[l] = [g \in Gens |->
              IF g \in Live(l) THEN [box[l][g] EXCEPT !.in = s] ELSE box[l][g]]
    BY <1>1, <2>1
  <2>3. ASSUME NEW g \in Gens
        PROVE  [box[l][g] EXCEPT !.in = s] \in Packet /\ box[l][g] \in Packet
    <3>1. box[l][g] \in Packet
      BY <1>1, <2>1
    <3> QED BY <1>1, <3>1 DEF Packet
  <2> HIDE DEF l, s
  <2>4. box'[l] \in [Gens -> Packet]
    BY <2>2, <2>3
  <2>5. box' \in [Leases -> [Gens -> Packet]]
    BY <2>1, <2>2, <2>4
  <2>6. \A m \in Leases : m # l => box'[m] = box[m]
    BY <2>1
  <2>7. ASSUME NEW g \in Gens PROVE box'[l][g].out = box[l][g].out
    <3>1. box[l][g] \in Packet
      BY <2>3
    <3> QED BY <2>2, <3>1 DEF Packet
  <2> QED BY <2>5, <2>6, <2>7
<1>5. HandoffShape'
  BY <1>2, <1>3, <1>4 DEF HandoffShape
<1> HIDE DEF l, s
<1>6. \A m \in Leases, g \in Gens : Acked(m, g)' <=> Acked(m, g)
  BY <1>4 DEF Acked
<1>7. MarksStay'
  <2>1. \A m \in Leases, g \in Gens : g <= sent[m] => box'[m][g].out # "absent"
    BY <1>4 DEF MarksStay
  <2>2. ASSUME NEW b \in Ackers, Acking(b)'
        PROVE  /\ ack'[b].lease \in Leases /\ ack'[b].status \in AckStatuses
               /\ ack'[b].seen <= sent[ack'[b].lease]
               /\ ack'[b].pc = "archive" => ack'[b].left = {}
               /\ "out" \notin ack'[b].left =>
                     \A g \in Gens : g <= ack'[b].seen =>
                        box'[ack'[b].lease][g].out \in AckStatuses
    <3>1. Acking(b) /\ ack[b].lease \in Leases
      BY <1>3, <2>2 DEF Acking, MarksStay
    <3>2. \A g \in Gens : Acked(ack[b].lease, g) => box'[ack[b].lease][g].out \in AckStatuses
      BY <1>6, <3>1 DEF Acked
    <3>3. ack'[b].pc = "archive" => ack'[b].left = {}
      BY <1>3, <3>1 DEF MarksStay
    <3> QED BY <1>3, <3>1, <3>2, <3>3 DEF MarksStay
  <2>3. \A m \in Leases : /\ done[m] <= sent[m]
                          /\ \A g \in Gens : g <= done[m] => box'[m][g].out \in AckStatuses
    BY <1>6 DEF MarksStay, Acked
  <2> QED BY <1>2, <2>1, <2>2, <2>3 DEF MarksStay, Acked, Acking
<1>8. WaitsFindMarks'
  <2>1. sent' \in [Leases -> 0..MaxSends] /\ \A m \in Leases : sent'[m] >= sent[m]
    BY <1>2 DEF HandoffShape
  <2> QED BY <1>2, <1>6, <2>1, WaitsStand
<1>9. CleanSendsStand'
  <2>1. \A b \in Ackers : Acking(b)' => Acking(b) /\ ack'[b].lease = ack[b].lease
    BY <1>3 DEF Acking
  <2>2. \A m \in clean : box'[m][sent[m]].in = box[m][sent[m]].in
    <3>1. \A m \in clean : m \in Leases /\ sent[m] \in Gens /\ m # l
      BY <1>1 DEF CleanSendsStand, HandoffShape, Gens, l
    <3> QED BY <1>4, <3>1
  <2> QED BY <1>2, <2>1, <2>2, CleanSendsKept
<1>10. SettledIsAcked'
  BY <1>2 DEF SettledIsAcked
<1>11. ListsStand'
  <2>1. Owed' = Owed
    BY <1>2 DEF Owed, Current
  <2>2. list' \in [Listers -> Listing]
    BY <1>2 DEF HandoffShape
  <2> QED BY <1>2, <2>1, <2>2, ListingsStand
<1> QED BY <1>5, <1>7, <1>8, <1>9, <1>10, <1>11

LEMMA AckRowKeeps ==
    ASSUME HandoffInv, NEW a \in Ackers, AckRow(a) \/ AckRowFails(a) PROVE HandoffInv'
<1> USE HandoffAssumption DEF HandoffInv
<1> DEFINE l == ack[a].lease
           s == ack[a].status
<1>1. /\ Acking(a) /\ ack[a].pc = "mark" /\ ack[a].left = {}
      /\ l \in Leases /\ s \in AckStatuses /\ ack[a] \in AckCall
  BY DEF AckRow, AckRowFails, Acking, MarksStay, HandoffShape
<1>2. UNCHANGED <<box, expired, send, list, wait, sent, delivered, persisted, clean,
                  given, done>>
  BY DEF AckRow, AckRowFails, handoffStore, history
<1>3. /\ ack' \in [Ackers -> AckCall]
      /\ \A b \in Ackers : /\ ack'[b].lease = ack[b].lease /\ ack'[b].status = ack[b].status
                           /\ ack'[b].seen = ack[b].seen /\ ack'[b].left = ack[b].left
                           /\ b # a => ack'[b] = ack[b]
      /\ ack'[a].pc = "archive"
  <2>1. ack \in [Ackers -> AckCall] /\ ack' = [ack EXCEPT ![a].pc = "archive"]
    BY DEF HandoffShape, AckRow, AckRowFails
  <2>2. ack'[a] = [ack[a] EXCEPT !.pc = "archive"]
    BY <2>1
  <2>3. [ack[a] EXCEPT !.pc = "archive"] \in AckCall
    BY <1>1 DEF AckCall
  <2>4. \A b \in Ackers : b # a => ack'[b] = ack[b]
    BY <2>1
  <2>5. ack' \in [Ackers -> AckCall]
    BY <2>1, <2>3
  <2>6. /\ ack'[a].lease = ack[a].lease /\ ack'[a].status = ack[a].status
        /\ ack'[a].seen = ack[a].seen /\ ack'[a].left = ack[a].left
        /\ ack'[a].pc = "archive"
    BY <1>1, <2>2 DEF AckCall
  <2> QED BY <2>4, <2>5, <2>6
<1>4. \/ row' = row /\ settled' = settled
      \/ /\ row' = [row EXCEPT ![l].status = s] /\ row[l].status # "none"
         /\ settled' = settled \cup {l}
  BY DEF AckRow, AckRowFails, handoffStore, history
<1> HIDE DEF l, s
<1>5. /\ row' \in [Leases -> LeaseRow]
      /\ \A m \in Leases : m # l => row'[m] = row[m]
      /\ row'[l] = row[l] \/ (row[l].status # "none" /\ row'[l].status = s)
      /\ settled' \subseteq settled \cup {l}
      /\ l \in settled' \ settled => row'[l].status = s
  <2>1. row \in [Leases -> LeaseRow]
    BY DEF HandoffShape
  <2>2. [row[l] EXCEPT !.status = s] \in LeaseRow /\ [row[l] EXCEPT !.status = s].status = s
    <3>1. row[l] \in LeaseRow
      BY <1>1, <2>1
    <3> QED BY <1>1, <3>1 DEF LeaseRow
  <2>3. CASE row' = row /\ settled' = settled
    BY <2>1, <2>3
  <2>4. CASE /\ row' = [row EXCEPT ![l].status = s] /\ row[l].status # "none"
             /\ settled' = settled \cup {l}
    <3>1. row' = [row EXCEPT ![l] = [row[l] EXCEPT !.status = s]]
      BY <2>4
    <3>2. row' \in [Leases -> LeaseRow] /\ row'[l].status = s
      BY <1>1, <2>1, <2>2, <3>1
    <3>3. \A m \in Leases : m # l => row'[m] = row[m]
      BY <2>1, <2>4
    <3> QED BY <2>4, <3>2, <3>3
  <2> QED BY <1>4, <2>3, <2>4
<1>6. HandoffShape'
  <2>1. settled' \subseteq Leases
    BY <1>1, <1>5 DEF HandoffShape
  <2> QED BY <1>2, <1>3, <1>5, <2>1 DEF HandoffShape
<1>7. \A m \in Leases, g \in Gens : Acked(m, g)' <=> Acked(m, g)
  BY <1>2 DEF Acked
<1>8. MarksStay'
  <2>1. ASSUME NEW b \in Ackers, Acking(b)'
        PROVE  /\ ack'[b].lease \in Leases /\ ack'[b].status \in AckStatuses
               /\ ack'[b].seen <= sent[ack'[b].lease]
               /\ ack'[b].pc = "archive" => ack'[b].left = {}
               /\ "out" \notin ack'[b].left =>
                     \A g \in Gens : g <= ack'[b].seen =>
                        box[ack'[b].lease][g].out \in AckStatuses
    <3>1. Acking(b)
      BY <1>1, <1>3, <2>1 DEF Acking
    <3>2. ack'[b].pc = "archive" => ack'[b].left = {}
      BY <1>1, <1>3, <3>1 DEF MarksStay
    <3> QED BY <1>3, <3>1, <3>2 DEF MarksStay, Acked
  <2>2. /\ \A m \in Leases, g \in Gens : g <= sent[m] => box[m][g].out # "absent"
        /\ \A m \in Leases : /\ done[m] <= sent[m]
                             /\ \A g \in Gens : g <= done[m] => Acked(m, g)
    BY DEF MarksStay
  <2> QED BY <1>2, <2>1, <2>2 DEF MarksStay, Acked, Acking
<1>9. WaitsFindMarks'
  <2>1. sent' \in [Leases -> 0..MaxSends] /\ \A m \in Leases : sent'[m] >= sent[m]
    BY <1>2 DEF HandoffShape
  <2> QED BY <1>2, <1>7, <2>1, WaitsStand
<1>10. CleanSendsStand'
  <2>1. \A b \in Ackers : Acking(b)' => Acking(b) /\ ack'[b].lease = ack[b].lease
    BY <1>1, <1>3 DEF Acking
  <2>2. \A m \in clean : m \in Leases /\ m # l
    BY <1>1 DEF CleanSendsStand, HandoffShape, l
  <2> QED BY <1>2, <1>5, <2>1, <2>2, CleanSendsKept
<1>11. SettledIsAcked'
  <2>1. ASSUME NEW m \in settled' PROVE row'[m].status \in AckStatuses
    <3>1. CASE m \in settled
      <4>1. m \in Leases /\ row[m].status \in AckStatuses
        BY <3>1 DEF SettledIsAcked, HandoffShape
      <4> QED BY <1>1, <1>5, <4>1
    <3>2. CASE m \notin settled
      BY <1>1, <1>5, <3>2
    <3> QED BY <3>1, <3>2
  <2> QED BY <2>1 DEF SettledIsAcked
<1>12. ListsStand'
  <2>1. Owed' = Owed
    BY <1>2 DEF Owed, Current
  <2>2. list' \in [Listers -> Listing]
    BY <1>2 DEF HandoffShape
  <2>3. \A m \in Leases : /\ row'[m].status = "none" => row[m].status = "none"
                          /\ row[m].status \in AckStatuses => row'[m].status \in AckStatuses
    BY <1>1, <1>5
  <2>4. \A x \in Listers : list'[x].owed \subseteq Leases /\ list'[x].gone \subseteq Leases
    BY <2>2 DEF Listing
  <2> QED BY <1>2, <2>1, <2>2, <2>3, <2>4, ListingsStand
<1> QED BY <1>6, <1>8, <1>9, <1>10, <1>11, <1>12

\* An ack that is answered has left its mark on every send it knew of.
LEMMA AckArchiveKeeps ==
    ASSUME HandoffInv, NEW a \in Ackers, AckArchive(a) PROVE HandoffInv'
<1> USE HandoffAssumption DEF HandoffInv
<1> DEFINE l == ack[a].lease
<1>1. /\ Acking(a) /\ ack[a].pc = "archive" /\ ack[a].left = {}
      /\ l \in Leases /\ ack[a] \in AckCall /\ ack[a].seen \in 0..MaxSends
      /\ ack[a].seen <= sent[l]
      /\ \A g \in Gens : g <= ack[a].seen => Acked(l, g)
  <2>1. Acking(a) /\ ack[a].pc = "archive" /\ ack[a] \in AckCall
    BY DEF AckArchive, Acking, HandoffShape
  <2> QED BY <2>1 DEF MarksStay, AckCall
<1>2. UNCHANGED <<row, expired, send, list, wait, sent, delivered, persisted, clean,
                  settled, given>>
  BY DEF AckArchive
<1>3. /\ ack' \in [Ackers -> AckCall] /\ ~Acking(a)'
      /\ \A b \in Ackers : b # a => ack'[b] = ack[b]
  <2>1. ack \in [Ackers -> AckCall] /\ ack' = [ack EXCEPT ![a] = [NoAck EXCEPT !.pc = "done"]]
    BY DEF HandoffShape, AckArchive
  <2>2. [NoAck EXCEPT !.pc = "done"] \in AckCall /\ [NoAck EXCEPT !.pc = "done"].pc = "done"
    BY DEF NoAck, AckCall
  <2> QED BY <2>1, <2>2 DEF Acking
<1>4. /\ done' \in [Leases -> 0..MaxSends]
      /\ \A m \in Leases : done'[m] = done[m] \/ (m = l /\ done'[m] = ack[a].seen)
  <2>1. done \in [Leases -> 0..MaxSends] /\ done' = [done EXCEPT ![l] = Larger(done[l], ack[a].seen)]
    BY DEF HandoffShape, AckArchive
  <2>2. \/ Larger(done[l], ack[a].seen) = done[l]
        \/ Larger(done[l], ack[a].seen) = ack[a].seen
    BY DEF Larger
  <2> HIDE DEF l
  <2> QED BY <1>1, <2>1, <2>2
<1>5. /\ box' \in [Leases -> [Gens -> Packet]]
      /\ \A m \in Leases, g \in Gens :
            /\ box'[m][g].out = box[m][g].out
            /\ m # l => box'[m][g].in = box[m][g].in
  <2>1. /\ box \in [Leases -> [Gens -> Packet]]
        /\ box' = [box EXCEPT ![l] = [g \in Gens |->
              IF g \in ack[a].marked THEN [box[l][g] EXCEPT !.in = "archived"] ELSE box[l][g]]]
    BY DEF HandoffShape, AckArchive
  <2>2. box'[l] = [g \in Gens |->
              IF g \in ack[a].marked THEN [box[l][g] EXCEPT !.in = "archived"] ELSE box[l][g]]
    BY <1>1, <2>1
  <2>3. ASSUME NEW g \in Gens
        PROVE  [box[l][g] EXCEPT !.in = "archived"] \in Packet /\ box[l][g] \in Packet
    <3>1. box[l][g] \in Packet
      BY <1>1, <2>1
    <3> QED BY <3>1 DEF Packet
  <2> HIDE DEF l
  <2>4. box'[l] \in [Gens -> Packet]
    BY <2>2, <2>3
  <2>5. box' \in [Leases -> [Gens -> Packet]]
    BY <2>1, <2>2, <2>4
  <2>6. \A m \in Leases : m # l => box'[m] = box[m]
    BY <2>1
  <2>7. ASSUME NEW g \in Gens PROVE box'[l][g].out = box[l][g].out
    <3>1. box[l][g] \in Packet
      BY <2>3
    <3> QED BY <2>2, <3>1 DEF Packet
  <2> QED BY <2>5, <2>6, <2>7
<1> HIDE DEF l
<1>6. HandoffShape'
  BY <1>2, <1>3, <1>4, <1>5 DEF HandoffShape
<1>7. \A m \in Leases, g \in Gens : Acked(m, g)' <=> Acked(m, g)
  BY <1>5 DEF Acked
<1>8. MarksStay'
  <2>1. \A m \in Leases, g \in Gens : g <= sent[m] => box'[m][g].out # "absent"
    BY <1>5 DEF MarksStay
  <2>2. ASSUME NEW b \in Ackers, Acking(b)'
        PROVE  /\ ack'[b].lease \in Leases /\ ack'[b].status \in AckStatuses
               /\ ack'[b].seen <= sent[ack'[b].lease]
               /\ ack'[b].pc = "archive" => ack'[b].left = {}
               /\ "out" \notin ack'[b].left =>
                     \A g \in Gens : g <= ack'[b].seen =>
                        box'[ack'[b].lease][g].out \in AckStatuses
    <3>1. b # a /\ ack'[b] = ack[b] /\ Acking(b)
      BY <1>3, <2>2 DEF Acking
    <3>2. ack[b].lease \in Leases
      BY <3>1 DEF MarksStay
    <3>3. \A g \in Gens : Acked(ack[b].lease, g) => box'[ack[b].lease][g].out \in AckStatuses
      BY <1>7, <3>2 DEF Acked
    <3> QED BY <3>1, <3>3 DEF MarksStay
  <2>3. ASSUME NEW m \in Leases
        PROVE  /\ done'[m] <= sent[m]
               /\ \A g \in Gens : g <= done'[m] => box'[m][g].out \in AckStatuses
    <3>1. \A g \in Gens : Acked(m, g) => box'[m][g].out \in AckStatuses
      BY <1>7 DEF Acked
    <3>2. CASE done'[m] = done[m]
      BY <3>1, <3>2 DEF MarksStay
    <3>3. CASE m = l /\ done'[m] = ack[a].seen
      BY <1>1, <3>1, <3>3
    <3> QED BY <1>4, <3>2, <3>3
  <2> QED BY <1>2, <2>1, <2>2, <2>3 DEF MarksStay, Acked, Acking
<1>9. WaitsFindMarks'
  <2>1. sent' \in [Leases -> 0..MaxSends] /\ \A m \in Leases : sent'[m] >= sent[m]
    BY <1>2 DEF HandoffShape
  <2> QED BY <1>2, <1>7, <2>1, WaitsStand
<1>10. CleanSendsStand'
  <2>1. \A b \in Ackers : Acking(b)' => Acking(b) /\ ack'[b].lease = ack[b].lease
    BY <1>3 DEF Acking
  <2>2. \A m \in clean : box'[m][sent[m]].in = box[m][sent[m]].in
    <3>1. \A m \in clean : m \in Leases /\ sent[m] \in Gens /\ m # l
      BY <1>1 DEF CleanSendsStand, HandoffShape, Gens, l
    <3> QED BY <1>5, <3>1
  <2> QED BY <1>2, <2>1, <2>2, CleanSendsKept
<1>11. SettledIsAcked'
  BY <1>2 DEF SettledIsAcked
<1>12. ListsStand'
  <2>1. Owed' = Owed
    BY <1>2 DEF Owed, Current
  <2>2. list' \in [Listers -> Listing]
    BY <1>2 DEF HandoffShape
  <2> QED BY <1>2, <2>1, <2>2, ListingsStand
<1> QED BY <1>6, <1>8, <1>9, <1>10, <1>11, <1>12

\* The store stands still under the steps of a listing or a wait.
LEMMA ReadsLeaveTheStore ==
    ASSUME HandoffInv, UNCHANGED <<handoffStore, send, ack, sent, history>>
    PROVE  MarksStay' /\ CleanSendsStand' /\ SettledIsAcked' /\ Owed' = Owed
<1> USE DEF HandoffInv, handoffStore, history
<1>1. \A m \in Leases, g \in Gens : Acked(m, g)' <=> Acked(m, g)
  BY DEF Acked
<1>2. MarksStay'
  BY <1>1, MarksStand
<1>3. CleanSendsStand'
  BY CleanSendsKept DEF Acking
<1>4. SettledIsAcked'
  BY DEF SettledIsAcked
<1>5. Owed' = Owed
  BY DEF Owed, Current
<1> QED BY <1>2, <1>3, <1>4, <1>5

\* One listing moved, and it stands: so do the others.
LEMMA OneListingMoves ==
    ASSUME HandoffInv, NEW x \in Listers, NEW r \in Listing,
           list' = [list EXCEPT ![x] = r],
           UNCHANGED <<handoffStore, send, ack, wait, sent, history>>,
           ListStands(x)'
    PROVE  HandoffInv'
<1> USE HandoffAssumption DEF HandoffInv
<1>1. list' \in [Listers -> Listing] /\ \A y \in Listers : y # x => list'[y] = list[y]
  BY DEF HandoffShape
<1>2. HandoffShape'
  BY <1>1 DEF HandoffShape, handoffStore, history
<1>3. MarksStay' /\ CleanSendsStand' /\ SettledIsAcked' /\ Owed' = Owed
  BY ReadsLeaveTheStore
<1>4. WaitsFindMarks'
  <2>1. sent' \in [Leases -> 0..MaxSends] /\ \A m \in Leases : sent'[m] >= sent[m]
    BY DEF HandoffShape
  <2>2. \A m \in Leases, g \in Gens : Acked(m, g)' <=> Acked(m, g)
    BY DEF Acked, handoffStore
  <2> QED BY <2>1, <2>2, WaitsStand
<1>5. ListsStand'
  <2>1. ASSUME NEW y \in Listers, y # x PROVE ListStands(y)'
    <3>1. ListStands(y)
      BY DEF ListsStand
    <3>2. list'[y] = list[y] /\ UNCHANGED <<row, persisted>>
      BY <1>1, <2>1 DEF handoffStore, history
    <3> QED BY <1>3, <3>1, <3>2 DEF ListStands
  <2> QED BY <2>1 DEF ListsStand
<1> QED BY <1>2, <1>3, <1>4, <1>5

\* The pending rows, read, are all that a listing then owes and more.
LEMMA ListPendingKeeps ==
    ASSUME HandoffInv, NEW x \in Listers, ListPending(x) PROVE HandoffInv'
<1> USE HandoffAssumption DEF HandoffInv
<1> DEFINE read == [NoList EXCEPT !.pc = "known", !.pend = PendingRows,
                                  !.owed = Owed, !.gone = settled]
           fail == [NoList EXCEPT !.pc = "known", !.failed = {"pending"},
                                  !.owed = Owed, !.gone = settled]
<1>1. PendingRows \subseteq Leases /\ Owed \subseteq Leases /\ settled \subseteq Leases
  BY DEF PendingRows, Owed, HandoffShape
<1>2. UNCHANGED <<handoffStore, send, ack, wait, sent, history>>
  BY DEF ListPending
<1>3. /\ Owed' = Owed /\ UNCHANGED <<row, persisted>>
      /\ \A l \in settled : row[l].status \in AckStatuses
  BY <1>2, ReadsLeaveTheStore DEF SettledIsAcked, handoffStore, history
<1>4. Owed \cap persisted \subseteq PendingRows
  <2> SUFFICES ASSUME NEW l \in Owed, l \in persisted PROVE l \in PendingRows
    OBVIOUS
  <2>1. l \in clean /\ l \notin Silent /\ <<l, sent[l]>> \notin expired /\ l \in Leases
    BY <1>1 DEF Owed, Current
  <2> QED BY <2>1 DEF CleanSendsStand, PendingRows
<1>5. PendingRows \cap settled = {}
  BY <1>3 DEF PendingRows
<1>6. CASE list' = [list EXCEPT ![x] = read]
  <2>1. /\ read \in Listing /\ read.pc = "known" /\ read.pend = PendingRows
        /\ read.owed = Owed /\ read.gone = settled /\ read.failed = {}
    BY <1>1 DEF NoList, Listing
  <2>2. list'[x] = read
    BY <1>6 DEF HandoffShape
  <2> HIDE DEF read
  <2>3. ListStands(x)'
    BY <1>3, <1>4, <1>5, <2>1, <2>2 DEF ListStands
  <2> QED BY <1>2, <1>6, <2>1, <2>3, OneListingMoves
<1>7. CASE list' = [list EXCEPT ![x] = fail]
  <2>1. /\ fail \in Listing /\ fail.pc = "known" /\ fail.pend = {}
        /\ fail.owed = Owed /\ fail.gone = settled /\ fail.failed = {"pending"}
    BY <1>1 DEF NoList, Listing
  <2>2. list'[x] = fail
    BY <1>7 DEF HandoffShape
  <2> HIDE DEF fail
  <2>3. ListStands(x)'
    BY <1>3, <2>1, <2>2 DEF ListStands
  <2> QED BY <1>2, <1>7, <2>1, <2>3, OneListingMoves
<1> QED BY <1>6, <1>7 DEF ListPending

\* The second read adds every row there is, or fails and adds none.
LEMMA ListKnownKeeps ==
    ASSUME HandoffInv, NEW x \in Listers, ListKnown(x) PROVE HandoffInv'
<1> USE HandoffAssumption DEF HandoffInv
<1> DEFINE rows == {l \in Leases : row[l].status # "none"}
           read == [list[x] EXCEPT !.pc = "files", !.known = list[x].pend \cup rows]
           fail == [list[x] EXCEPT !.pc = "files", !.known = list[x].pend,
                                   !.failed = @ \cup {"known"}]
<1>1. list[x] \in Listing /\ list[x].pc = "known" /\ ListStands(x)
  BY DEF ListKnown, HandoffShape, ListsStand
<1>2. UNCHANGED <<handoffStore, send, ack, wait, sent, history>>
  BY DEF ListKnown
<1>3. Owed' = Owed /\ UNCHANGED <<row, persisted>>
  BY <1>2, ReadsLeaveTheStore DEF handoffStore, history
<1>4. list' = [list EXCEPT ![x] = read] \/ list' = [list EXCEPT ![x] = fail]
  BY DEF ListKnown, HandoffShape
<1>5. CASE list' = [list EXCEPT ![x] = read]
  <2>1. /\ read \in Listing /\ read.pc = "files" /\ read.pend = list[x].pend
        /\ read.known = list[x].pend \cup rows /\ read.failed = list[x].failed
        /\ read.owed = list[x].owed /\ read.gone = list[x].gone
    BY <1>1 DEF Listing
  <2>2. list'[x] = read
    BY <1>5 DEF HandoffShape
  <2>3. list[x].gone \subseteq rows /\ list[x].gone \subseteq Leases
    BY <1>1 DEF ListStands, Listing
  <2> HIDE DEF read
  <2>4. ListStands(x)'
    BY <1>1, <1>3, <2>1, <2>2, <2>3 DEF ListStands
  <2> QED BY <1>2, <1>5, <2>1, <2>4, OneListingMoves
<1>6. CASE list' = [list EXCEPT ![x] = fail]
  <2>1. /\ fail \in Listing /\ fail.pc = "files" /\ fail.pend = list[x].pend
        /\ fail.known = list[x].pend /\ fail.failed = list[x].failed \cup {"known"}
        /\ fail.owed = list[x].owed /\ fail.gone = list[x].gone
    BY <1>1 DEF Listing
  <2>2. list'[x] = fail
    BY <1>6 DEF HandoffShape
  <2> HIDE DEF fail
  <2>3. ListStands(x)'
    BY <1>1, <1>3, <2>1, <2>2 DEF ListStands
  <2> QED BY <1>2, <1>6, <2>1, <2>3, OneListingMoves
<1> QED BY <1>4, <1>5, <1>6

\* What the rows did not show, the packets do; what an ack has settled, the
\* known rows keep off the list.
LEMMA ListFilesKeeps ==
    ASSUME HandoffInv, NEW x \in Listers, ListFiles(x) PROVE HandoffInv'
<1> USE HandoffAssumption DEF HandoffInv
<1> DEFINE files == {l \in Leases \ (Silent \cup list[x].known) :
                       \E g \in Gens : box[l][g].in = "open" /\ <<l, g>> \notin expired}
           answer == list[x].pend \cup files
           r == [list[x] EXCEPT !.answer = answer, !.pend = {}, !.known = {},
                   !.pc = IF answer = {} /\ "pending" \in list[x].failed
                          THEN "error" ELSE "answered"]
<1>1. list[x] \in Listing /\ list[x].pc = "files" /\ ListStands(x)
  BY DEF ListFiles, HandoffShape, ListsStand
<1>2. UNCHANGED <<handoffStore, send, ack, wait, sent, history>>
  BY DEF ListFiles
<1>3. Owed' = Owed /\ UNCHANGED <<row, persisted>>
  BY <1>2, ReadsLeaveTheStore DEF handoffStore, history
<1>4. list' = [list EXCEPT ![x] = r]
  BY DEF ListFiles, HandoffShape
<1>5. /\ r \in Listing /\ r.pc \in {"error", "answered"} /\ r.answer = answer
      /\ r.failed = list[x].failed /\ r.owed = list[x].owed /\ r.gone = list[x].gone
  <2>1. answer \in SUBSET Leases
    BY <1>1 DEF Listing
  <2> HIDE DEF answer
  <2> QED BY <1>1, <2>1 DEF Listing
<1>6. list'[x] = r
  BY <1>4 DEF HandoffShape
<1>7. ASSUME NEW l \in list[x].owed, l \notin list[x].known PROVE l \in files
  <2>1. l \in Owed /\ l \in Leases
    BY <1>1, <1>7 DEF ListStands, Owed, HandoffShape
  <2>2. l \in clean /\ l \in delivered /\ l \notin Silent /\ <<l, sent[l]>> \notin expired
    BY <2>1 DEF Owed, Current
  <2>3. box[l][sent[l]].in = "open" /\ sent[l] \in Gens
    BY <2>1, <2>2 DEF CleanSendsStand, HandoffShape, Gens
  <2> QED BY <1>7, <2>1, <2>2, <2>3
<1>8. ASSUME list[x].failed # {"pending"}, NEW l \in list[x].owed,
             l \in persisted \/ row[l].status = "none"
      PROVE  l \in answer
  <2>1. CASE "pending" \notin list[x].failed /\ l \in persisted
    BY <1>1, <2>1 DEF ListStands
  <2>2. CASE row[l].status = "none"
    <3>1. l \notin list[x].known \ list[x].pend
      BY <1>1, <2>2 DEF ListStands
    <3> QED BY <1>7, <3>1
  <2>3. CASE "pending" \in list[x].failed
    <3>1. "known" \in list[x].failed
      BY <1>1, <1>8, <2>3 DEF Listing
    <3>2. list[x].known = list[x].pend
      BY <1>1, <3>1 DEF ListStands
    <3> QED BY <1>7, <3>2
  <2> QED BY <1>8, <2>1, <2>2, <2>3
<1>9. "known" \notin list[x].failed => list[x].gone \cap answer = {}
  BY <1>1 DEF ListStands
<1>10. list[x].owed \subseteq Owed
  BY <1>1 DEF ListStands
<1> HIDE DEF answer, r
<1>11. ListStands(x)'
  BY <1>3, <1>5, <1>6, <1>8, <1>9, <1>10 DEF ListStands
<1> QED BY <1>2, <1>4, <1>5, <1>11, OneListingMoves

\* One wait moved, and finds what it has to: so do the others.
LEMMA OneWaitMoves ==
    ASSUME HandoffInv, NEW w \in Waiters, NEW r \in Waiting,
           wait' = [wait EXCEPT ![w] = r],
           UNCHANGED <<handoffStore, send, ack, list, sent, history>>,
           r.pc \in {"row", "files"} => r.lease \in Leases /\ sent[r.lease] > 0,
           r.pc = "files" /\ r.acked => \E g \in Gens : g <= sent[r.lease] /\ Acked(r.lease, g),
           r.pc # "answered" => r.answer = "none",
           r.answer \in {"timeout", "error"} => ~r.acked
    PROVE  HandoffInv'
<1> USE HandoffAssumption DEF HandoffInv
<1>1. /\ wait' \in [Waiters -> Waiting] /\ wait'[w] = r
      /\ \A v \in Waiters : v # w => wait'[v] = wait[v]
  BY DEF HandoffShape
<1>2. HandoffShape'
  BY <1>1 DEF HandoffShape, handoffStore, history
<1>3. MarksStay' /\ CleanSendsStand' /\ SettledIsAcked' /\ Owed' = Owed
  BY ReadsLeaveTheStore
<1>4. UNCHANGED <<box, row, sent, persisted, list>>
  BY DEF handoffStore, history
<1>5. WaitsFindMarks'
  <2>1. ASSUME NEW v \in Waiters
        PROVE  /\ wait'[v].pc \in {"row", "files"} =>
                     wait'[v].lease \in Leases /\ sent[wait'[v].lease] > 0
               /\ wait'[v].pc = "files" /\ wait'[v].acked =>
                     \E g \in Gens : /\ g <= sent[wait'[v].lease]
                                     /\ box[wait'[v].lease][g].out \in AckStatuses
               /\ wait'[v].pc # "answered" => wait'[v].answer = "none"
               /\ wait'[v].answer \in {"timeout", "error"} => ~wait'[v].acked
    <3>1. CASE v = w
      BY <1>1, <3>1 DEF Acked
    <3>2. CASE v # w
      BY <1>1, <3>2 DEF WaitsFindMarks, Acked
    <3> QED BY <3>1, <3>2
  <2> QED BY <1>4, <2>1 DEF WaitsFindMarks, Acked
<1>6. ListsStand'
  BY <1>3, <1>4 DEF ListsStand, ListStands
<1> QED BY <1>2, <1>3, <1>5, <1>6

LEMMA WaitBeginKeeps ==
    ASSUME HandoffInv, NEW w \in Waiters, NEW l \in Leases, WaitBegin(w, l)
    PROVE  HandoffInv'
<1> USE HandoffAssumption DEF HandoffInv
<1> DEFINE answered == IF send[l] = "idle" THEN sent[l] ELSE sent[l] - 1
           r == [NoWait EXCEPT !.pc = "row", !.lease = l, !.since = answered]
<1>1. answered > 0 /\ answered \in 0..MaxSends /\ sent[l] > 0
  <2>1. answered > 0 /\ sent[l] \in 0..MaxSends
    BY DEF WaitBegin, HandoffShape
  <2> QED BY <2>1
<1>2. wait' = [wait EXCEPT ![w] = r]
  BY DEF WaitBegin
<1> HIDE DEF answered
<1>3. r \in Waiting /\ r.pc = "row" /\ r.lease = l /\ r.answer = "none"
  BY <1>1 DEF NoWait, Waiting
<1> HIDE DEF r
<1> QED BY <1>1, <1>2, <1>3, OneWaitMoves DEF WaitBegin

\* A poll that an answered ack precedes has the last send's mark to find.
LEMMA WaitRowKeeps ==
    ASSUME HandoffInv, NEW w \in Waiters, WaitRow(w) PROVE HandoffInv'
<1> USE HandoffAssumption DEF HandoffInv
<1> DEFINE l == wait[w].lease
           acked == done[l] >= sent[l]
<1>1. /\ wait[w] \in Waiting /\ wait[w].pc = "row" /\ l \in Leases /\ sent[l] > 0
      /\ wait[w].answer = "none"
  BY DEF WaitRow, HandoffShape, WaitsFindMarks
<1>2. UNCHANGED <<handoffStore, send, ack, list, sent, history>>
  BY DEF WaitRow
<1>3. ASSUME acked PROVE \E g \in Gens : g <= sent[l] /\ Acked(l, g)
  <2>1. sent[l] \in Gens /\ sent[l] <= done[l]
    BY <1>1, <1>3 DEF HandoffShape, Gens
  <2>2. Acked(l, sent[l])
    BY <1>1, <2>1 DEF MarksStay
  <2> QED BY <2>1, <2>2 DEF Gens
<1>4. acked \in BOOLEAN
  OBVIOUS
<1>5. ASSUME NEW d \in BOOLEAN,
             wait' = [wait EXCEPT ![w].pc = "files", ![w].acked = acked, ![w].down = d]
      PROVE  HandoffInv'
  <2> DEFINE r == [wait[w] EXCEPT !.pc = "files", !.acked = acked, !.down = d]
  <2>1. wait' = [wait EXCEPT ![w] = r]
    BY <1>5 DEF HandoffShape
  <2> HIDE DEF acked
  <2>2. r \in Waiting /\ r.pc = "files" /\ r.lease = l /\ r.acked = acked /\ r.answer = "none"
    BY <1>1, <1>4 DEF Waiting
  <2> HIDE DEF r, l
  <2> QED BY <1>1, <1>2, <1>3, <2>1, <2>2, OneWaitMoves
<1>6. ASSUME row[l].status \notin {"none", "pending"},
             wait' = [wait EXCEPT ![w].pc = "answered", ![w].answer = row[l].status]
      PROVE  HandoffInv'
  <2> DEFINE r == [wait[w] EXCEPT !.pc = "answered", !.answer = row[l].status]
  <2>1. wait' = [wait EXCEPT ![w] = r]
    BY <1>6 DEF HandoffShape
  <2>2. row[l] \in LeaseRow
    BY <1>1 DEF HandoffShape
  <2>3. row[l].status \in AckStatuses \cup {"not_required"}
    BY <1>6, <2>2 DEF LeaseRow
  <2> HIDE DEF l
  <2>4. r \in Waiting /\ r.pc = "answered" /\ r.answer = row[l].status
    BY <1>1, <2>3 DEF Waiting
  <2>5. row[l].status \notin {"timeout", "error"}
    BY <2>3
  <2> HIDE DEF r
  <2> QED BY <1>2, <2>1, <2>4, <2>5, OneWaitMoves
<1> QED BY <1>5, <1>6 DEF WaitRow

\* A wait that finds no mark polled before any ack was answered.
LEMMA WaitFilesKeeps ==
    ASSUME HandoffInv, NEW w \in Waiters, WaitFiles(w) PROVE HandoffInv'
<1> USE HandoffAssumption DEF HandoffInv
<1> DEFINE l == wait[w].lease
           acks == FileAcks(l) \cap AckStatuses
<1>1. /\ wait[w] \in Waiting /\ wait[w].pc = "files" /\ l \in Leases /\ sent[l] > 0
      /\ wait[w].answer = "none"
      /\ wait[w].acked => \E g \in Gens : g <= sent[l] /\ Acked(l, g)
  BY DEF WaitFiles, HandoffShape, WaitsFindMarks
<1>2. UNCHANGED <<handoffStore, send, ack, list, sent, history>>
  BY DEF WaitFiles
<1>3. acks = {} => ~wait[w].acked
  BY <1>1 DEF FileAcks, Acked
<1>4. ASSUME NEW s \in acks,
             wait' = [wait EXCEPT ![w].pc = "answered", ![w].answer = s]
      PROVE  HandoffInv'
  <2> DEFINE r == [wait[w] EXCEPT !.pc = "answered", !.answer = s]
  <2>1. wait' = [wait EXCEPT ![w] = r]
    BY <1>4 DEF HandoffShape
  <2>2. s \in AckStatuses /\ s \notin {"timeout", "error"}
    BY <1>4
  <2>3. r \in Waiting /\ r.pc = "answered" /\ r.answer = s
    BY <1>1, <2>2 DEF Waiting
  <2> HIDE DEF r, acks, l
  <2> QED BY <1>2, <2>1, <2>2, <2>3, OneWaitMoves
<1>5. ASSUME acks = {}, wait' = [wait EXCEPT ![w].pc = "row"]
      PROVE  HandoffInv'
  <2> DEFINE r == [wait[w] EXCEPT !.pc = "row"]
  <2>1. wait' = [wait EXCEPT ![w] = r]
    BY <1>5 DEF HandoffShape
  <2>2. r \in Waiting /\ r.pc = "row" /\ r.lease = l /\ r.answer = "none"
    BY <1>1 DEF Waiting
  <2> HIDE DEF r, acks, l
  <2> QED BY <1>1, <1>2, <2>1, <2>2, OneWaitMoves
<1>6. ASSUME acks = {}, NEW s \in {"timeout", "error"},
             wait' = [wait EXCEPT ![w].pc = "answered", ![w].answer = s]
      PROVE  HandoffInv'
  <2> DEFINE r == [wait[w] EXCEPT !.pc = "answered", !.answer = s]
  <2>1. wait' = [wait EXCEPT ![w] = r]
    BY <1>6 DEF HandoffShape
  <2>2. r \in Waiting /\ r.pc = "answered" /\ r.acked = wait[w].acked
    BY <1>1 DEF Waiting
  <2>3. ~r.acked
    BY <1>3, <1>6, <2>2
  <2> HIDE DEF r, acks, l
  <2> QED BY <1>2, <2>1, <2>2, <2>3, OneWaitMoves
<1> QED BY <1>4, <1>5, <1>6 DEF WaitFiles

\* After a restart no call is under way, and the store is as it was.
LEMMA HandoffRestartKeeps == ASSUME HandoffInv, Restart PROVE HandoffInv'
<1> USE HandoffAssumption DEF HandoffInv, Restart
<1>1. UNCHANGED <<box, row, expired, sent, delivered, persisted, clean, settled, given, done>>
  BY DEF handoffStore, history
<1>2. /\ ack' \in [Ackers -> AckCall] /\ list' \in [Listers -> Listing]
      /\ wait' \in [Waiters -> Waiting]
  <2>1. NoAck \in AckCall /\ NoList \in Listing /\ NoWait \in Waiting
    BY DEF NoAck, AckCall, NoList, Listing, NoWait, Waiting
  <2> QED BY <2>1
<1>3. HandoffShape'
  BY <1>1, <1>2 DEF HandoffShape
<1>4. \A a \in Ackers : ~Acking(a)'
  BY DEF Acking, NoAck
<1>5. MarksStay'
  <2>1. /\ \A m \in Leases, g \in Gens : g <= sent[m] => box'[m][g].out # "absent"
        /\ \A m \in Leases : /\ done'[m] <= sent'[m]
                             /\ \A g \in Gens : g <= done'[m] => box'[m][g].out \in AckStatuses
    BY <1>1 DEF MarksStay, Acked
  <2> QED BY <1>1, <1>4, <2>1 DEF MarksStay, Acked, Acking
<1>6. WaitsFindMarks'
  BY DEF WaitsFindMarks, NoWait
<1>7. CleanSendsStand'
  <2>1. \A m \in clean : m \in Leases
    BY DEF HandoffShape
  <2> QED BY <1>1, <1>4, <2>1, CleanSendsKept
<1>8. SettledIsAcked'
  BY <1>1 DEF SettledIsAcked
<1>9. ListsStand'
  BY DEF ListsStand, ListStands, NoList
<1> QED BY <1>3, <1>5, <1>6, <1>7, <1>8, <1>9

LEMMA HandoffStutterKeeps == ASSUME HandoffInv, UNCHANGED handoffVars PROVE HandoffInv'
<1> USE DEF HandoffInv, handoffVars, calls
<1>1. MarksStay' /\ CleanSendsStand' /\ SettledIsAcked' /\ Owed' = Owed
  BY ReadsLeaveTheStore
<1>2. UNCHANGED <<box, row, sent, persisted, list, wait>>
  BY DEF handoffStore, history
<1>3. HandoffShape'
  BY DEF HandoffShape, handoffStore, history
<1>4. WaitsFindMarks'
  BY <1>2 DEF WaitsFindMarks, Acked
<1>5. ListsStand'
  BY <1>1, <1>2 DEF ListsStand, ListStands
<1> QED BY <1>1, <1>3, <1>4, <1>5

LEMMA HandoffStepInv == HandoffInv /\ [HandoffNext]_handoffVars => HandoffInv'
<1> SUFFICES ASSUME HandoffInv, [HandoffNext]_handoffVars PROVE HandoffInv'
  OBVIOUS
<1>1. ASSUME NEW l \in Leases,
             \/ SendOutbox(l) \/ SendInbox(l) \/ StoreLease(l) \/ StoreLeaseFails(l)
             \/ SendEnds(l) \/ SendFails(l) \/ Expire(l)
      PROVE  HandoffInv'
  BY <1>1, SendOutboxKeeps, SendInboxKeeps, StoreLeaseKeeps, SendStepsKeep, ExpireKeeps
<1>2. ASSUME NEW a \in Ackers,
             \/ \E l \in Leases, s \in AckStatuses : AckBegin(a, l, s)
             \/ AckMarkOutbox(a) \/ AckMarkInbox(a)
             \/ AckRow(a) \/ AckRowFails(a) \/ AckArchive(a)
      PROVE  HandoffInv'
  BY <1>2, AckBeginKeeps, AckMarkOutboxKeeps, AckMarkInboxKeeps, AckRowKeeps, AckArchiveKeeps
<1>3. ASSUME NEW x \in Listers, ListPending(x) \/ ListKnown(x) \/ ListFiles(x)
      PROVE  HandoffInv'
  BY <1>3, ListPendingKeeps, ListKnownKeeps, ListFilesKeeps
<1>4. ASSUME NEW w \in Waiters,
             \/ \E l \in Leases : WaitBegin(w, l)
             \/ WaitRow(w) \/ WaitFiles(w)
      PROVE  HandoffInv'
  BY <1>4, WaitBeginKeeps, WaitRowKeeps, WaitFilesKeeps
<1>5. CASE Restart
  BY <1>5, HandoffRestartKeeps
<1>6. CASE UNCHANGED handoffVars
  BY <1>6, HandoffStutterKeeps
<1> QED BY <1>1, <1>2, <1>3, <1>4, <1>5, <1>6 DEF HandoffNext

\* AcksAreSeen (handle_list_pending_handoffs, minni_await_handoff): a listing
\* shows the handoffs that were delivered and that no ack has touched since,
\* though it reads the rows and the packets at different moments, and none
\* that an ack had settled before; a wait that times out polled before any ack
\* of the last send was answered. Sends, acks, listings and waits interleave,
\* writes and reads fail, and the daemon restarts.
THEOREM HandoffsAreSeen == HandoffSpec => []AcksAreSeen
<1>1. HandoffInv => AcksAreSeen
  <2> SUFFICES ASSUME HandoffInv PROVE AcksAreSeen
    OBVIOUS
  <2>1. DeliveredIsListed /\ AckedIsNotListed
    BY DEF HandoffInv, ListsStand, ListStands, DeliveredIsListed, AckedIsNotListed
  <2>2. TimeoutMeansUnacked
    BY DEF HandoffInv, WaitsFindMarks, TimeoutMeansUnacked
  <2> QED BY <2>1, <2>2 DEF AcksAreSeen, ListingMatchesAcks
<1>2. HandoffSpec => []HandoffInv
  BY HandoffInitInv, HandoffStepInv, PTL DEF HandoffSpec
<1> QED BY <1>1, <1>2, PTL
=============================================================================
