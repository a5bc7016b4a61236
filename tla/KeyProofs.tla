------------------------------ MODULE KeyProofs ------------------------------
(***************************************************************************)
(* Proofs about the keys of Redis, for any databases, keys, patterns and   *)
(* number of scans and changes, and whatever other clients do: the list is *)
(* of what its header names, and whole when its scan has ended; :w deletes *)
(* keys only where they were marked; and, in the second part, it writes    *)
(* over an item of a list only while it is the one that was seen.          *)
(***************************************************************************)
EXTENDS KeyList, FiniteSetTheorems, SequenceTheorems, TLAPS

\* What is known of the list, unless the connection for a scan is refused: then it keeps hearing
\* from the scan before
ListFits == KeysFit /\ ~MayFailToFork

AllPatterns == {""} \cup DOMAIN Patterns
Batches == [kind : {"keys"}, keys : SUBSET AllKeys]
Ends == [kind : {"done"}, capped : BOOLEAN]
Failures == [kind : {"failed"}]
Messages == Batches \cup Ends \cup Failures

Scans == [database : Databases \cup {0}, pattern : AllPatterns, steady : SUBSET AllKeys,
          seen : SUBSET AllKeys, count : Nat, sent : Seq(Messages), done : BOOLEAN, failed : BOOLEAN]

\* What is open and where the cursor is may be anything
KeyListTyped ==
  /\ server \in [Databases -> SUBSET AllKeys] /\ others \in Nat
  /\ tql \in [database : Databases, pattern : AllPatterns, keys : SUBSET AllKeys, count : Nat,
              capped : BOOLEAN, index : {tql.index}, opened : {tql.opened}, closed : {tql.closed},
              scan : {0, Len(scans)}, marked : SUBSET (AllKeys \X Databases)]
  /\ scans \in Seq(Scans) /\ scans # <<>>

Latest == scans[Len(scans)]

\* The marks are of the database the connection is in.
MarksInv == conn = tql.database /\ \A mark \in tql.marked : mark[2] = tql.database

\* The last scan is of the database and the pattern of the list, and so is what it sent.
FollowsInv ==
  /\ tql.keys \subseteq Matches(tql.pattern)
  /\ Latest.database = tql.database /\ Latest.pattern = tql.pattern
  /\ \A n \in DOMAIN Latest.sent : Latest.sent[n].kind = "keys" => Latest.sent[n].keys \subseteq Matches(Latest.pattern)

\* It sends keys, and says last how it ended, which the list hears last.
EndsInv ==
  /\ Latest.failed => Latest.done
  /\ tql.scan = 0 => Latest.done /\ Latest.sent = <<>>
  /\ \A n \in DOMAIN Latest.sent : n # Len(Latest.sent) \/ ~Latest.done => Latest.sent[n].kind = "keys"
  /\ tql.scan # 0 /\ Latest.done =>
       Latest.sent # <<>> /\ Latest.sent[Len(Latest.sent)].kind = IF Latest.failed THEN "failed" ELSE "done"

Size(message) == IF message.kind = "keys" THEN Cardinality(message.keys) ELSE 0

\* From one count to another by what was sent
Counts(from, sent, to) ==
  \E f \in [0 .. Len(sent) -> Nat] :
    f[0] = from /\ f[Len(sent)] = to /\ \A n \in 1 .. Len(sent) : f[n] = f[n - 1] + Size(sent[n])

SaidCapped == IF tql.scan = 0 THEN tql.capped ELSE Latest.sent[Len(Latest.sent)].capped

\* Whatever it saw is listed or on its way, and counted once.
WholeInv ==
  /\ \A key \in Latest.seen :
       key \in tql.keys \/ \E n \in DOMAIN Latest.sent : Latest.sent[n].kind = "keys" /\ key \in Latest.sent[n].keys
  /\ Counts(tql.count, Latest.sent, Latest.count)
  /\ Latest.done /\ ~Latest.failed /\ ~SaidCapped /\ Latest.count < Limit => Latest.steady \subseteq Latest.seen

KeyListInv == KeyListTyped /\ MarksInv /\ FollowsInv /\ EndsInv /\ WholeInv

-----------------------------------------------------------------------------
LEMMA CountsNothing == ASSUME NEW count \in Nat PROVE Counts(count, <<>>, count)
<1> DEFINE f == [n \in 0 .. 0 |-> count]
<1>1. Len(<<>>) = 0
  OBVIOUS
<1>2. f \in [0 .. 0 -> Nat] /\ f[0] = count
  OBVIOUS
<1> HIDE DEF f
<1> QED
  BY <1>1, <1>2 DEF Counts

LEMMA CountsOn ==
  ASSUME NEW sent \in Seq(Messages), NEW from, NEW to \in Nat, Counts(from, sent, to),
         NEW message \in Messages, NEW more, Size(message) \in Nat, more = to + Size(message)
  PROVE  Counts(from, Append(sent, message), more)
<1> DEFINE n == Len(sent) longer == Append(sent, message)
<1>1. PICK f \in [0 .. n -> Nat] :
        f[0] = from /\ f[n] = to /\ \A k \in 1 .. n : f[k] = f[k - 1] + Size(sent[k])
  BY DEF Counts
<1>2. n \in Nat /\ Len(longer) = n + 1 /\ longer[n + 1] = message /\ \A k \in 1 .. n : longer[k] = sent[k]
  BY AppendProperties, LenProperties
<1> DEFINE g == [k \in 0 .. (n + 1) |-> IF k = n + 1 THEN more ELSE f[k]]
<1> HIDE DEF longer, n
<1>3. g \in [0 .. (n + 1) -> Nat] /\ g[0] = from /\ g[n + 1] = more
  BY <1>1, <1>2
<1>4. ASSUME NEW k \in 1 .. (n + 1) PROVE g[k] = g[k - 1] + Size(longer[k])
  <2>1. CASE k = n + 1
    BY <1>1, <1>2, <2>1
  <2>2. CASE k \in 1 .. n
    BY <1>1, <1>2, <2>2
  <2> QED
    BY <1>2, <2>1, <2>2
<1> HIDE DEF g
<1> QED
  BY <1>2, <1>3, <1>4 DEF Counts, longer

LEMMA CountsOff ==
  ASSUME NEW sent \in Seq(Messages), sent # <<>>, NEW from, NEW to, Counts(from, sent, to),
         NEW more, more = from + Size(Head(sent))
  PROVE  Counts(more, Tail(sent), to)
<1> DEFINE n == Len(sent) shorter == Tail(sent)
<1>1. PICK f \in [0 .. n -> Nat] :
        f[0] = from /\ f[n] = to /\ \A k \in 1 .. n : f[k] = f[k - 1] + Size(sent[k])
  BY DEF Counts
<1>2. n \in Nat /\ n > 0 /\ Len(shorter) = n - 1 /\ sent[1] = Head(sent)
      /\ \A k \in 1 .. (n - 1) : shorter[k] = sent[k + 1]
  BY HeadTailProperties, EmptySeq, LenProperties
<1> DEFINE g == [k \in 0 .. (n - 1) |-> f[k + 1]]
<1> HIDE DEF shorter, n
<1>3. g \in [0 .. (n - 1) -> Nat] /\ g[0] = more /\ g[n - 1] = to
  BY <1>1, <1>2
<1>4. ASSUME NEW k \in 1 .. (n - 1) PROVE g[k] = g[k - 1] + Size(shorter[k])
  BY <1>1, <1>2
<1> HIDE DEF g
<1> QED
  BY <1>2, <1>3, <1>4 DEF Counts, shorter

LEMMA Sized ==
  ASSUME ListFits, NEW message \in Messages
  PROVE  Size(message) \in Nat /\ (message.kind # "keys" => Size(message) = 0)
<1>1. CASE message.kind = "keys"
  <2>1. message.keys \subseteq AllKeys
    BY <1>1 DEF Messages, Batches, Ends, Failures
  <2>2. IsFiniteSet(message.keys)
    BY <2>1, FS_Subset DEF ListFits, KeysFit
  <2> QED
    BY <1>1, <2>2, FS_CardinalityType DEF Size
<1>2. CASE message.kind # "keys"
  BY <1>2 DEF Size
<1> QED
  BY <1>1, <1>2

LEMMA LatestIs ==
  ASSUME KeyListTyped
  PROVE  /\ Len(scans) \in Nat /\ Len(scans) > 0 /\ DOMAIN scans = 1 .. Len(scans)
         /\ Latest \in Scans /\ \A i \in 1 .. Len(scans) : scans[i] \in Scans
<1>1. Len(scans) \in Nat /\ Len(scans) > 0 /\ DOMAIN scans = 1 .. Len(scans)
  BY EmptySeq, LenProperties DEF KeyListTyped
<1> QED
  BY <1>1, ElementOfSeq DEF KeyListTyped, Latest

\* The last scan changes.
LEMMA LatestChanges ==
  ASSUME KeyListTyped, NEW scan \in Scans, scans' = [scans EXCEPT ![Len(scans)] = scan]
  PROVE  /\ scans' \in Seq(Scans) /\ scans' # <<>> /\ Len(scans') = Len(scans) /\ Latest' = scan
<1>1. /\ scans \in Seq(Scans) /\ Len(scans) \in Nat /\ Len(scans) > 0 /\ DOMAIN scans = 1 .. Len(scans)
  BY LatestIs DEF KeyListTyped
<1>2. scans' \in Seq(Scans) /\ Len(scans') = Len(scans)
  BY <1>1, ExceptSeq
<1>3. scans'[Len(scans)] = scan
  BY <1>1
<1>4. scans' # <<>>
  BY <1>1, <1>2, EmptySeq
<1> QED
  BY <1>2, <1>3, <1>4 DEF Latest

-----------------------------------------------------------------------------
\* A page: what it took is on its way, and counted; the last one has all that was there.
LEMMA PageKeeps ==
  ASSUME ListFits, KeyListInv, NEW i \in DOMAIN scans, ScanPage(i)
  PROVE  KeyListInv'
<1>1. /\ Len(scans) \in Nat /\ Len(scans) > 0 /\ i = Len(scans) /\ tql.scan = i /\ scans[i] = Latest
      /\ Latest \in Scans /\ ~Latest.done
  BY LatestIs DEF ScanPage, KeyListInv, KeyListTyped, Latest
<1> DEFINE found == server[Latest.database] \cap Matches(Latest.pattern)
<1>2. PICK page \in SUBSET (server[scans[i].database] \cap Matches(scans[i].pattern)), last \in BOOLEAN,
             taken \in SUBSET (server[scans[i].database] \cap Matches(scans[i].pattern)) :
        LET scan == scans[i] IN
        /\ last => scan.steady \subseteq scan.seen \cup page
        /\ ~last => page # {}
        /\ taken \subseteq page
        /\ LET room == Limit - scan.count
               count == scan.count + Cardinality(taken)
           IN /\ Cardinality(taken) = IF Cardinality(page) <= room THEN Cardinality(page) ELSE room
              /\ LET batch == [kind |-> "keys", keys |-> taken]
                     end == [kind |-> "done", capped |-> ~last]
                     over == last \/ count >= Limit
                     sent == Append(scan.sent, batch)
                 IN scans' = [scans EXCEPT ![i] = [scan EXCEPT
                      !.seen = scan.seen \cup taken, !.count = count, !.done = over,
                      !.sent = IF over THEN Append(sent, end) ELSE sent]]
  BY Zenon DEF ScanPage
<1> DEFINE count == Latest.count + Cardinality(taken)
           batch == [kind |-> "keys", keys |-> taken]
           end == [kind |-> "done", capped |-> ~last]
           over == last \/ count >= Limit
           begun == Append(Latest.sent, batch)
           sent == IF over THEN Append(begun, end) ELSE begun
           seen == Latest.seen \cup taken
           put(done) == [Latest EXCEPT !.seen = seen, !.count = count, !.done = done, !.sent = sent]
<1>0. /\ page \subseteq found /\ taken \subseteq page
      /\ last => Latest.steady \subseteq Latest.seen \cup page
      /\ Cardinality(taken) = IF Cardinality(page) <= Limit - Latest.count THEN Cardinality(page)
                              ELSE Limit - Latest.count
  BY <1>1, <1>2
<1>3. UNCHANGED <<server, conn, tql, others>> /\ scans' = [scans EXCEPT ![Len(scans)] = put(over)]
  BY <1>1, <1>2 DEF ScanPage
<1>4. /\ Latest.database \in Databases /\ page \subseteq AllKeys /\ taken \subseteq AllKeys
      /\ taken \subseteq Matches(Latest.pattern)
      /\ IsFiniteSet(page) /\ IsFiniteSet(taken) /\ Cardinality(page) \in Nat /\ Cardinality(taken) \in Nat
  <2>1. Latest.database \in Databases
    BY DEF KeyListInv, FollowsInv, KeyListTyped
  <2>2. found \subseteq AllKeys
    BY <2>1 DEF KeyListInv, KeyListTyped
  <2>3. page \subseteq AllKeys /\ taken \subseteq AllKeys /\ taken \subseteq Matches(Latest.pattern)
    BY <1>0, <2>2
  <2>4. IsFiniteSet(page) /\ IsFiniteSet(taken)
    BY <2>3, FS_Subset DEF ListFits, KeysFit
  <2> QED
    BY <2>1, <2>3, <2>4, FS_CardinalityType
<1>5. over \in BOOLEAN /\ count \in Nat /\ seen \in SUBSET AllKeys
  <2>1. over \in BOOLEAN
    OBVIOUS
  <2> QED
    BY <1>1, <1>4, <2>1 DEF Scans
<1>6. batch \in Messages /\ end \in Messages /\ end.kind = "done" /\ end.capped = ~last
      /\ Size(batch) = Cardinality(taken) /\ Size(end) = 0 /\ Latest.sent \in Seq(Messages)
  <2>1. batch \in Messages
    BY <1>4 DEF Messages, Batches
  <2>2. end \in Messages /\ end.kind = "done" /\ end.capped = ~last
    <3> DEFINE said(c) == [kind |-> "done", capped |-> c]
    <3>1. ASSUME NEW c \in BOOLEAN PROVE said(c) \in Messages /\ said(c).kind = "done" /\ said(c).capped = c
      BY DEF Messages, Ends
    <3>2. (~last) \in BOOLEAN /\ end = said(~last)
      OBVIOUS
    <3> HIDE DEF said, end
    <3> QED
      BY <3>1, <3>2
  <2>3. Size(batch) = Cardinality(taken) /\ Size(end) = 0
    BY <2>2 DEF Size
  <2> QED
    BY <1>1, <2>1, <2>2, <2>3 DEF Scans
<1> HIDE DEF over, count, end, seen
\* What it had sent is where it was.
<1>7. /\ begun \in Seq(Messages) /\ Len(begun) = Len(Latest.sent) + 1 /\ Len(Latest.sent) \in Nat
      /\ \A n \in 1 .. Len(Latest.sent) : begun[n] = Latest.sent[n]
      /\ begun[Len(begun)] = batch /\ DOMAIN begun = 1 .. Len(begun) /\ DOMAIN Latest.sent = 1 .. Len(Latest.sent)
  BY <1>6, AppendProperties, LenProperties
<1>8. /\ sent \in Seq(Messages) /\ DOMAIN sent = 1 .. Len(sent) /\ Len(sent) \in Nat
      /\ Len(sent) = IF over THEN Len(begun) + 1 ELSE Len(begun)
      /\ \A n \in 1 .. Len(begun) : sent[n] = begun[n]
      /\ over => sent[Len(sent)] = end /\ sent # <<>>
  BY <1>5, <1>6, <1>7, AppendProperties, LenProperties
<1> HIDE DEF begun
<1>9. Counts(tql.count, sent, count)
  <2>1. Counts(tql.count, begun, count)
    BY <1>1, <1>4, <1>5, <1>6, CountsOn DEF KeyListInv, WholeInv, count, begun, Scans
  <2>2. CASE over
    BY <1>5, <1>6, <1>7, <2>1, <2>2, CountsOn
  <2> QED
    BY <2>1, <2>2
<1> HIDE DEF sent
<1>10. /\ put(over) \in Scans /\ put(over).database = Latest.database /\ put(over).pattern = Latest.pattern
       /\ put(over).seen = seen /\ put(over).count = count /\ put(over).sent = sent
       /\ put(over).steady = Latest.steady /\ put(over).failed = Latest.failed
       /\ (put(over).done <=> over)
  <2>1. ASSUME NEW done \in BOOLEAN
        PROVE  /\ put(done) \in Scans /\ put(done).database = Latest.database
               /\ put(done).pattern = Latest.pattern /\ put(done).seen = seen /\ put(done).count = count
               /\ put(done).sent = sent /\ put(done).steady = Latest.steady
               /\ put(done).failed = Latest.failed /\ put(done).done = done
    BY <1>1, <1>5, <1>8 DEF Scans
  <2> HIDE DEF put
  <2> QED
    BY <1>5, <2>1
<1> HIDE DEF put
<1>11. scans' \in Seq(Scans) /\ scans' # <<>> /\ Len(scans') = Len(scans) /\ Latest' = put(over)
  BY <1>3, <1>10, LatestChanges DEF KeyListInv
<1>12. /\ tql' = tql /\ tql.scan # 0 /\ Latest'.sent = sent /\ (Latest'.done <=> over)
       /\ (Latest'.failed <=> Latest.failed)
       /\ over => sent # <<>> /\ sent[Len(sent)].kind = "done" /\ (sent[Len(sent)].capped <=> ~last)
  <2>1. tql' = tql /\ tql.scan # 0 /\ Latest'.sent = sent /\ (Latest'.done <=> over)
    BY <1>1, <1>3, <1>10, <1>11
  <2>2. Latest'.failed <=> Latest.failed
    BY <1>10, <1>11
  <2>3. ASSUME over PROVE sent # <<>> /\ sent[Len(sent)].kind = "done" /\ (sent[Len(sent)].capped <=> ~last)
    <3>1. sent # <<>> /\ sent[Len(sent)] = end
      BY <1>8, <2>3
    <3> QED
      BY <1>6, <3>1
  <2> QED
    BY <2>1, <2>2, <2>3
<1>17. KeyListTyped'
  BY <1>3, <1>11 DEF KeyListInv, KeyListTyped
<1>13. MarksInv'
  BY <1>3 DEF KeyListInv, MarksInv
<1>14. FollowsInv'
  <2>1. ASSUME NEW n \in DOMAIN sent, sent[n].kind = "keys" PROVE sent[n].keys \subseteq Matches(Latest.pattern)
    <3>1. CASE n \in 1 .. Len(Latest.sent)
      BY <1>7, <1>8, <2>1, <3>1 DEF KeyListInv, FollowsInv
    <3>2. CASE n = Len(begun)
      BY <1>4, <1>7, <1>8, <3>2
    <3>3. CASE n = Len(begun) + 1
      BY <1>6, <1>7, <1>8, <2>1, <3>3
    <3> QED
      BY <1>7, <1>8, <3>1, <3>2, <3>3
  <2> QED
    BY <1>3, <1>10, <1>11, <2>1 DEF KeyListInv, FollowsInv
<1>15. EndsInv'
  <2>1. ASSUME NEW n \in DOMAIN sent, n # Len(sent) \/ ~over PROVE sent[n].kind = "keys"
    <3>1. CASE n \in 1 .. Len(Latest.sent)
      BY <1>1, <1>7, <1>8, <3>1 DEF KeyListInv, EndsInv
    <3>2. CASE n = Len(begun)
      BY <1>7, <1>8, <3>2
    <3> QED
      BY <1>7, <1>8, <2>1, <3>1, <3>2
  <2>2. ~Latest.failed
    BY <1>1 DEF KeyListInv, EndsInv
  <2> QED
    BY <1>12, <2>1, <2>2 DEF EndsInv
<1>16. WholeInv'
  <2>1. ASSUME NEW key \in seen
        PROVE  key \in tql.keys \/ \E n \in DOMAIN sent : sent[n].kind = "keys" /\ key \in sent[n].keys
    <3>1. CASE key \in taken
      <4>1. Len(begun) \in DOMAIN sent /\ sent[Len(begun)] = batch
        BY <1>7, <1>8
      <4> QED
        BY <3>1, <4>1
    <3>2. CASE key \in Latest.seen /\ key \notin tql.keys
      <4>1. PICK n \in DOMAIN Latest.sent : Latest.sent[n].kind = "keys" /\ key \in Latest.sent[n].keys
        BY <3>2 DEF KeyListInv, WholeInv
      <4>2. n \in DOMAIN sent /\ sent[n] = Latest.sent[n]
        BY <1>7, <1>8
      <4> QED
        BY <4>1, <4>2
    <3> QED
      BY <2>1, <3>1, <3>2 DEF seen
  <2>2. ASSUME over, last, count < Limit PROVE Latest.steady \subseteq seen
    <3>1. Cardinality(page) <= Limit - Latest.count
      BY <1>0, <1>1, <1>4, <2>2 DEF count, Scans, ListFits, KeysFit
    <3>2. taken = page
      BY <1>0, <1>4, <3>1, FS_Subset
    <3> QED
      BY <1>0, <2>2, <3>2 DEF seen
  <2>3. over /\ ~SaidCapped' => last
    BY <1>12 DEF SaidCapped
  <2> QED
    BY <1>3, <1>9, <1>10, <1>11, <2>1, <2>2, <2>3 DEF WholeInv
<1> QED
  BY <1>17, <1>13, <1>14, <1>15, <1>16 DEF KeyListInv

LEMMA FailKeeps ==
  ASSUME ListFits, KeyListInv, NEW i \in DOMAIN scans, ScanFails(i)
  PROVE  KeyListInv'
<1> DEFINE end == [kind |-> "failed"]
           sent == Append(Latest.sent, end)
           scan == [Latest EXCEPT !.done = TRUE, !.failed = TRUE, !.sent = sent]
<1>1. /\ Len(scans) \in Nat /\ Len(scans) > 0 /\ i = Len(scans) /\ tql.scan = i /\ scans[i] = Latest
      /\ Latest \in Scans /\ ~Latest.done
  BY LatestIs DEF ScanFails, KeyListInv, KeyListTyped, Latest
<1>2. UNCHANGED <<server, conn, tql, others>> /\ scans' = [scans EXCEPT ![Len(scans)] = scan]
  BY <1>1 DEF ScanFails
<1>3. end \in Messages /\ Size(end) = 0 /\ Latest.sent \in Seq(Messages)
  BY <1>1 DEF Messages, Failures, Size, Scans
<1>4. /\ sent \in Seq(Messages) /\ Len(sent) = Len(Latest.sent) + 1 /\ Len(Latest.sent) \in Nat /\ sent # <<>>
      /\ \A n \in 1 .. Len(Latest.sent) : sent[n] = Latest.sent[n]
      /\ sent[Len(sent)] = end /\ DOMAIN sent = 1 .. Len(sent) /\ DOMAIN Latest.sent = 1 .. Len(Latest.sent)
  BY <1>3, AppendProperties, LenProperties
<1>5. Counts(tql.count, sent, Latest.count)
  <2>1. Latest.count \in Nat
    BY <1>1 DEF Scans
  <2>2. Counts(tql.count, Latest.sent, Latest.count) /\ Latest.count = Latest.count + Size(end) /\ Size(end) \in Nat
    BY <1>3, <2>1 DEF KeyListInv, WholeInv
  <2> HIDE DEF end
  <2> QED
    BY <1>3, <2>1, <2>2, CountsOn
<1> HIDE DEF sent
<1>6. /\ scan \in Scans /\ scan.database = Latest.database /\ scan.pattern = Latest.pattern
      /\ scan.seen = Latest.seen /\ scan.count = Latest.count /\ scan.sent = sent
      /\ scan.steady = Latest.steady /\ scan.failed /\ scan.done
  BY <1>1, <1>4 DEF Scans
<1> HIDE DEF scan
<1>7. scans' \in Seq(Scans) /\ scans' # <<>> /\ Len(scans') = Len(scans) /\ Latest' = scan
  BY <1>2, <1>6, LatestChanges DEF KeyListInv
<1>8. tql' = tql /\ tql.scan # 0
  BY <1>1, <1>2
<1>9. KeyListTyped'
  BY <1>2, <1>7 DEF KeyListInv, KeyListTyped
<1>10. MarksInv'
  BY <1>2 DEF KeyListInv, MarksInv
<1>11. FollowsInv'
  <2>1. ASSUME NEW n \in DOMAIN sent, sent[n].kind = "keys" PROVE sent[n].keys \subseteq Matches(Latest.pattern)
    <3>1. n # Len(sent)
      BY <1>4, <2>1
    <3> QED
      BY <1>4, <2>1, <3>1 DEF KeyListInv, FollowsInv
  <2> QED
    BY <1>6, <1>7, <1>8, <2>1 DEF KeyListInv, FollowsInv
<1>12. EndsInv'
  <2>1. ASSUME NEW n \in DOMAIN sent, n # Len(sent) PROVE sent[n].kind = "keys"
    BY <1>1, <1>4, <2>1 DEF KeyListInv, EndsInv
  <2>2. sent[Len(sent)].kind = "failed"
    BY <1>4
  <2> QED
    BY <1>4, <1>6, <1>7, <1>8, <2>1, <2>2 DEF EndsInv
<1>13. WholeInv'
  <2>1. ASSUME NEW key \in Latest.seen
        PROVE  key \in tql.keys \/ \E n \in DOMAIN sent : sent[n].kind = "keys" /\ key \in sent[n].keys
    <3> SUFFICES ASSUME key \notin tql.keys
                 PROVE  \E n \in DOMAIN sent : sent[n].kind = "keys" /\ key \in sent[n].keys
      OBVIOUS
    <3>1. PICK n \in DOMAIN Latest.sent : Latest.sent[n].kind = "keys" /\ key \in Latest.sent[n].keys
      BY <2>1 DEF KeyListInv, WholeInv
    <3>2. n \in DOMAIN sent /\ sent[n] = Latest.sent[n]
      BY <1>4
    <3> QED
      BY <3>1, <3>2
  <2> QED
    BY <1>5, <1>6, <1>7, <1>8, <2>1 DEF WholeInv
<1> QED
  BY <1>9, <1>10, <1>11, <1>12, <1>13 DEF KeyListInv

\* A thread that is not heard is not the last one: that is heard as long as it goes on.
LEMMA OverTyped == Over \in Scans
<1>1. <<>> \in Seq(Messages) /\ "" \in AllPatterns
  BY EmptySeq DEF AllPatterns
<1> QED
  BY <1>1 DEF Over, Scans

LEMMA UnheardKeeps ==
  ASSUME ListFits, KeyListInv, NEW i \in DOMAIN scans, ScanUnheard(i)
  PROVE  KeyListInv'
<1>1. /\ scans \in Seq(Scans) /\ Len(scans) \in Nat /\ Len(scans) > 0 /\ i \in 1 .. Len(scans)
  BY LatestIs DEF KeyListInv, KeyListTyped
<1>2. UNCHANGED <<server, conn, tql, others>> /\ scans' = [scans EXCEPT ![i] = Over] /\ ~scans[i].done /\ tql.scan # i
  BY DEF ScanUnheard
<1>3. i # Len(scans)
  BY <1>2 DEF KeyListInv, KeyListTyped, EndsInv, Latest
<1>4. scans' \in Seq(Scans) /\ Len(scans') = Len(scans) /\ scans'[Len(scans)] = scans[Len(scans)]
  BY <1>1, <1>2, <1>3, ExceptSeq, OverTyped
<1>5. Latest' = Latest /\ scans' # <<>>
  BY <1>1, <1>4, EmptySeq DEF Latest
<1> QED
  BY <1>2, <1>4, <1>5 DEF KeyListInv, KeyListTyped, MarksInv, FollowsInv, EndsInv, WholeInv, SaidCapped

-----------------------------------------------------------------------------
\* What was sent is heard in order.
LEMMA HearKeeps ==
  ASSUME ListFits, KeyListInv, HearFromScan
  PROVE  KeyListInv'
<1> DEFINE batch == Head(Latest.sent)
           rest == Tail(Latest.sent)
           scan == [Latest EXCEPT !.sent = rest]
<1>1. /\ Len(scans) \in Nat /\ Len(scans) > 0 /\ DOMAIN scans = 1 .. Len(scans) /\ tql.scan = Len(scans)
      /\ scans[tql.scan] = Latest /\ Latest \in Scans /\ Latest.sent # <<>>
  BY LatestIs DEF HearFromScan, KeyListInv, KeyListTyped, Latest
<1>2. /\ UNCHANGED <<server, conn, others>> /\ scans' = [scans EXCEPT ![Len(scans)] = scan]
      /\ tql' = CASE batch.kind = "keys" -> [tql EXCEPT !.keys = @ \cup batch.keys, !.count = @ + Cardinality(batch.keys)]
                  [] batch.kind = "done" -> [tql EXCEPT !.capped = batch.capped, !.scan = 0]
                  [] OTHER -> [tql EXCEPT !.scan = 0]
  BY <1>1 DEF HearFromScan
<1>3. /\ Latest.sent \in Seq(Messages) /\ batch \in Messages /\ batch = Latest.sent[1]
      /\ rest \in Seq(Messages) /\ Len(rest) = Len(Latest.sent) - 1 /\ Len(Latest.sent) \in Nat /\ Len(Latest.sent) > 0
      /\ DOMAIN Latest.sent = 1 .. Len(Latest.sent) /\ DOMAIN rest = 1 .. Len(rest)
      /\ \A n \in 1 .. Len(rest) : rest[n] = Latest.sent[n + 1]
  <2>1. Latest.sent \in Seq(Messages)
    BY <1>1 DEF Scans
  <2> QED
    BY <1>1, <2>1, HeadTailProperties, EmptySeq, LenProperties
<1>4. Size(batch) \in Nat /\ (batch.kind # "keys" => Size(batch) = 0) /\ Counts(tql.count + Size(batch), rest, Latest.count)
  <2>1. Size(batch) \in Nat /\ (batch.kind # "keys" => Size(batch) = 0)
    BY <1>3, Sized
  <2>2. Counts(tql.count, Latest.sent, Latest.count)
    BY DEF KeyListInv, WholeInv
  <2> QED
    BY <1>1, <1>3, <2>1, <2>2, CountsOff
<1> HIDE DEF rest, batch
<1>5. /\ scan \in Scans /\ scan.database = Latest.database /\ scan.pattern = Latest.pattern
      /\ scan.seen = Latest.seen /\ scan.count = Latest.count /\ scan.sent = rest
      /\ scan.steady = Latest.steady /\ scan.failed = Latest.failed /\ scan.done = Latest.done
  BY <1>1, <1>3 DEF Scans
<1> HIDE DEF scan
<1>6. scans' \in Seq(Scans) /\ scans' # <<>> /\ Len(scans') = Len(scans) /\ Latest' = scan
  BY <1>2, <1>5, LatestChanges DEF KeyListInv
<1>7. tql.count \in Nat
  BY DEF KeyListInv, KeyListTyped
\* It hears keys, and more is to come,
<1>8. CASE batch.kind = "keys"
  <2>1. /\ batch.keys \subseteq AllKeys /\ batch.keys \subseteq Matches(Latest.pattern)
        /\ Cardinality(batch.keys) = Size(batch)
    BY <1>3, <1>8 DEF Messages, Batches, Ends, Failures, KeyListInv, FollowsInv, Size
  <2>2. /\ tql' = [tql EXCEPT !.keys = @ \cup batch.keys, !.count = @ + Size(batch)]
        /\ tql.count + Size(batch) \in Nat /\ tql.keys \cup batch.keys \subseteq AllKeys
    BY <1>2, <1>4, <1>7, <1>8, <2>1 DEF KeyListInv, KeyListTyped
  <2>3. /\ tql'.keys = tql.keys \cup batch.keys /\ tql'.count = tql.count + Size(batch)
        /\ tql'.database = tql.database /\ tql'.pattern = tql.pattern /\ tql'.scan = tql.scan
        /\ tql'.marked = tql.marked /\ tql'.capped = tql.capped /\ tql.scan # 0
        /\ tql' \in [database : Databases, pattern : AllPatterns, keys : SUBSET AllKeys, count : Nat,
              capped : BOOLEAN, index : {tql'.index}, opened : {tql'.opened}, closed : {tql'.closed},
              scan : {0, Len(scans)}, marked : SUBSET (AllKeys \X Databases)]
    <3> DEFINE put(keys, count) == [tql EXCEPT !.keys = keys, !.count = count]
               fits(t, keys, count) ==
                 /\ t.keys = keys /\ t.count = count /\ t.database = tql.database /\ t.pattern = tql.pattern
                 /\ t.scan = tql.scan /\ t.marked = tql.marked /\ t.capped = tql.capped
                 /\ t \in [database : Databases, pattern : AllPatterns, keys : SUBSET AllKeys, count : Nat,
                      capped : BOOLEAN, index : {t.index}, opened : {t.opened}, closed : {t.closed},
                      scan : {0, Len(scans)}, marked : SUBSET (AllKeys \X Databases)]
    <3>1. ASSUME NEW keys \in SUBSET AllKeys, NEW count \in Nat PROVE fits(put(keys, count), keys, count)
      BY DEF KeyListInv, KeyListTyped
    <3>2. tql' = put(tql.keys \cup batch.keys, tql.count + Size(batch))
      BY <2>2
    <3>3. tql.keys \cup batch.keys \in SUBSET AllKeys
      BY <2>2
    <3> HIDE DEF put, fits
    <3>4. fits(tql', tql.keys \cup batch.keys, tql.count + Size(batch))
      BY <2>2, <3>1, <3>2, <3>3
    <3> QED
      BY <1>1, <3>4 DEF fits
  <2>4. KeyListTyped' /\ MarksInv'
    BY <1>2, <1>6, <2>3 DEF KeyListInv, KeyListTyped, MarksInv
  <2>5. FollowsInv'
    <3>1. \A n \in DOMAIN rest : rest[n].kind = "keys" => rest[n].keys \subseteq Matches(Latest.pattern)
      <4> TAKE n \in DOMAIN rest
      <4>1. n + 1 \in DOMAIN Latest.sent /\ rest[n] = Latest.sent[n + 1]
        BY <1>3
      <4> QED
        BY <4>1 DEF KeyListInv, FollowsInv
    <3> QED
      BY <1>5, <1>6, <2>1, <2>3, <3>1 DEF KeyListInv, FollowsInv
  <2>6. EndsInv'
    <3>1. ASSUME NEW n \in DOMAIN rest, n # Len(rest) \/ ~Latest.done PROVE rest[n].kind = "keys"
      <4>1. /\ n + 1 \in DOMAIN Latest.sent /\ rest[n] = Latest.sent[n + 1]
            /\ n # Len(rest) => n + 1 # Len(Latest.sent)
        BY <1>3
      <4> QED
        BY <3>1, <4>1 DEF KeyListInv, EndsInv
    <3>2. ASSUME Latest.done
          PROVE  rest # <<>> /\ rest[Len(rest)].kind = IF Latest.failed THEN "failed" ELSE "done"
      <4>1. Latest.sent[Len(Latest.sent)].kind = IF Latest.failed THEN "failed" ELSE "done"
        BY <1>1, <3>2 DEF KeyListInv, EndsInv
      <4>2. Len(rest) > 0 /\ rest[Len(rest)] = Latest.sent[Len(Latest.sent)]
        BY <1>3, <1>8, <4>1
      <4> QED
        BY <1>3, <4>1, <4>2, EmptySeq
    <3>3. Latest.failed => Latest.done
      BY DEF KeyListInv, EndsInv
    <3> QED
      BY <1>5, <1>6, <2>3, <3>1, <3>2, <3>3 DEF EndsInv
  <2>7. WholeInv'
    <3>1. ASSUME NEW key \in Latest.seen
          PROVE  key \in tql'.keys \/ \E n \in DOMAIN rest : rest[n].kind = "keys" /\ key \in rest[n].keys
      <4> SUFFICES ASSUME key \notin tql.keys, key \notin batch.keys
                   PROVE  \E n \in DOMAIN rest : rest[n].kind = "keys" /\ key \in rest[n].keys
        BY <2>3
      <4>1. PICK n \in DOMAIN Latest.sent : Latest.sent[n].kind = "keys" /\ key \in Latest.sent[n].keys
        BY <3>1 DEF KeyListInv, WholeInv
      <4>2. n # 1
        BY <1>3, <4>1
      <4>3. n - 1 \in DOMAIN rest /\ rest[n - 1] = Latest.sent[n]
        BY <1>3, <4>2
      <4> QED
        BY <4>1, <4>3
    <3>2. Counts(tql'.count, rest, Latest.count)
      BY <1>4, <2>3
    <3>3. Latest.done => SaidCapped' = SaidCapped
      <4> SUFFICES ASSUME Latest.done PROVE rest[Len(rest)] = Latest.sent[Len(Latest.sent)]
        BY <1>5, <1>6, <2>3 DEF SaidCapped
      <4>1. Latest.sent[Len(Latest.sent)].kind # "keys"
        BY <1>1 DEF KeyListInv, EndsInv
      <4> QED
        BY <1>3, <1>8, <4>1
    <3> QED
      BY <1>5, <1>6, <3>1, <3>2, <3>3 DEF KeyListInv, WholeInv
  <2> QED
    BY <2>4, <2>5, <2>6, <2>7 DEF KeyListInv
\* or how the scan ended, and that was all.
<1>9. CASE batch.kind # "keys"
  <2>1. /\ Len(Latest.sent) = 1 /\ Latest.done /\ rest = <<>>
        /\ batch.kind = IF Latest.failed THEN "failed" ELSE "done"
    <3>1. Len(Latest.sent) = 1 /\ Latest.done
      <4>1. 1 \in DOMAIN Latest.sent /\ Latest.sent[1].kind # "keys"
        BY <1>3, <1>9
      <4> QED
        BY <1>3, <4>1 DEF KeyListInv, EndsInv
    <3>2. rest = <<>>
      BY <1>3, <3>1, EmptySeq
    <3> QED
      BY <1>1, <1>3, <3>1, <3>2 DEF KeyListInv, EndsInv
  <2>2. /\ tql'.keys = tql.keys /\ tql'.count = tql.count /\ tql'.database = tql.database
        /\ tql'.pattern = tql.pattern /\ tql'.scan = 0 /\ tql'.marked = tql.marked
        /\ ~Latest.failed => tql'.capped = batch.capped
        /\ tql' \in [database : Databases, pattern : AllPatterns, keys : SUBSET AllKeys, count : Nat,
              capped : BOOLEAN, index : {tql'.index}, opened : {tql'.opened}, closed : {tql'.closed},
              scan : {0, Len(scans)}, marked : SUBSET (AllKeys \X Databases)]
    <3>1. CASE Latest.failed
      <4>1. tql' = [tql EXCEPT !.scan = 0]
        BY <1>2, <2>1, <3>1
      <4> QED
        BY <3>1, <4>1 DEF KeyListInv, KeyListTyped
    <3>2. CASE ~Latest.failed
      <4>1. tql' = [tql EXCEPT !.capped = batch.capped, !.scan = 0]
        BY <1>2, <2>1, <3>2
      <4>2. batch.capped \in BOOLEAN
        BY <1>3, <2>1, <3>2 DEF Messages, Batches, Ends, Failures
      <4> QED
        BY <3>2, <4>1, <4>2 DEF KeyListInv, KeyListTyped
    <3> QED
      BY <3>1, <3>2
  <2>3. KeyListTyped' /\ MarksInv'
    BY <1>2, <1>6, <2>2 DEF KeyListInv, KeyListTyped, MarksInv
  <2>4. FollowsInv' /\ EndsInv'
    <3>1. DOMAIN rest = {}
      BY <1>3, <2>1
    <3> QED
      BY <1>5, <1>6, <2>1, <2>2, <3>1 DEF KeyListInv, FollowsInv, EndsInv
  <2>5. WholeInv'
    <3>1. \A key \in Latest.seen : key \in tql.keys
      <4> TAKE key \in Latest.seen
      <4>1. ~(\E n \in DOMAIN Latest.sent : Latest.sent[n].kind = "keys" /\ key \in Latest.sent[n].keys)
        BY <1>3, <1>9, <2>1
      <4> QED
        BY <4>1 DEF KeyListInv, WholeInv
    <3>2. Counts(tql.count, rest, Latest.count)
      BY <1>4, <1>7, <1>9
    <3>3. ~Latest.failed => SaidCapped' = SaidCapped
      BY <1>1, <1>3, <2>1, <2>2 DEF SaidCapped
    <3> QED
      BY <1>5, <1>6, <2>2, <3>1, <3>2, <3>3 DEF KeyListInv, WholeInv
  <2> QED
    BY <2>3, <2>4, <2>5 DEF KeyListInv
<1> QED
  BY <1>8, <1>9

-----------------------------------------------------------------------------
\* A list that is emptied hears nothing but its new scan.
IsList(t) ==
  t \in [database : Databases, pattern : AllPatterns, keys : SUBSET AllKeys, count : Nat,
         capped : BOOLEAN, index : {t.index}, opened : {t.opened}, closed : {t.closed},
         scan : Nat, marked : SUBSET (AllKeys \X Databases)]

LEMMA NewScan ==
  ASSUME NEW held \in [Databases -> SUBSET AllKeys], NEW d \in Databases, NEW pattern \in AllPatterns
  PROVE  LET scan == ScanOf(held, d, pattern) IN
         /\ scan \in Scans /\ scan.database = d /\ scan.pattern = pattern /\ scan.seen = {}
         /\ scan.sent = <<>> /\ scan.count = 0 /\ ~scan.done /\ ~scan.failed
<1>1. <<>> \in Seq(Messages)
  BY EmptySeq
<1> QED
  BY <1>1 DEF ScanOf, Scans

LEMMA RescanKeeps ==
  ASSUME ListFits, KeyListTyped, NEW next, IsList(next), Rescan(next),
         server' \in [Databases -> SUBSET AllKeys], others' = others, conn' = next.database,
         \A mark \in next.marked : mark[2] = next.database
  PROVE  KeyListInv'
<1> DEFINE old == [i \in DOMAIN scans |-> IF scans[i].done THEN Over ELSE scans[i]]
           scan == ScanOf(server', next.database, next.pattern)
           emptied == [next EXCEPT !.keys = {}, !.count = 0, !.capped = FALSE, !.index = 1]
<1>1. scans' = Append(old, scan) /\ tql' = [emptied EXCEPT !.scan = Len(scans) + 1]
  BY DEF Rescan, ListFits, KeysFit
<1>2. /\ Len(scans) \in Nat /\ DOMAIN scans = 1 .. Len(scans)
      /\ \A i \in 1 .. Len(scans) : scans[i] \in Scans
  BY LatestIs
<1>3. old \in Seq(Scans) /\ Len(old) = Len(scans)
  <2>1. old \in [1 .. Len(scans) -> Scans]
    BY <1>2, OverTyped
  <2> QED
    BY <1>2, <2>1, SeqDef, LenProperties
<1>4. next.database \in Databases /\ next.pattern \in AllPatterns
  BY DEF IsList
<1>5. /\ scan \in Scans /\ scan.database = next.database /\ scan.pattern = next.pattern /\ scan.seen = {}
      /\ scan.sent = <<>> /\ scan.count = 0 /\ ~scan.done /\ ~scan.failed
  BY <1>4, NewScan
<1> HIDE DEF old, scan
<1>6. /\ scans' \in Seq(Scans) /\ Len(scans') = Len(scans) + 1 /\ scans'[Len(scans) + 1] = scan /\ scans' # <<>>
  BY <1>1, <1>3, <1>5, AppendProperties
<1>7. Latest' = scan
  BY <1>6 DEF Latest
<1>8. /\ tql'.database = next.database /\ tql'.pattern = next.pattern /\ tql'.keys = {} /\ tql'.count = 0
      /\ tql'.scan = Len(scans') /\ tql'.scan # 0 /\ tql'.marked = next.marked
      /\ tql' \in [database : Databases, pattern : AllPatterns, keys : SUBSET AllKeys, count : Nat,
              capped : BOOLEAN, index : {tql'.index}, opened : {tql'.opened}, closed : {tql'.closed},
              scan : {0, Len(scans')}, marked : SUBSET (AllKeys \X Databases)]
  <2>1. tql' = [next EXCEPT !.keys = {}, !.count = 0, !.capped = FALSE, !.index = 1, !.scan = Len(scans')]
    BY <1>1, <1>6 DEF IsList
  <2> QED
    <3> DEFINE put(n) == [next EXCEPT !.keys = {}, !.count = 0, !.capped = FALSE, !.index = 1, !.scan = n]
               fits(t, n) ==
                 /\ t.database = next.database /\ t.pattern = next.pattern /\ t.keys = {} /\ t.count = 0
                 /\ t.scan = n /\ t.marked = next.marked
                 /\ t \in [database : Databases, pattern : AllPatterns, keys : SUBSET AllKeys, count : Nat,
                      capped : BOOLEAN, index : {t.index}, opened : {t.opened}, closed : {t.closed},
                      scan : {0, n}, marked : SUBSET (AllKeys \X Databases)]
    <3>1. ASSUME NEW n \in Nat PROVE fits(put(n), n)
      BY DEF IsList
    <3>2. tql' = put(Len(scans')) /\ Len(scans') \in Nat /\ Len(scans') # 0
      BY <1>2, <1>6, <2>1
    <3> HIDE DEF put, fits
    <3>3. fits(tql', Len(scans'))
      BY <3>1, <3>2
    <3> QED
      BY <3>2, <3>3 DEF fits
<1>9. KeyListTyped'
  BY <1>6, <1>8 DEF KeyListTyped
<1>10. MarksInv'
  BY <1>8 DEF MarksInv
<1>11. FollowsInv' /\ EndsInv'
  <2>1. DOMAIN scan.sent = {}
    BY <1>5
  <2> QED
    BY <1>5, <1>7, <1>8, <2>1 DEF FollowsInv, EndsInv
<1>12. WholeInv'
  <2>1. Counts(0, <<>>, 0)
    BY CountsNothing
  <2> QED
    BY <1>5, <1>7, <1>8, <2>1 DEF WholeInv
<1> QED
  BY <1>9, <1>10, <1>11, <1>12 DEF KeyListInv

LEMMA TqlIsList == ASSUME KeyListTyped PROVE IsList(tql)
<1>1. Len(scans) \in Nat
  BY LatestIs
<1> QED
  BY <1>1 DEF KeyListTyped, IsList

LEMMA RescansKeep ==
  ASSUME ListFits, KeyListInv, NEW number \in Databases, NEW pattern \in AllPatterns,
         UseDatabase(number) \/ Filter(pattern) \/ ScanAgain \/ Write
  PROVE  KeyListInv'
<1>1. /\ IsList(tql) /\ KeyListTyped /\ conn = tql.database /\ others \in Nat
      /\ server \in [Databases -> SUBSET AllKeys] /\ \A mark \in tql.marked : mark[2] = tql.database
  BY TqlIsList DEF KeyListInv, KeyListTyped, MarksInv
<1>2. CASE UseDatabase(number)
  <2> DEFINE next == [tql EXCEPT !.database = number, !.opened = {}, !.closed = {}]
  <2>1. IsList(next) /\ next.database = number /\ next.marked = tql.marked
    BY <1>1 DEF IsList
  <2>2. tql.marked = {} /\ Rescan(next) /\ conn' = number /\ UNCHANGED <<server, others>>
    BY <1>2 DEF UseDatabase
  <2> HIDE DEF next
  <2> QED
    BY <1>1, <2>1, <2>2, RescanKeeps
<1>3. CASE Filter(pattern)
  <2> DEFINE next == [tql EXCEPT !.pattern = pattern]
  <2>1. IsList(next) /\ next.database = tql.database /\ next.marked = tql.marked
    BY <1>1 DEF IsList
  <2>2. Rescan(next) /\ UNCHANGED <<server, conn, others>>
    BY <1>3 DEF Filter
  <2> HIDE DEF next
  <2> QED
    BY <1>1, <2>1, <2>2, RescanKeeps
<1>4. CASE ScanAgain
  BY <1>1, <1>4, RescanKeeps DEF ScanAgain
<1>5. CASE Write
  <2> DEFINE next == [tql EXCEPT !.marked = {}]
  <2>1. IsList(next) /\ next.database = tql.database /\ next.marked = {}
    BY <1>1 DEF IsList
  <2>2. /\ Rescan(next) /\ UNCHANGED <<conn, others>>
        /\ server' = [server EXCEPT ![conn] = @ \ {mark[1] : mark \in tql.marked}]
    BY <1>5 DEF Write
  <2>3. server' \in [Databases -> SUBSET AllKeys]
    BY <1>1, <2>2
  <2> HIDE DEF next
  <2> QED
    BY <1>1, <2>1, <2>2, <2>3, RescanKeeps
<1> QED
  BY <1>2, <1>3, <1>4, <1>5

-----------------------------------------------------------------------------
\* Where the cursor is and what is open change nothing of the list.
LEMMA LookKeeps ==
  ASSUME KeyListInv, UNCHANGED <<server, conn, scans, others>>, NEW index, NEW opened, NEW closed,
         tql' = [tql EXCEPT !.index = index, !.opened = opened, !.closed = closed]
  PROVE  KeyListInv'
<1>1. /\ tql'.database = tql.database /\ tql'.pattern = tql.pattern /\ tql'.keys = tql.keys
      /\ tql'.count = tql.count /\ tql'.capped = tql.capped /\ tql'.scan = tql.scan /\ tql'.marked = tql.marked
      /\ tql' \in [database : Databases, pattern : AllPatterns, keys : SUBSET AllKeys, count : Nat,
              capped : BOOLEAN, index : {tql'.index}, opened : {tql'.opened}, closed : {tql'.closed},
              scan : {0, Len(scans)}, marked : SUBSET (AllKeys \X Databases)]
  BY DEF KeyListInv, KeyListTyped
<1>2. KeyListTyped' /\ MarksInv'
  BY <1>1 DEF KeyListInv, KeyListTyped, MarksInv
<1>3. Latest' = Latest
  BY DEF Latest
<1>4. FollowsInv' /\ EndsInv'
  BY <1>1, <1>3 DEF KeyListInv, FollowsInv, EndsInv
<1>5. WholeInv'
  BY <1>1, <1>3 DEF KeyListInv, WholeInv, SaidCapped
<1> QED
  BY <1>2, <1>4, <1>5 DEF KeyListInv

LEMMA FoldKeeps ==
  ASSUME KeyListInv, NEW open, NEW to, Fold(open) \/ MoveBy(to)
  PROVE  KeyListInv'
<1>1. UNCHANGED <<server, conn, scans, others>>
  BY DEF Fold, MoveBy
<1>2. \E index, opened, closed : tql' = [tql EXCEPT !.index = index, !.opened = opened, !.closed = closed]
  <2>3. CASE MoveBy(to)
    <3>1. tql' = [tql EXCEPT !.index = to, !.opened = tql.opened, !.closed = tql.closed]
      BY <2>3 DEF MoveBy, KeyListInv, KeyListTyped
    <3> QED
      BY <3>1
  <2>4. CASE Fold(open)
    <3>1. \/ \E space : tql' = Opened(space) \/ tql' = Closed(space)
          \/ \E space, n : tql' = [Closed(space) EXCEPT !.index = n]
      BY <2>4, Zenon DEF Fold
    <3>2. ASSUME NEW space, NEW n, tql' = [Closed(space) EXCEPT !.index = n]
          PROVE  tql' = [tql EXCEPT !.index = n, !.opened = tql.opened \ {space}, !.closed = tql.closed \cup {space}]
      BY <3>2 DEF Closed, KeyListInv, KeyListTyped
    <3>3. ASSUME NEW space, tql' = Opened(space)
          PROVE  tql' = [tql EXCEPT !.index = tql.index, !.opened = tql.opened \cup {space},
                                    !.closed = tql.closed \ {space}]
      BY <3>3 DEF Opened, KeyListInv, KeyListTyped
    <3>4. ASSUME NEW space, tql' = Closed(space)
          PROVE  tql' = [tql EXCEPT !.index = tql.index, !.opened = tql.opened \ {space},
                                    !.closed = tql.closed \cup {space}]
      BY <3>4 DEF Closed, KeyListInv, KeyListTyped
    <3>5. CASE \E space : tql' = Opened(space)
      <4>1. PICK space : tql' = Opened(space)
        BY <3>5
      <4> QED
        BY <3>3, <4>1
    <3>6. CASE \E space : tql' = Closed(space)
      <4>1. PICK space : tql' = Closed(space)
        BY <3>6
      <4> QED
        BY <3>4, <4>1
    <3>7. CASE \E space, n : tql' = [Closed(space) EXCEPT !.index = n]
      <4>1. PICK space, n : tql' = [Closed(space) EXCEPT !.index = n]
        BY <3>7
      <4>2. tql' = [tql EXCEPT !.index = n, !.opened = tql.opened \ {space}, !.closed = tql.closed \cup {space}]
        BY <3>2, <4>1
      <4> QED
        BY <4>2
    <3> QED
      BY <3>1, <3>5, <3>6, <3>7
  <2> QED
    BY <2>3, <2>4
<1> QED
  BY <1>1, <1>2, LookKeeps

\* A mark is kept with its database.
LEMMA MarkKeeps ==
  ASSUME KeyListInv, MarkKey \/ DropPending
  PROVE  KeyListInv'
<1>1. \E marks \in SUBSET (AllKeys \X {tql.database}) : tql' = [tql EXCEPT !.marked = marks]
  <2>1. tql.marked \subseteq AllKeys \X {tql.database} /\ tql.database \in Databases
    BY DEF KeyListInv, KeyListTyped, MarksInv
  <2>2. CASE MarkKey
    <3> DEFINE mark == <<Current, tql.database>>
               marks == IF mark \in tql.marked THEN tql.marked \ {mark} ELSE tql.marked \cup {mark}
    <3>1. tql' = [tql EXCEPT !.marked = marks] /\ mark \in AllKeys \X {tql.database}
      BY <2>2 DEF MarkKey
    <3>2. marks \subseteq AllKeys \X {tql.database}
      BY <2>1, <3>1
    <3> QED
      BY <3>1, <3>2
  <2>3. CASE DropPending
    BY <2>3 DEF DropPending
  <2> QED
    BY <2>2, <2>3
<1>2. PICK marks \in SUBSET (AllKeys \X {tql.database}) : tql' = [tql EXCEPT !.marked = marks]
  BY <1>1
<1>3. UNCHANGED <<server, conn, scans, others>>
  BY DEF MarkKey, DropPending
<1>4. tql.database \in Databases
  BY DEF KeyListInv, KeyListTyped
<1>5. /\ tql'.database = tql.database /\ tql'.pattern = tql.pattern /\ tql'.keys = tql.keys
      /\ tql'.count = tql.count /\ tql'.capped = tql.capped /\ tql'.scan = tql.scan /\ tql'.marked = marks
      /\ tql' \in [database : Databases, pattern : AllPatterns, keys : SUBSET AllKeys, count : Nat,
              capped : BOOLEAN, index : {tql'.index}, opened : {tql'.opened}, closed : {tql'.closed},
              scan : {0, Len(scans)}, marked : SUBSET (AllKeys \X Databases)]
  BY <1>2, <1>4 DEF KeyListInv, KeyListTyped
<1>6. KeyListTyped' /\ MarksInv'
  BY <1>3, <1>5 DEF KeyListInv, KeyListTyped, MarksInv
<1>7. Latest' = Latest
  BY <1>3 DEF Latest
<1>8. FollowsInv' /\ EndsInv'
  BY <1>5, <1>7 DEF KeyListInv, FollowsInv, EndsInv
<1>9. WholeInv'
  BY <1>5, <1>7 DEF KeyListInv, WholeInv, SaidCapped
<1> QED
  BY <1>6, <1>8, <1>9 DEF KeyListInv

\* Others make fewer keys stay all the while.
LEMMA OthersKeep ==
  ASSUME KeyListInv, NEW d \in Databases, NEW key \in AllKeys, OthersWrite(d, key)
  PROVE  KeyListInv'
<1> DEFINE less(scan) == IF scan.database = d THEN [scan EXCEPT !.steady = @ \ {key}] ELSE scan
<1>1. /\ UNCHANGED <<conn, tql>> /\ others' = others + 1 /\ scans' = [i \in DOMAIN scans |-> less(scans[i])]
      /\ server' = [server EXCEPT ![d] = IF key \in @ THEN @ \ {key} ELSE @ \cup {key}]
  BY DEF OthersWrite
<1>2. ASSUME NEW scan \in Scans
      PROVE  /\ less(scan) \in Scans /\ less(scan).database = scan.database /\ less(scan).pattern = scan.pattern
             /\ less(scan).seen = scan.seen /\ less(scan).count = scan.count /\ less(scan).sent = scan.sent
             /\ less(scan).failed = scan.failed /\ less(scan).done = scan.done
             /\ less(scan).steady \subseteq scan.steady
  BY <1>2 DEF Scans
<1> HIDE DEF less
<1>3. /\ Len(scans) \in Nat /\ Len(scans) > 0 /\ DOMAIN scans = 1 .. Len(scans)
      /\ Latest \in Scans /\ \A i \in 1 .. Len(scans) : scans[i] \in Scans
  BY LatestIs DEF KeyListInv
<1>4. scans' \in Seq(Scans) /\ Len(scans') = Len(scans) /\ scans'[Len(scans)] = less(Latest)
  <2>1. scans' \in [1 .. Len(scans) -> Scans]
    BY <1>1, <1>2, <1>3
  <2>2. scans' \in Seq(Scans) /\ Len(scans') = Len(scans)
    BY <1>3, <2>1, SeqDef, LenProperties
  <2> QED
    BY <1>1, <1>3, <2>2 DEF Latest
<1>5. Latest' = less(Latest) /\ scans' # <<>>
  BY <1>3, <1>4, EmptySeq DEF Latest
<1>6. server' \in [Databases -> SUBSET AllKeys] /\ others' \in Nat
  BY <1>1 DEF KeyListInv, KeyListTyped
<1>7. KeyListTyped' /\ MarksInv'
  BY <1>1, <1>4, <1>5, <1>6 DEF KeyListInv, KeyListTyped, MarksInv
<1>8. FollowsInv' /\ EndsInv'
  BY <1>1, <1>2, <1>3, <1>5 DEF KeyListInv, FollowsInv, EndsInv
<1>9. WholeInv'
  BY <1>1, <1>2, <1>3, <1>5 DEF KeyListInv, WholeInv, SaidCapped
<1> QED
  BY <1>7, <1>8, <1>9 DEF KeyListInv

-----------------------------------------------------------------------------
LEMMA Single == ASSUME NEW S, NEW e \in S PROVE <<e>> \in Seq(S) /\ Len(<<e>>) = 1 /\ <<e>>[1] = e /\ <<e>> # <<>>
  OBVIOUS

LEMMA EmptyDomain == \A s : s = <<>> => DOMAIN s = {}
  OBVIOUS

LEMMA KeyListInit == ASSUME ListFits, Init PROVE KeyListInv
<1> DEFINE scan == ScanOf(server, First, "")
<1>1. /\ server \in [Databases -> SUBSET AllKeys] /\ conn = First /\ others = 0 /\ scans = <<scan>>
      /\ tql = [Blank EXCEPT !.scan = 1, !.database = First]
  BY DEF Init
<1>2. /\ scan \in Scans /\ scan.database = First /\ scan.pattern = "" /\ scan.seen = {}
      /\ scan.sent = <<>> /\ scan.count = 0 /\ ~scan.done /\ ~scan.failed
  BY <1>1, NewScan DEF ListFits, KeysFit, AllPatterns
<1> HIDE DEF scan
<1>3. scans \in Seq(Scans) /\ Len(scans) = 1 /\ scans # <<>> /\ Latest = scan
  <2>1. <<scan>> \in Seq(Scans) /\ Len(<<scan>>) = 1 /\ <<scan>>[1] = scan /\ <<scan>> # <<>>
    BY <1>2, Single
  <2> QED
    BY <1>1, <2>1 DEF Latest
<1>4. /\ tql.database = First /\ tql.pattern = "" /\ tql.keys = {} /\ tql.count = 0 /\ tql.scan = 1
      /\ tql.marked = {}
      /\ tql \in [database : Databases, pattern : AllPatterns, keys : SUBSET AllKeys, count : Nat,
              capped : BOOLEAN, index : {tql.index}, opened : {tql.opened}, closed : {tql.closed},
              scan : {0, 1}, marked : SUBSET (AllKeys \X Databases)]
  BY <1>1 DEF Blank, ListFits, KeysFit, AllPatterns
<1>5. KeyListTyped /\ MarksInv
  BY <1>1, <1>3, <1>4 DEF KeyListTyped, MarksInv
<1>6. FollowsInv /\ EndsInv
  <2>1. DOMAIN Latest.sent = {}
    BY <1>2, <1>3, EmptyDomain, Zenon
  <2>2. /\ Latest.database = tql.database /\ Latest.pattern = tql.pattern /\ ~Latest.done /\ ~Latest.failed
        /\ tql.keys = {} /\ tql.scan # 0
    <3>1. Latest.database = tql.database /\ Latest.pattern = tql.pattern
      BY <1>2, <1>3, <1>4, Zenon
    <3>2. ~Latest.done /\ ~Latest.failed
      BY <1>2, <1>3, Zenon
    <3>3. tql.keys = {} /\ tql.scan = 1
      BY <1>4, Zenon
    <3>4. tql.scan # 0
      BY <3>3
    <3> QED
      BY <3>1, <3>2, <3>3, <3>4
  <2> QED
    BY <2>1, <2>2 DEF FollowsInv, EndsInv
<1>7. WholeInv
  <2>1. Counts(0, <<>>, 0)
    BY CountsNothing
  <2> QED
    BY <1>2, <1>3, <1>4, <2>1 DEF WholeInv
<1> QED
  BY <1>5, <1>6, <1>7 DEF KeyListInv

LEMMA KeyListStep ==
  ASSUME ListFits, KeyListInv, [Next]_keyListVars
  PROVE  KeyListInv'
<1>1. CASE UNCHANGED keyListVars
  <2>1. UNCHANGED <<server, conn, tql, scans, others>>
    BY <1>1 DEF keyListVars
  <2>2. Latest' = Latest
    BY <2>1 DEF Latest
  <2> QED
    BY <2>1, <2>2 DEF KeyListInv, KeyListTyped, MarksInv, FollowsInv, EndsInv, WholeInv, SaidCapped
<1>2. ASSUME NEW i \in DOMAIN scans, ScanPage(i) \/ ScanFails(i) \/ ScanUnheard(i) PROVE KeyListInv'
  BY <1>2, PageKeeps, FailKeeps, UnheardKeeps
<1>3. ASSUME ScanAgain \/ Write PROVE KeyListInv'
  <2>1. First \in Databases /\ "" \in AllPatterns
    BY DEF ListFits, KeysFit, AllPatterns
  <2> QED
    BY <1>3, <2>1, RescansKeep
<1>4. ASSUME NEW number \in Databases, UseDatabase(number) PROVE KeyListInv'
  <2>1. "" \in AllPatterns
    BY DEF AllPatterns
  <2> QED
    BY <1>4, <2>1, RescansKeep
<1>5. ASSUME NEW pattern \in {""} \cup DOMAIN Patterns, Filter(pattern) PROVE KeyListInv'
  BY <1>5, RescansKeep DEF ListFits, KeysFit, AllPatterns
<1>6. CASE Reconnect
  <2>1. UNCHANGED <<server, conn, tql, scans, others>>
    BY <1>6 DEF Reconnect, KeyListInv, MarksInv
  <2>2. Latest' = Latest
    BY <2>1 DEF Latest
  <2> QED
    BY <2>1, <2>2 DEF KeyListInv, KeyListTyped, MarksInv, FollowsInv, EndsInv, WholeInv, SaidCapped
<1>7. ASSUME NEW to \in 1..Len(Tree), MoveBy(to) PROVE KeyListInv'
  BY <1>7, FoldKeeps
<1>8. ASSUME NEW open \in BOOLEAN, Fold(open) PROVE KeyListInv'
  BY <1>8, FoldKeeps
<1>9. ASSUME NEW d \in Databases, NEW key \in AllKeys, OthersWrite(d, key) PROVE KeyListInv'
  BY <1>9, OthersKeep
<1> QED
  BY <1>1, <1>2, <1>3, <1>4, <1>5, <1>6, <1>7, <1>8, <1>9, HearKeeps, MarkKeeps DEF Next

LEMMA KeyListHolds == ASSUME ListFits PROVE Spec => []KeyListInv
  BY KeyListInit, KeyListStep, PTL DEF Spec

\* The list shows keys of the database and the pattern that its header names, and whatever scan it
\* hears is of those (src/app/tui/keys/mod.rs, rescan and hear_from_scan).
THEOREM ListFollowsItsHeader == ASSUME ListFits PROVE Spec => []ListFollows
<1>1. KeyListInv => ListFollows
  <2> SUFFICES ASSUME KeyListInv PROVE ListFollows
    OBVIOUS
  <2>1. tql.scan # 0 => scans[tql.scan] = Latest
    BY DEF KeyListInv, KeyListTyped, Latest
  <2> QED
    BY <2>1 DEF KeyListInv, FollowsInv, ListFollows
<1> QED
  BY <1>1, KeyListHolds, PTL

\* When the last scan has come to its end below the limit, the list has every key that was there since
\* the scan began (src/app/tui/keys/mod.rs, rescan).
THEOREM ListIsComplete == ASSUME ListFits PROVE Spec => []ListIsWhole
<1>1. KeyListInv => ListIsWhole
  <2> SUFFICES ASSUME KeyListInv, tql.scan = 0, ~tql.capped, tql.count < Limit, Latest.done, ~Latest.failed
               PROVE  Latest.steady \subseteq tql.keys
    BY DEF ListIsWhole, Latest
  <2>1. Latest.sent = <<>> /\ DOMAIN Latest.sent = {}
    BY EmptyDomain DEF KeyListInv, EndsInv
  <2>2. Latest.seen \subseteq tql.keys
    BY <2>1 DEF KeyListInv, WholeInv
  <2>3. Latest.count = tql.count
    BY <2>1 DEF KeyListInv, WholeInv, Counts
  <2>4. Latest.steady \subseteq Latest.seen
    BY <2>3 DEF KeyListInv, WholeInv, SaidCapped
  <2> QED
    BY <2>2, <2>4
<1> QED
  BY <1>1, KeyListHolds, PTL

-----------------------------------------------------------------------------
(* What :w deletes, whether or not connections for scans are refused       *)

\* What the list holds beside them may be anything, as it is when a scan was refused its connection.
MarksTyped ==
  /\ server \in [Databases -> SUBSET AllKeys] /\ others \in Nat
  /\ tql \in [database : Databases, pattern : {tql.pattern}, keys : {tql.keys}, count : {tql.count},
              capped : {tql.capped}, index : {tql.index}, opened : {tql.opened}, closed : {tql.closed},
              scan : {tql.scan}, marked : SUBSET (AllKeys \X Databases)]

MarksKept == MarksTyped /\ MarksInv

\* Of a list
IsMarked(list) ==
  /\ list \in [database : Databases, pattern : {list.pattern}, keys : {list.keys}, count : {list.count},
              capped : {list.capped}, index : {list.index}, opened : {list.opened}, closed : {list.closed},
              scan : {list.scan}, marked : SUBSET (AllKeys \X Databases)]
  /\ \A mark \in list.marked : mark[2] = list.database

LEMMA MarkedRescan ==
  ASSUME MarksKept, NEW next, IsMarked(next), Rescan(next), conn' = next.database,
         server' \in [Databases -> SUBSET AllKeys], others' = others
  PROVE  MarksKept'
<1>1. IsMarked(tql') /\ tql'.database = next.database
  BY DEF Rescan, IsMarked
<1> QED
  BY <1>1 DEF MarksKept, MarksTyped, MarksInv, IsMarked

LEMMA MarksStay ==
  ASSUME MarksKept, [Next]_keyListVars
  PROVE  MarksKept'
<1>0. IsMarked(tql) /\ conn = tql.database /\ others \in Nat /\ server \in [Databases -> SUBSET AllKeys]
  BY DEF MarksKept, MarksTyped, MarksInv, IsMarked
<1>a. ASSUME IsMarked(tql'), conn' = tql'.database, others' \in Nat, server' \in [Databases -> SUBSET AllKeys]
      PROVE  MarksKept'
  BY <1>a DEF MarksKept, MarksTyped, MarksInv, IsMarked
<1>1. CASE UNCHANGED keyListVars
  BY <1>0, <1>1, <1>a DEF keyListVars, IsMarked
<1>2. ASSUME NEW i \in DOMAIN scans, ScanPage(i) \/ ScanFails(i) \/ ScanUnheard(i) PROVE MarksKept'
  <2>1. UNCHANGED <<server, conn, tql, others>>
    BY <1>2 DEF ScanPage, ScanFails, ScanUnheard
  <2> QED
    BY <1>0, <1>a, <2>1 DEF IsMarked
<1>3. CASE HearFromScan
  <2>1. IsMarked(tql') /\ tql'.database = tql.database
    <3> DEFINE batch == Head(scans[tql.scan].sent)
               fits(t) == IsMarked(t) /\ t.database = tql.database
               heard(keys, count) == [tql EXCEPT !.keys = keys, !.count = count]
               ended(capped) == [tql EXCEPT !.capped = capped, !.scan = 0]
               broken == [tql EXCEPT !.scan = 0]
    <3>1. ASSUME NEW keys, NEW count, NEW capped
          PROVE  fits(heard(keys, count)) /\ fits(ended(capped)) /\ fits(broken)
      BY <1>0 DEF IsMarked
    <3>2. \/ tql' = heard(tql.keys \cup batch.keys, tql.count + Cardinality(batch.keys))
          \/ tql' = ended(batch.capped) \/ tql' = broken
      BY <1>3 DEF HearFromScan
    <3> HIDE DEF fits, heard, ended, broken
    <3>3. fits(tql')
      BY <3>1, <3>2
    <3> QED
      BY <3>3 DEF fits
  <2> QED
    BY <1>0, <1>3, <1>a, <2>1 DEF HearFromScan
<1>4. CASE ScanAgain
  BY <1>0, <1>4, MarkedRescan DEF ScanAgain
<1>5. ASSUME NEW number \in Databases, UseDatabase(number) PROVE MarksKept'
  <2> DEFINE next == [tql EXCEPT !.database = number, !.opened = {}, !.closed = {}]
  <2>1. IsMarked(next) /\ next.database = number
    BY <1>0, <1>5 DEF IsMarked, UseDatabase
  <2> QED
    BY <1>0, <1>5, <2>1, MarkedRescan DEF UseDatabase
<1>6. ASSUME NEW pattern \in {""} \cup DOMAIN Patterns, Filter(pattern) PROVE MarksKept'
  <2> DEFINE next == [tql EXCEPT !.pattern = pattern]
  <2>1. IsMarked(next) /\ next.database = tql.database
    BY <1>0, <1>6 DEF IsMarked
  <2> QED
    BY <1>0, <1>6, <2>1, MarkedRescan DEF Filter
<1>7. CASE Write
  <2> DEFINE next == [tql EXCEPT !.marked = {}]
  <2>1. IsMarked(next) /\ next.database = tql.database
    BY <1>0, <1>7 DEF IsMarked
  <2>2. server' \in [Databases -> SUBSET AllKeys]
    BY <1>0, <1>7 DEF Write
  <2> QED
    BY <1>0, <1>7, <2>1, <2>2, MarkedRescan DEF Write
<1>8. CASE Reconnect
  BY <1>0, <1>8, <1>a DEF Reconnect, IsMarked
<1>9. CASE MarkKey
  <2>1. IsMarked(tql') /\ tql'.database = tql.database
    <3> DEFINE mark == <<Current, tql.database>>
               marks == IF mark \in tql.marked THEN tql.marked \ {mark} ELSE tql.marked \cup {mark}
    <3>1. marks \in SUBSET (AllKeys \X Databases) /\ \A m \in marks : m[2] = tql.database
      BY <1>0, <1>9 DEF MarkKey, IsMarked
    <3>2. tql' = [tql EXCEPT !.marked = marks]
      BY <1>9 DEF MarkKey
    <3> HIDE DEF marks
    <3> QED
      BY <1>0, <3>1, <3>2 DEF IsMarked
  <2> QED
    BY <1>0, <1>9, <1>a, <2>1 DEF MarkKey
<1>10. CASE DropPending
  <2>1. IsMarked(tql') /\ tql'.database = tql.database
    BY <1>0, <1>10 DEF DropPending, IsMarked
  <2> QED
    BY <1>0, <1>10, <1>a, <2>1 DEF DropPending
<1>11. ASSUME NEW to, MoveBy(to) PROVE MarksKept'
  <2>1. IsMarked(tql') /\ tql'.database = tql.database
    BY <1>0, <1>11 DEF MoveBy, IsMarked
  <2> QED
    BY <1>0, <1>11, <1>a, <2>1 DEF MoveBy
<1>12. ASSUME NEW open \in BOOLEAN, Fold(open) PROVE MarksKept'
  <2>0. ASSUME NEW space PROVE IsMarked(Opened(space)) /\ Opened(space).database = tql.database
    BY <1>0 DEF Opened, IsMarked
  <2>1. ASSUME NEW space PROVE IsMarked(Closed(space)) /\ Closed(space).database = tql.database
    BY <1>0 DEF Closed, IsMarked
  <2>2. ASSUME NEW list, IsMarked(list), NEW n
        PROVE  IsMarked([list EXCEPT !.index = n]) /\ [list EXCEPT !.index = n].database = list.database
    BY <2>2 DEF IsMarked
  <2>3. IsMarked(tql') /\ tql'.database = tql.database
    <3>1. CASE tql' = IF open THEN Opened(Current) ELSE Closed(Current)
      BY <2>0, <2>1, <3>1
    <3>2. CASE \E n : tql' = [Closed(Space[Current]) EXCEPT !.index = n]
      BY <2>1, <2>2, <3>2
    <3> QED
      BY <1>12, <3>1, <3>2, Zenon DEF Fold
  <2> QED
    BY <1>0, <1>12, <1>a, <2>3 DEF Fold
<1>13. ASSUME NEW d \in Databases, NEW key \in AllKeys, OthersWrite(d, key) PROVE MarksKept'
  <2>1. server' \in [Databases -> SUBSET AllKeys] /\ others' \in Nat /\ UNCHANGED <<conn, tql>>
    BY <1>0, <1>13 DEF OthersWrite
  <2> QED
    BY <1>0, <1>a, <2>1 DEF IsMarked
<1> QED
  BY <1>1, <1>2, <1>3, <1>4, <1>5, <1>6, <1>7, <1>8, <1>9, <1>10, <1>11, <1>12, <1>13 DEF Next

LEMMA MarksHold == ASSUME KeysFit PROVE Spec => []MarksKept
<1>1. Init => MarksKept
  <2> SUFFICES ASSUME Init PROVE MarksKept
    OBVIOUS
  <2>1. server \in [Databases -> SUBSET AllKeys] /\ conn = First /\ others = 0
    BY DEF Init
  <2>2. IsMarked(tql) /\ tql.database = First /\ tql.marked = {}
    BY DEF Init, Blank, IsMarked, KeysFit
  <2> QED
    BY <2>1, <2>2 DEF MarksKept, MarksTyped, MarksInv, IsMarked, KeysFit
<1>2. MarksKept /\ [Next]_keyListVars => MarksKept'
  BY MarksStay
<1> QED
  BY <1>1, <1>2, PTL DEF Spec

\* :w deletes a key only in the database it was marked in, however connections break in between
\* (src/app/tui/keys/mod.rs, write and use_database; src/app/keystore/redis.rs, reconnect).
THEOREM DeletesOnlyTheMarked == ASSUME KeysFit PROVE Spec => [][MarkedStep]_keyListVars
<1>1. MarksKept /\ [Next]_keyListVars => [MarkedStep]_keyListVars
  <2> SUFFICES ASSUME MarksKept, Next, others' = others, NEW d \in Databases, NEW key \in server[d] \ server'[d]
               PROVE  <<key, d>> \in tql.marked
    BY DEF MarkedStep
  <2>1. CASE Write
    <3>1. server \in [Databases -> SUBSET AllKeys] /\ tql.marked \subseteq AllKeys \X Databases
      BY DEF MarksKept, MarksTyped
    <3>2. d = conn /\ \E mark \in tql.marked : mark[1] = key
      BY <2>1, <3>1 DEF Write
    <3>3. PICK mark \in tql.marked : mark[1] = key /\ mark[2] = d
      BY <3>2 DEF MarksKept, MarksInv
    <3> QED
      BY <3>1, <3>3
  <2>2. ASSUME NEW database \in Databases, NEW k \in AllKeys PROVE ~OthersWrite(database, k)
    BY DEF OthersWrite, MarksKept, MarksTyped
  <2> QED
    BY <2>1, <2>2 DEF Next, ScanPage, ScanFails, ScanUnheard, HearFromScan, ScanAgain, MarkKey, DropPending,
       Reconnect, UseDatabase, Filter, MoveBy, Fold
<1> QED
  BY <1>1, MarksHold, PTL DEF Spec

-----------------------------------------------------------------------------
(* What :w writes: the changes of one key, of KeyEdits, whose First, server *)
(* and others are called FirstKey, values and written here.                *)

CONSTANTS Keys, Kinds, Words, FirstKey, StartingWith, MaxPending, MaxWrites, MayBreak
VARIABLES values, shown, pending, writing, written, asked

Changes == INSTANCE KeyEdits WITH First <- FirstKey, server <- values, others <- written

\* The changes that wait are for keys of the server, and so is what is shown
KeysTyped ==
  /\ DOMAIN values = Keys
  /\ pending \in Seq(ToSet(pending)) /\ \A c \in ToSet(pending) : c.key \in Keys
  /\ shown.items # <<>> => shown.key \in Keys
  /\ written \in Nat
  /\ writing \in [at : {"idle", "watching", "checked"}, watched : BOOLEAN, dirty : BOOLEAN]

\* The items that are set or removed are where they were seen.
Seen ==
  \A i \in DOMAIN pending : pending[i].op \in {"setitem", "removeitem"} =>
    <<pending[i].name, pending[i].was>> \in ToSet(values[pending[i].key].items)

SeenInv ==
  /\ KeysTyped
  /\ writing.at = "checked" /\ writing.watched /\ ~writing.dirty => Seen

LEMMA PushTyped ==
  ASSUME KeysTyped, NEW change, change.key \in Keys, pending' = Append(pending, change)
  PROVE  pending' \in Seq(ToSet(pending')) /\ \A c \in ToSet(pending') : c.key \in Keys
<1> DEFINE S == ToSet(pending) \cup {change}
<1>1. pending \in Seq(S)
  BY DEF KeysTyped
<1>2. /\ Append(pending, change) \in Seq(S) /\ Len(Append(pending, change)) = Len(pending) + 1
      /\ \A i \in 1 .. Len(pending) : Append(pending, change)[i] = pending[i]
      /\ Append(pending, change)[Len(pending) + 1] = change
  BY <1>1, AppendProperties
<1>3. DOMAIN pending = 1 .. Len(pending) /\ Len(pending) \in Nat
  BY <1>1, LenProperties
<1>4. DOMAIN pending' = 1 .. (Len(pending) + 1)
  BY <1>2, LenProperties
<1>5. \A i \in DOMAIN pending' : pending'[i] = IF i \in DOMAIN pending THEN pending[i] ELSE change
  BY <1>2, <1>3, <1>4
<1>6. ToSet(pending') = S
  <2>1. \A i \in DOMAIN pending : i \in DOMAIN pending'
    BY <1>3, <1>4
  <2>2. Len(pending) + 1 \in DOMAIN pending' /\ Len(pending) + 1 \notin DOMAIN pending
    BY <1>3, <1>4
  <2> QED
    BY <1>5, <2>1, <2>2 DEF ToSet
<1> QED
  BY <1>2, <1>6 DEF KeysTyped

LEMMA RemoveTyped ==
  ASSUME KeysTyped, NEW at \in DOMAIN pending, pending' = RemoveAt(pending, at)
  PROVE  pending' \in Seq(ToSet(pending')) /\ \A c \in ToSet(pending') : c.key \in Keys
<1> DEFINE S == ToSet(pending) n == Len(pending)
           before == SubSeq(pending, 1, at - 1) after == SubSeq(pending, at + 1, n)
<1>1. pending \in Seq(S) /\ DOMAIN pending = 1 .. n /\ n \in Nat /\ at \in 1 .. n
  BY LenProperties DEF KeysTyped
<1>2. before \in Seq(S) /\ after \in Seq(S)
  <2>1. before \in Seq(S)
    BY <1>1, SubSeqProperties
  <2>2. after \in Seq(S)
    BY <1>1, SubSeqProperties
  <2> QED
    BY <2>1, <2>2
<1>3. pending' \in Seq(S)
  BY <1>2, ConcatProperties DEF RemoveAt
<1>4. ToSet(pending') \subseteq S
  BY <1>3, ElementOfSeq, LenProperties DEF ToSet
<1>5. pending' \in Seq(ToSet(pending'))
  <2>1. DOMAIN pending' = 1 .. Len(pending') /\ Len(pending') \in Nat
    BY <1>3, LenProperties
  <2> QED
    BY <1>3, <2>1, SeqDef DEF ToSet
<1> QED
  BY <1>4, <1>5 DEF KeysTyped

LEMMA PushKeeps ==
  ASSUME KeysTyped, NEW change, change.key \in Keys, Changes!Ready, Changes!Push(change) \/ Changes!Toggle(change)
  PROVE  SeenInv'
<1>1. /\ UNCHANGED <<values, shown, writing, written>>
      /\ \/ pending' = Append(pending, change)
         \/ \E at \in DOMAIN pending : pending' = RemoveAt(pending, at)
  BY DEF Changes!Push, Changes!Toggle, RemoveAt, Changes!RemoveAt
<1>2. pending' \in Seq(ToSet(pending')) /\ \A c \in ToSet(pending') : c.key \in Keys
  BY <1>1, PushTyped, RemoveTyped
<1> QED
  BY <1>1, <1>2 DEF KeysTyped, SeenInv, Changes!Ready

\* Changes are asked for while :w is not under way, and for a key of the server.
LEMMA MarkHereKeeps ==
  ASSUME KeysTyped, NEW at, Changes!MarkHere(at)
  PROVE  SeenInv'
<1> DEFINE item == shown.items[at]
           listed == Changes!Change("removeitem", shown.key, item[1], "", item[2])
           other == Changes!Change("delete", shown.key, item[1], "", "")
<1>1. shown.key \in Keys
  <2>1. DOMAIN shown.items # {}
    BY DEF Changes!MarkHere
  <2>2. shown.items # <<>>
    BY <2>1, EmptyDomain, Zenon
  <2> QED
    BY <2>2 DEF KeysTyped
<1>2. listed.key = shown.key /\ other.key = shown.key
  BY DEF Changes!Change
<1>3. Changes!Toggle(listed) \/ Changes!Toggle(other)
  BY DEF Changes!MarkHere
<1> HIDE DEF listed, other
<1>4. Changes!Ready
  BY <1>3 DEF Changes!Toggle
<1>5. CASE Changes!Toggle(listed)
  BY <1>1, <1>2, <1>4, <1>5, PushKeeps
<1>6. CASE Changes!Toggle(other)
  BY <1>1, <1>2, <1>4, <1>6, PushKeeps
<1> QED
  BY <1>3, <1>5, <1>6

LEMMA EditKeeps ==
  ASSUME KeysTyped, NEW at, NEW word, Changes!EditHere(at, word)
  PROVE  SeenInv'
<1> DEFINE row == Changes!Overlaid[at]
           set == Changes!Change("set", shown.key, row.name, word, "")
           item == Changes!Change("setitem", shown.key, row.name, word, shown.items[at][2])
           replaced == Changes!Change("replace", shown.key, word, word, row.name)
<1>1. shown.key \in Keys /\ Changes!Ready
  BY DEF KeysTyped, Changes!EditHere
<1>2. set.key = shown.key /\ item.key = shown.key /\ replaced.key = shown.key
  BY DEF Changes!Change
<1>3. Changes!Push(set) \/ Changes!Push(item) \/ Changes!Push(replaced)
  BY DEF Changes!EditHere
<1> HIDE DEF set, item, replaced
<1>4. ASSUME NEW c \in {set, item, replaced}, Changes!Push(c) PROVE SeenInv'
  BY <1>1, <1>2, <1>4, PushKeeps
<1> QED
  BY <1>3, <1>4

LEMMA AddKeeps ==
  ASSUME KeysTyped, NEW name, NEW word, Changes!AddHere(name, word)
  PROVE  SeenInv'
<1> DEFINE set == Changes!Change("set", shown.key, name, word, "")
           pushed == Changes!Change("push", shown.key, "+", word, "")
           member == Changes!Change("add", shown.key, word, word, "")
           scored == Changes!Change("add", shown.key, name, word, "")
<1>1. shown.key \in Keys /\ Changes!Ready
  BY DEF KeysTyped, Changes!AddHere
<1>2. /\ set.key = shown.key /\ pushed.key = shown.key /\ member.key = shown.key
      /\ scored.key = shown.key
  BY DEF Changes!Change
<1>3. Changes!Push(set) \/ Changes!Push(pushed) \/ Changes!Push(member) \/ Changes!Push(scored)
  BY DEF Changes!AddHere
<1> HIDE DEF set, pushed, member, scored
<1>4. ASSUME NEW c \in {set, pushed, member, scored}, Changes!Push(c) PROVE SeenInv'
  BY <1>1, <1>2, <1>4, PushKeeps
<1> QED
  BY <1>3, <1>4

LEMMA KeyKeeps ==
  ASSUME KeysTyped, NEW key \in Keys, NEW kind, NEW word, Changes!MarkKey(key) \/ Changes!NewKey(key, kind, word)
  PROVE  SeenInv'
<1>1. CASE Changes!MarkKey(key)
  <2> DEFINE change == [Changes!Change("delkey", key, "", "", "") EXCEPT !.kind = "none"]
  <2>1. change.key \in Keys
    BY DEF Changes!Change
  <2>2. Changes!Ready /\ Changes!Toggle(change)
    BY <1>1 DEF Changes!MarkKey, Changes!Toggle
  <2> QED
    BY <2>1, <2>2, PushKeeps
<1>2. CASE Changes!NewKey(key, kind, word)
  <2>1. \E change : change.key \in Keys /\ Changes!Ready /\ Changes!Push(change)
    BY <1>2 DEF Changes!NewKey
  <2> QED
    BY <2>1, PushKeeps
<1> QED
  BY <1>1, <1>2

LEMMA ReadTyped ==
  ASSUME NEW key, NEW from
  PROVE  Changes!ReadOf(key, from).items # <<>> => Changes!ReadOf(key, from).key \in Keys
  BY DEF Changes!ReadOf, Changes!Nothing

\* What is read or renamed, is so while :w is not under way.
LEMMA ReadKeeps ==
  ASSUME KeysTyped, NEW key, Changes!Load(key)
  PROVE  SeenInv'
  BY ReadTyped DEF Changes!Load, KeysTyped, SeenInv, Changes!Ready

LEMMA RenameKeeps ==
  ASSUME KeysTyped, NEW key, NEW to, Changes!Rename(key, to)
  PROVE  SeenInv'
<1>1. DOMAIN values' = Keys
  BY DEF Changes!Rename, KeysTyped
<1> QED
  BY <1>1 DEF Changes!Rename, Changes!Nothing, KeysTyped, SeenInv, Changes!Ready

LEMMA DropKeeps ==
  ASSUME KeysTyped, Changes!DropPending
  PROVE  SeenInv'
<1>1. pending' = <<>> /\ ToSet(pending') = {}
  BY DEF Changes!DropPending, ToSet
<1> QED
  BY <1>1 DEF Changes!DropPending, KeysTyped, SeenInv, Changes!Ready

\* A check finds the items where they were seen.
LEMMA WatchKeeps ==
  ASSUME SeenInv, Changes!Watch \/ Changes!Reconnect \/ Changes!Check
  PROVE  SeenInv'
<1>1. CASE Changes!Watch
  BY <1>1 DEF Changes!Watch, SeenInv, KeysTyped
<1>2. CASE Changes!Reconnect
  BY <1>2 DEF Changes!Reconnect, SeenInv, KeysTyped
<1>3. CASE Changes!Check
  <2>1. Changes!Checked => Seen
    BY DEF Changes!Checked, Seen, ToSet, Changes!ToSet
  <2>2. Seen => Seen'
    BY <1>3 DEF Changes!Check, Seen
  <2>3. KeysTyped'
    BY <1>3 DEF Changes!Check, Changes!Idle, SeenInv, KeysTyped
  <2>4. writing'.at = "checked" => Changes!Checked
    BY <1>3 DEF Changes!Check, Changes!Idle
  <2> QED
    BY <2>1, <2>2, <2>3, <2>4 DEF SeenInv
<1> QED
  BY <1>1, <1>2, <1>3

LEMMA ExecKeeps ==
  ASSUME SeenInv, Changes!Exec \/ Changes!ExecUnanswered
  PROVE  SeenInv'
<1>1. writing' = Changes!Idle /\ written' = written /\ DOMAIN values' = Keys
  BY DEF Changes!Exec, Changes!ExecUnanswered, SeenInv, KeysTyped
<1>2. shown'.items # <<>> => shown'.key \in Keys
  BY ReadTyped DEF Changes!Exec, Changes!ExecUnanswered, SeenInv, KeysTyped
<1>3. pending' \in {pending, <<>>}
  BY DEF Changes!Exec, Changes!ExecUnanswered
<1>4. pending' \in Seq(ToSet(pending')) /\ \A c \in ToSet(pending') : c.key \in Keys
  <2>1. ToSet(<<>>) = {} /\ <<>> \in Seq(ToSet(<<>>))
    BY DEF ToSet
  <2> QED
    BY <1>3, <2>1 DEF SeenInv, KeysTyped
<1> QED
  BY <1>1, <1>2, <1>4 DEF SeenInv, KeysTyped, Changes!Idle

\* Others who change a key that is watched make :w notice.
LEMMA OthersWritesKeep ==
  ASSUME SeenInv, NEW key \in Keys, Changes!OthersWrite(key)
  PROVE  SeenInv'
<1> DEFINE hit == ~Changes!Ready /\ \E i \in DOMAIN pending : pending[i].key = key
<1>1. /\ DOMAIN values' = Keys /\ \A k \in Keys \ {key} : values'[k] = values[k]
      /\ UNCHANGED <<shown, pending>> /\ written' \in Nat
  <2>1. DOMAIN values = Keys /\ written \in Nat
    BY DEF SeenInv, KeysTyped
  <2>2. /\ UNCHANGED <<shown, pending>> /\ written' = written + 1
        /\ \E row : values' = [values EXCEPT ![key] = row]
    BY DEF Changes!OthersWrite
  <2> QED
    BY <2>1, <2>2
<1>2. /\ writing' \in [at : {"idle", "watching", "checked"}, watched : BOOLEAN, dirty : BOOLEAN]
      /\ writing'.at = writing.at /\ writing'.watched = writing.watched
      /\ (writing'.dirty <=> writing.dirty \/ hit)
  <2>1. writing' = [writing EXCEPT !.dirty = @ \/ hit]
    BY DEF Changes!OthersWrite
  <2>2. hit \in BOOLEAN
    OBVIOUS
  <2> HIDE DEF hit
  <2>3. (writing.dirty \/ hit) \in BOOLEAN
    OBVIOUS
  <2> QED
    BY <2>1, <2>2 DEF SeenInv, KeysTyped
<1>3. KeysTyped'
  BY <1>1, <1>2 DEF SeenInv, KeysTyped
<1>4. ASSUME writing'.at = "checked", writing'.watched, ~writing'.dirty PROVE Seen'
  <2>1. Seen /\ ~hit /\ ~Changes!Ready
    BY <1>2, <1>4 DEF SeenInv, Changes!Ready
  <2>2. \A i \in DOMAIN pending : pending[i].key \in Keys \ {key}
    BY <2>1 DEF SeenInv, KeysTyped, ToSet
  <2> QED
    BY <1>1, <2>1, <2>2 DEF Seen
<1> QED
  BY <1>3, <1>4 DEF SeenInv

LEMMA SeenStays ==
  ASSUME SeenInv, [Changes!Next]_(Changes!keyEditVars)
  PROVE  SeenInv'
<1>1. CASE UNCHANGED Changes!keyEditVars
  BY <1>1 DEF Changes!keyEditVars, SeenInv, KeysTyped, Seen
<1>2. ASSUME NEW at \in 1..4, Changes!MarkHere(at) PROVE SeenInv'
  BY <1>2, MarkHereKeeps DEF SeenInv
<1>3. ASSUME NEW at \in 1..4, NEW word \in Words, Changes!EditHere(at, word) PROVE SeenInv'
  BY <1>3, EditKeeps DEF SeenInv
<1>4. ASSUME NEW name \in Words, NEW word \in Words, Changes!AddHere(name, word) PROVE SeenInv'
  BY <1>4, AddKeeps DEF SeenInv
<1>5. ASSUME NEW key \in Keys, Changes!MarkKey(key) \/ Changes!Load(key) \/ Changes!OthersWrite(key) PROVE SeenInv'
  BY <1>5, KeyKeeps, ReadKeeps, OthersWritesKeep DEF SeenInv
<1>6. ASSUME NEW key \in Keys, NEW kind \in Kinds, NEW word \in Words, Changes!NewKey(key, kind, word)
      PROVE  SeenInv'
  BY <1>6, KeyKeeps DEF SeenInv
<1>7. ASSUME NEW key \in Keys, NEW to \in Keys, Changes!Rename(key, to) PROVE SeenInv'
  BY <1>7, RenameKeeps DEF SeenInv
<1>8. CASE Changes!DropPending
  BY <1>8, DropKeeps DEF SeenInv
<1> QED
  BY <1>1, <1>2, <1>3, <1>4, <1>5, <1>6, <1>7, <1>8, WatchKeeps, ExecKeeps DEF Changes!Next

-----------------------------------------------------------------------------
LEMMA SeenHolds == ASSUME Changes!FirstFits PROVE Changes!Spec => []SeenInv
<1>1. Changes!Init => SeenInv
  <2> SUFFICES ASSUME Changes!Init PROVE SeenInv
    OBVIOUS
  <2>1. DOMAIN values = Keys /\ shown.key = FirstKey /\ pending = <<>> /\ writing = Changes!Idle /\ written = 0
    BY DEF Changes!Init
  <2>2. ToSet(<<>>) = {} /\ <<>> \in Seq(ToSet(<<>>))
    BY DEF ToSet
  <2> QED
    BY <2>1, <2>2 DEF SeenInv, KeysTyped, Changes!Idle, Changes!FirstFits
<1>2. SeenInv /\ [Changes!Next]_(Changes!keyEditVars) => SeenInv'
  BY SeenStays
<1> QED
  BY <1>1, <1>2, PTL DEF Changes!Spec

\* :w sets or removes an item of a list only while it is the one that was seen, whoever else
\* writes while :w watches (src/app/keystore/redis.rs, write and its checks; edit.rs, write).
THEOREM WritesTheItemsSeen == ASSUME Changes!FirstFits PROVE Changes!Spec => Changes!WritesWhatWasSeen
<1>1. SeenInv /\ [Changes!Next]_(Changes!keyEditVars) => [Changes!SeenStep]_(Changes!keyEditVars)
  <2> SUFFICES ASSUME SeenInv, Changes!Next, values' # values, written' = written, pending' = <<>>, writing.watched
               PROVE  Seen
    BY DEF Changes!SeenStep, Seen, ToSet, Changes!ToSet
  <2>1. CASE Changes!Exec
    BY <2>1 DEF Changes!Exec, Changes!Refused, SeenInv
  <2>2. CASE Changes!ExecUnanswered
    BY <2>2 DEF Changes!ExecUnanswered, Changes!Refused, SeenInv
  <2>3. ASSUME NEW key \in Keys, NEW to \in Keys, Changes!Rename(key, to) PROVE Seen
    <3>1. pending = <<>>
      BY <2>3 DEF Changes!Rename
    <3> QED
      BY <3>1 DEF Seen
  <2>4. ASSUME NEW key \in Keys PROVE ~Changes!OthersWrite(key)
    BY DEF Changes!OthersWrite, SeenInv, KeysTyped
  <2> QED
    BY <2>1, <2>2, <2>3, <2>4 DEF Changes!Next, Changes!MarkHere, Changes!EditHere, Changes!AddHere, Changes!MarkKey, Changes!NewKey, Changes!Load, Changes!DropPending,
       Changes!Watch, Changes!Reconnect, Changes!Check, Changes!Push, Changes!Toggle
<1> QED
  BY <1>1, SeenHolds, PTL DEF Changes!Spec, Changes!WritesWhatWasSeen
=============================================================================
