------------------------ MODULE ResponseStreamProofs ------------------------
(***************************************************************************)
(* TLAPS proofs about ResponseStream, for every chunk size and any number  *)
(* of event lines: the numbering of the ciphertexts, the thinking fold,    *)
(* that the ciphertexts hold the upstream's text unit by unit, and that    *)
(* every step of a response is one ResultContract allows.                  *)
(***************************************************************************)
EXTENDS ResponseStream, WellFoundedInduction, TLAPS

-----------------------------------------------------------------------------
(* The inductive invariant *)

SealedIn(w) == {i \in DOMAIN w : w[i].type = "ciphertext"}

Numbered(w, n) ==
    /\ {w[i].seq : i \in SealedIn(w)} = 0..(n - 1)
    /\ \A i, j \in SealedIn(w) : i < j => w[i].seq < w[j].seq /\ ~w[i].final

NoFinal(w) == \A i \in SealedIn(w) : ~w[i].final

\* A text whose thinking is folded as far as it goes, with the flags f of the
\* parser: one separator at most, after some reasoning, and content comes
\* after reasoning only behind the separator.
Folded(x, f) ==
    /\ f.saw <=> \E i \in DOMAIN x : x[i] = "r"
    /\ f.emitted <=> \E i \in DOMAIN x : x[i] = "s"
    /\ \A i, j \in DOMAIN x : x[i] = "s" /\ x[j] = "s" => i = j
    /\ \A i \in DOMAIN x : x[i] = "s" => \E j \in DOMAIN x : j < i /\ x[j] = "r"
    /\ \A j, k \in DOMAIN x : x[j] = "r" /\ x[k] = "c" /\ j < k
                                 => \E i \in DOMAIN x : i < k /\ x[i] = "s"

\* Before the upstream has accepted, nothing is written.
Unwritten ==
    pc \in {"pulled", "prepare", "embed", "begin", "connect"} =>
        /\ wire = <<>> /\ seq = 0 /\ sent = <<>> /\ ready = <<>> /\ pending = <<>>
        /\ fold = [saw |-> FALSE, emitted |-> FALSE] /\ eof = FALSE
        /\ result = 0 /\ json = 0

\* While the upstream's stream is read, nothing final is.
Streaming ==
    pc = "stream" =>
        /\ wire # <<>> /\ wire[1].type = "server_share" /\ NoFinal(wire)
        /\ result = 0 /\ json = 0

\* A chat goes through the dialogue with the upstream, embeddings do not.
ChatOnly ==
    /\ pc \in {"begin", "connect", "stream"} => opt.kind = "chat"
    /\ pc = "embed" => opt.kind = "embeddings"

\* Only an ended stream comes back with 200.
Succeeded ==
    result = 200 =>
        /\ wire # <<>> /\ wire[1].type = "server_share" /\ wire[Len(wire)].type = "trailer"
        /\ opt.kind = "chat" => eof = TRUE /\ ready = <<>>
        /\ SealedIn(wire) # {} => \E i \in SealedIn(wire) : wire[i].final

\* The outcome decides what becomes of the post and of the JSON answer.
Outcome ==
    /\ pc \in {"answer", "repost", "done"} => result # 0
    /\ pc = "answer" => json = 0
    /\ pc = "repost" => result >= 400 /\ json = 0 /\ post \in {"complete", "reset"}
    /\ pc = "done" => result = 200 \/ json = result \/ post \in {"lost", "missed"}

\* What has been yielded and what is ready is folded; at the end of the bytes
\* the separator is not owed any more.
ThinkingInOrder ==
    opt.legacy /\ opt.kind = "chat" =>
        /\ Folded(sent \o ready, fold)
        /\ eof /\ fold.saw => fold.emitted

Control == SessionFreed /\ Unwritten /\ Streaming /\ ChatOnly /\ Succeeded /\ Outcome

IInv == TypeOK /\ NumberedOnce /\ Control /\ ThinkingInOrder

-----------------------------------------------------------------------------
(* Writing frames *)

\* Yielding the first ready piece leaves what is sent or ready as it was.
LEMMA MoveHead ==
  ASSUME NEW S, NEW q \in Seq(S), NEW r \in Seq(S), r # <<>>
  PROVE  Append(q, Head(r)) \o Tail(r) = q \o r
<1> DEFINE a == Append(q, Head(r))
           b == Tail(r)
<1>1. a \in Seq(S) /\ Len(a) = Len(q) + 1 /\ a[Len(q) + 1] = r[1]
      /\ \A i \in 1..Len(q) : a[i] = q[i]
  OBVIOUS
<1>2. b \in Seq(S) /\ Len(b) = Len(r) - 1 /\ \A i \in 1..Len(b) : b[i] = r[i + 1]
  OBVIOUS
<1> HIDE DEF a, b
<1>3. a \o b \in Seq(S) /\ Len(a \o b) = Len(q) + Len(r)
  <2>1. a \in Seq(S) /\ b \in Seq(S)
    BY <1>1, <1>2, Zenon
  <2>2. a \o b \in Seq(S) /\ Len(a \o b) = Len(a) + Len(b)
    BY <2>1
  <2>3. Len(q) \in Nat /\ Len(r) \in Nat /\ Len(a) = Len(q) + 1 /\ Len(b) = Len(r) - 1
    BY <1>1, <1>2
  <2> QED
    BY <2>2, <2>3
<1>5. q \o r \in Seq(S) /\ Len(q \o r) = Len(q) + Len(r)
  OBVIOUS
<1>4. ASSUME NEW i \in 1..(Len(q) + Len(r)) PROVE (a \o b)[i] = (q \o r)[i]
  <2>1. CASE i <= Len(q)
    BY <1>1, <1>2, <2>1
  <2>2. CASE i = Len(q) + 1
    BY <1>1, <1>2, <2>2
  <2>3. CASE i > Len(q) + 1
    <3>1. (a \o b)[i] = b[i - Len(a)] /\ (q \o r)[i] = r[i - Len(q)]
      BY <1>1, <1>2, <2>3
    <3>2. i - Len(a) \in 1..Len(b) /\ i - Len(a) + 1 = i - Len(q)
      BY <1>1, <1>2, <2>3
    <3> QED
      BY <1>2, <3>1, <3>2
  <2> QED
    <3>1. i <= Len(q) \/ i = Len(q) + 1 \/ i > Len(q) + 1
      OBVIOUS
    <3> QED
      BY <2>1, <2>2, <2>3, <3>1, Zenon
<1> QED
  BY <1>3, <1>4, <1>5 DEF a, b

\* Where the frames of two sequences are in their concatenation.
LEMMA Joined ==
  ASSUME NEW S, NEW a \in Seq(S), NEW b \in Seq(S)
  PROVE  /\ a \o b \in Seq(S) /\ DOMAIN (a \o b) = 1..(Len(a) + Len(b)) /\ Len(a \o b) = Len(a) + Len(b)
         /\ Len(a) \in Nat /\ Len(b) \in Nat /\ DOMAIN a = 1..Len(a) /\ DOMAIN b = 1..Len(b)
         /\ \A i \in DOMAIN a : i \in DOMAIN (a \o b) /\ (a \o b)[i] = a[i]
         /\ \A k \in DOMAIN b : Len(a) + k \in DOMAIN (a \o b) /\ (a \o b)[Len(a) + k] = b[k]
         /\ \A i \in DOMAIN (a \o b) : i \in DOMAIN a \/ \E k \in DOMAIN b : i = Len(a) + k
<1>1. /\ a \o b \in Seq(S) /\ Len(a \o b) = Len(a) + Len(b) /\ Len(a) \in Nat /\ Len(b) \in Nat
      /\ DOMAIN a = 1..Len(a) /\ DOMAIN b = 1..Len(b) /\ DOMAIN (a \o b) = 1..(Len(a) + Len(b))
  OBVIOUS
<1>2. \A i \in DOMAIN a : i \in DOMAIN (a \o b) /\ (a \o b)[i] = a[i]
  BY <1>1
<1>3. \A k \in DOMAIN b : Len(a) + k \in DOMAIN (a \o b) /\ (a \o b)[Len(a) + k] = b[k]
  BY <1>1
<1>4. ASSUME NEW i \in DOMAIN (a \o b), i \notin DOMAIN a
      PROVE  \E k \in DOMAIN b : i = Len(a) + k
  <2>1. i - Len(a) \in DOMAIN b /\ i = Len(a) + (i - Len(a))
    BY <1>1, <1>4
  <2> QED
    BY <2>1
<1> QED
  BY <1>1, <1>2, <1>3, <1>4

\* Two more elements at once or one after the other.
LEMMA TwoMore ==
  ASSUME NEW S, NEW a \in Seq(S), NEW x \in S, NEW y \in S
  PROVE  a \o <<x, y>> = (a \o <<x>>) \o <<y>>
<1>1. a \o <<x, y>> = Append(Append(a, x), y)
  OBVIOUS
<1>2. a \o <<x>> = Append(a, x) /\ Append(a, x) \in Seq(S)
  OBVIOUS
<1>3. Append(a, x) \o <<y>> = Append(Append(a, x), y)
  BY <1>2
<1> QED
  BY <1>1, <1>2, <1>3

\* Frames that are not ciphertexts change nothing about the numbering.
LEMMA WritePlain ==
  ASSUME NEW w \in Seq(Frames), NEW fs \in Seq(Frames), \A k \in DOMAIN fs : fs[k].type # "ciphertext",
         NEW n \in Nat
  PROVE  /\ SealedIn(w \o fs) = SealedIn(w) /\ \A i \in SealedIn(w) : (w \o fs)[i] = w[i]
         /\ Numbered(w, n) => Numbered(w \o fs, n)
         /\ NoFinal(w) => NoFinal(w \o fs)
         /\ (\E i \in SealedIn(w) : w[i].final) => \E i \in SealedIn(w \o fs) : (w \o fs)[i].final
<1> DEFINE v == w \o fs
<1>1. /\ \A i \in DOMAIN w : i \in DOMAIN v /\ v[i] = w[i]
      /\ \A k \in DOMAIN fs : v[Len(w) + k] = fs[k]
      /\ \A i \in DOMAIN v : i \in DOMAIN w \/ \E k \in DOMAIN fs : i = Len(w) + k
  BY Joined
<1> HIDE DEF v
<1>2. SealedIn(v) = SealedIn(w) /\ \A i \in SealedIn(w) : v[i] = w[i]
  BY <1>1 DEF SealedIn
<1>3. Numbered(w, n) => Numbered(v, n)
  BY <1>2 DEF Numbered
<1>4. NoFinal(w) => NoFinal(v)
  BY <1>2 DEF NoFinal
<1> QED
  BY <1>2, <1>3, <1>4 DEF v

\* Ciphertexts with the next numbers, only the last of them final.
LEMMA WriteSealed ==
  ASSUME NEW w \in Seq(Frames), NEW n \in Nat, Numbered(w, n), NoFinal(w),
         NEW fs \in Seq(Frames),
         \A k \in DOMAIN fs : /\ fs[k].type = "ciphertext" /\ fs[k].seq = n + k - 1
                              /\ fs[k].final => k = Len(fs)
  PROVE  /\ Numbered(w \o fs, n + Len(fs))
         /\ SealedIn(w \o fs) = SealedIn(w) \cup {Len(w) + k : k \in DOMAIN fs}
         /\ (\A k \in DOMAIN fs : ~fs[k].final) => NoFinal(w \o fs)
         /\ fs # <<>> /\ fs[Len(fs)].final => \E i \in SealedIn(w \o fs) : (w \o fs)[i].final
<1> DEFINE v == w \o fs
<1>1. /\ \A i \in DOMAIN w : i \in DOMAIN v /\ v[i] = w[i] /\ i \in 1..Len(w)
      /\ \A k \in DOMAIN fs : Len(w) + k \in DOMAIN v /\ v[Len(w) + k] = fs[k] /\ k \in 1..Len(fs)
      /\ \A i \in DOMAIN v : i \in DOMAIN w \/ \E k \in DOMAIN fs : i = Len(w) + k
      /\ Len(w) \in Nat /\ Len(fs) \in Nat /\ DOMAIN fs = 1..Len(fs) /\ DOMAIN w = 1..Len(w)
  <2>1. Len(w) \in Nat /\ Len(fs) \in Nat /\ DOMAIN fs = 1..Len(fs) /\ DOMAIN w = 1..Len(w)
    OBVIOUS
  <2>2. /\ \A i \in DOMAIN w : i \in DOMAIN v /\ v[i] = w[i]
        /\ \A k \in DOMAIN fs : Len(w) + k \in DOMAIN v /\ v[Len(w) + k] = fs[k]
        /\ \A i \in DOMAIN v : i \in DOMAIN w \/ \E k \in DOMAIN fs : i = Len(w) + k
    BY Joined, SMTT(40)
  <2> QED
    BY <2>1, <2>2
<1> HIDE DEF v
<1>2. /\ SealedIn(v) = SealedIn(w) \cup {Len(w) + k : k \in DOMAIN fs}
      /\ \A i \in SealedIn(w) : i \in DOMAIN w /\ v[i] = w[i]
      /\ \A k \in DOMAIN fs : Len(w) + k \in SealedIn(v)
      /\ \A i \in SealedIn(v) : i \in SealedIn(w) \/ \E k \in DOMAIN fs : i = Len(w) + k
  BY <1>1 DEF SealedIn
<1>3. \A i \in SealedIn(w) : w[i].seq \in 0..(n - 1)
  BY DEF Numbered
<1>4. ASSUME NEW i \in SealedIn(v), NEW j \in SealedIn(v), i < j
      PROVE  v[i].seq < v[j].seq /\ ~v[i].final
  <2>1. CASE i \in SealedIn(w) /\ j \in SealedIn(w)
    BY <1>2, <1>4, <2>1 DEF Numbered
  <2>2. CASE i \in SealedIn(w) /\ \E k \in DOMAIN fs : j = Len(w) + k
    <3>1. PICK k \in DOMAIN fs : j = Len(w) + k
      BY <2>2
    <3>2. v[j].seq = n + k - 1 /\ k \in Nat /\ k >= 1
      BY <1>1, <3>1
    <3>3. v[i] = w[i] /\ v[i].seq \in 0..(n - 1) /\ ~v[i].final
      BY <1>2, <1>3, <2>2 DEF NoFinal
    <3> QED
      BY <3>2, <3>3
  <2>3. CASE (\E k \in DOMAIN fs : i = Len(w) + k) /\ j \in SealedIn(w)
    <3>1. PICK k \in DOMAIN fs : i = Len(w) + k
      BY <2>3
    <3>2. j \in 1..Len(w) /\ k \in 1..Len(fs)
      BY <1>1, <1>2, <2>3
    <3> QED
      BY <1>1, <1>4, <3>1, <3>2
  <2>4. CASE (\E k \in DOMAIN fs : i = Len(w) + k) /\ \E k \in DOMAIN fs : j = Len(w) + k
    <3>1. PICK k \in DOMAIN fs, m \in DOMAIN fs : i = Len(w) + k /\ j = Len(w) + m
      BY <2>4
    <3>2. k < m /\ k # Len(fs)
      BY <1>1, <1>4, <3>1
    <3> QED
      BY <1>1, <3>1, <3>2
  <2> QED
    BY <1>2, <2>1, <2>2, <2>3, <2>4
<1>5. {v[i].seq : i \in SealedIn(v)} = 0..(n + Len(fs) - 1)
  <2>1. ASSUME NEW i \in SealedIn(v) PROVE v[i].seq \in 0..(n + Len(fs) - 1)
    <3>1. CASE i \in SealedIn(w)
      BY <1>1, <1>2, <1>3, <3>1
    <3>2. CASE \E k \in DOMAIN fs : i = Len(w) + k
      BY <1>1, <3>2
    <3> QED
      BY <1>2, <3>1, <3>2
  <2>2. ASSUME NEW m \in 0..(n + Len(fs) - 1) PROVE \E i \in SealedIn(v) : v[i].seq = m
    <3>1. CASE m < n
      <4>1. m \in {w[i].seq : i \in SealedIn(w)}
        BY <3>1 DEF Numbered
      <4>2. PICK i \in SealedIn(w) : w[i].seq = m
        BY <4>1
      <4> QED
        BY <1>2, <4>2
    <3>2. CASE m >= n
      <4> DEFINE k == m - n + 1
      <4>1. k \in 1..Len(fs) /\ n + k - 1 = m
        BY <1>1, <3>2
      <4> HIDE DEF k
      <4>2. v[Len(w) + k] = fs[k] /\ fs[k].seq = m
        BY <1>1, <4>1
      <4> QED
        BY <1>1, <1>2, <4>1, <4>2
    <3> QED
      BY <3>1, <3>2
  <2> QED
    BY <2>1, <2>2, SMTT(40)
<1>6. Numbered(v, n + Len(fs))
  BY <1>4, <1>5 DEF Numbered
<1>7. (\A k \in DOMAIN fs : ~fs[k].final) => NoFinal(v)
  BY <1>1, <1>2 DEF NoFinal
<1>8. fs # <<>> /\ fs[Len(fs)].final => \E i \in SealedIn(v) : v[i].final
  <2>1. fs # <<>> => Len(fs) \in DOMAIN fs
    BY <1>1
  <2> QED
    BY <1>1, <1>2, <2>1
<1> QED
  BY <1>2, <1>6, <1>7, <1>8 DEF v

\* What encrypt_piece returns while the provider holds the session.
LEMMA Encrypted ==
  ASSUME session = TRUE, seq \in Nat, NEW pieces \in Seq(Seq(Unit)), NEW final \in BOOLEAN
  PROVE  LET fs == encrypt_piece(pieces, final)
         IN  /\ fs \in Seq(Frames) /\ Len(fs) = Len(pieces) /\ DOMAIN fs = 1..Len(pieces)
             /\ \A k \in DOMAIN fs : /\ fs[k].type = "ciphertext" /\ fs[k].seq = seq + k - 1
                                     /\ fs[k].final = (final /\ k = Len(pieces))
<1> DEFINE fs == encrypt_piece(pieces, final)
           G(i) == Frame("ciphertext", seq + i - 1, final /\ i = Len(pieces), pieces[i])
<1>1. fs = [i \in 1..Len(pieces) |-> G(i)] /\ Len(pieces) \in Nat
  BY DEF encrypt_piece
<1>2. \A i \in 1..Len(pieces) : G(i) \in Frames
  <2> TAKE i \in 1..Len(pieces)
  <2>1. seq + i - 1 \in Nat /\ pieces[i] \in Seq(Unit) /\ (final /\ i = Len(pieces)) \in BOOLEAN
    OBVIOUS
  <2> QED
    BY <2>1 DEF Frame, Frames, FrameType
<1>3. \A i \in 1..Len(pieces) : /\ G(i).type = "ciphertext" /\ G(i).seq = seq + i - 1
                                /\ G(i).final = (final /\ i = Len(pieces))
  BY DEF Frame
<1> HIDE DEF G, fs
<1>4. fs \in Seq(Frames) /\ Len(fs) = Len(pieces) /\ DOMAIN fs = 1..Len(pieces)
  BY <1>1, <1>2
<1>5. \A k \in DOMAIN fs : fs[k] = G(k)
  BY <1>1
<1> QED
  BY <1>3, <1>4, <1>5 DEF fs

\* A buffer that has at most filled one chunk leaves less than a chunk.
LEMMA Chunked ==
  ASSUME NEW text \in Seq(Unit), Len(text) <= ChunkChars
  PROVE  /\ FullChunks(text) \in Seq(Seq(Unit)) /\ LeftOver(text) \in Seq(Unit)
         /\ Len(LeftOver(text)) < ChunkChars
<1>1. ChunkChars \in Nat /\ ChunkChars > 0 /\ Len(text) \in Nat
  BY ChunkCharsAssumption
<1>2. CASE Len(text) < ChunkChars
  <2>1. Len(text) \div ChunkChars = 0
    BY <1>1, <1>2
  <2>2. FullChunks(text) = <<>>
    BY <1>1, <2>1 DEF FullChunks
  <2>3. LeftOver(text) = SubSeq(text, 1, Len(text))
    BY <1>1, <2>1 DEF LeftOver
  <2> QED
    BY <1>1, <1>2, <2>2, <2>3
<1>3. CASE Len(text) = ChunkChars
  <2>1. Len(text) \div ChunkChars = 1
    BY <1>1, <1>3
  <2> DEFINE G(i) == SubSeq(text, (i - 1) * ChunkChars + 1, i * ChunkChars)
  <2>2. \A i \in 1..1 : G(i) \in Seq(Unit)
    <3> TAKE i \in 1..1
    <3>1. i = 1 /\ (i - 1) * ChunkChars + 1 = 1 /\ i * ChunkChars = ChunkChars
      BY <1>1
    <3> QED
      BY <1>1, <1>3, <3>1
  <2>3. FullChunks(text) \in Seq(Seq(Unit))
    <3>1. FullChunks(text) = [i \in 1..1 |-> G(i)]
      BY <2>1 DEF FullChunks
    <3> HIDE DEF G
    <3> QED
      BY <2>2, <3>1
  <2>4. LeftOver(text) = SubSeq(text, ChunkChars + 1, ChunkChars)
    BY <1>1, <1>3, <2>1 DEF LeftOver
  <2> QED
    BY <1>1, <1>3, <2>3, <2>4
<1> QED
  BY <1>1, <1>2, <1>3

-----------------------------------------------------------------------------
(* The thinking fold *)

\* One more unit of text.
LEMMA Extended ==
  ASSUME NEW x \in Seq(Unit), NEW u \in Unit
  PROVE  /\ Append(x, u) \in Seq(Unit) /\ DOMAIN Append(x, u) = DOMAIN x \cup {Len(x) + 1}
         /\ \A i \in DOMAIN x : Append(x, u)[i] = x[i] /\ i < Len(x) + 1
         /\ Append(x, u)[Len(x) + 1] = u
         /\ Len(x) \in Nat /\ DOMAIN x = 1..Len(x)
<1>1. Append(x, u) \in Seq(Unit) /\ Len(x) \in Nat /\ DOMAIN x = 1..Len(x) /\ DOMAIN Append(x, u) = 1..(Len(x) + 1)
  OBVIOUS
<1>2. 1..(Len(x) + 1) = 1..Len(x) \cup {Len(x) + 1}
  BY <1>1
<1> QED
  BY <1>1, <1>2

\* Reasoning may come at any time.
LEMMA FoldReasoning ==
  ASSUME NEW x \in Seq(Unit), NEW f, NEW g, Folded(x, f), g.saw, g.emitted <=> f.emitted
  PROVE  Folded(Append(x, "r"), g)
<1> DEFINE y == Append(x, "r")
           n == Len(x) + 1
<1>1. /\ DOMAIN y = DOMAIN x \cup {n} /\ y[n] = "r" /\ n \in Nat /\ DOMAIN x = 1..Len(x)
      /\ \A i \in DOMAIN x : y[i] = x[i] /\ i < n
  BY Extended DEF Unit
<1> HIDE DEF y, n
<1>2. \A j, k \in DOMAIN y : y[j] = "r" /\ y[k] = "c" /\ j < k => \E i \in DOMAIN y : i < k /\ y[i] = "s"
  <2> SUFFICES ASSUME NEW j \in DOMAIN y, NEW k \in DOMAIN y, y[j] = "r", y[k] = "c", j < k
               PROVE  \E i \in DOMAIN y : i < k /\ y[i] = "s"
    OBVIOUS
  <2>1. k \in DOMAIN x /\ j \in DOMAIN x
    BY <1>1
  <2> QED
    BY <1>1, <2>1 DEF Folded
<1> QED
  BY <1>1, <1>2 DEF Folded, y, n

\* Content, when no separator is owed.
LEMMA FoldContent ==
  ASSUME NEW x \in Seq(Unit), NEW f, NEW g, Folded(x, f), g.saw <=> f.saw, g.emitted <=> f.emitted,
         f.saw => f.emitted
  PROVE  Folded(Append(x, "c"), g)
<1> DEFINE y == Append(x, "c")
           n == Len(x) + 1
<1>1. /\ DOMAIN y = DOMAIN x \cup {n} /\ y[n] = "c" /\ n \in Nat /\ DOMAIN x = 1..Len(x)
      /\ \A i \in DOMAIN x : y[i] = x[i] /\ i < n
  BY Extended DEF Unit
<1> HIDE DEF y, n
<1>2. \A j, k \in DOMAIN y : y[j] = "r" /\ y[k] = "c" /\ j < k => \E i \in DOMAIN y : i < k /\ y[i] = "s"
  <2> SUFFICES ASSUME NEW j \in DOMAIN y, NEW k \in DOMAIN y, y[j] = "r", y[k] = "c", j < k
               PROVE  \E i \in DOMAIN y : i < k /\ y[i] = "s"
    OBVIOUS
  <2>1. j \in DOMAIN x /\ x[j] = "r"
    BY <1>1
  <2>2. \E i \in DOMAIN x : x[i] = "s"
    BY <2>1 DEF Folded
  <2>3. CASE k \in DOMAIN x
    BY <1>1, <2>1, <2>3 DEF Folded
  <2>4. CASE k = n
    BY <1>1, <2>2, <2>4
  <2> QED
    BY <1>1, <2>3, <2>4
<1> QED
  BY <1>1, <1>2 DEF Folded, y, n

\* The separator that is owed.
LEMMA FoldBoundary ==
  ASSUME NEW x \in Seq(Unit), NEW f, NEW g, Folded(x, f), g.saw, g.emitted, f.saw, ~f.emitted
  PROVE  Folded(Append(x, "s"), g)
<1> DEFINE y == Append(x, "s")
           n == Len(x) + 1
<1>1. /\ DOMAIN y = DOMAIN x \cup {n} /\ y[n] = "s" /\ n \in Nat /\ DOMAIN x = 1..Len(x)
      /\ \A i \in DOMAIN x : y[i] = x[i] /\ i < n
  BY Extended DEF Unit
<1> HIDE DEF y, n
<1>2. \A i \in DOMAIN x : x[i] # "s"
  BY DEF Folded
<1>3. \E i \in DOMAIN x : x[i] = "r"
  BY DEF Folded
<1>4. \A j, k \in DOMAIN y : y[j] = "r" /\ y[k] = "c" /\ j < k => \E i \in DOMAIN y : i < k /\ y[i] = "s"
  BY <1>1, <1>2 DEF Folded
<1>5. \A i \in DOMAIN y : y[i] = "s" => \E j \in DOMAIN y : j < i /\ y[j] = "r"
  BY <1>1, <1>2, <1>3
<1> QED
  BY <1>1, <1>2, <1>3, <1>4, <1>5 DEF Folded, y, n

\* The pieces of an event line in legacy mode, and the flags they leave.
LineShape(d, f) ==
    \/ d = <<>> /\ (f.saw <=> fold.saw) /\ (f.emitted <=> fold.emitted)
    \/ d = <<"r">> /\ f.saw /\ (f.emitted <=> fold.emitted)
    \/ d = <<"c">> /\ (f.saw <=> fold.saw) /\ (f.emitted <=> fold.emitted) /\ (fold.saw => fold.emitted)
    \/ d = <<"r", "c">> /\ f.saw /\ f.emitted /\ fold.emitted
    \/ d = <<"s", "c">> /\ f.saw /\ f.emitted /\ fold.saw /\ ~fold.emitted
    \/ d = <<"r", "s", "c">> /\ f.saw /\ f.emitted /\ ~fold.emitted

\* enqueue_sse_line yields one of these.
LEMMA LinePieces ==
  ASSUME TypeOK, NEW l \in Lines \cup {NoLine}
  PROVE  /\ EnqueuedPieces(l) \in Seq(Unit)
         /\ FoldAfter(l) \in [saw : BOOLEAN, emitted : BOOLEAN]
         /\ opt.legacy => LineShape(EnqueuedPieces(l), FoldAfter(l))
<1>1. fold \in [saw : BOOLEAN, emitted : BOOLEAN] /\ opt.legacy \in BOOLEAN
  BY DEF TypeOK
<1>2. l.delta \in {"empty", "role", "reasoning", "content", "both"}
  BY DEF Lines, NoLine
<1>3. CASE opt.legacy
  <2>1. /\ ~Contains(<<>>, "r") /\ ~Contains(<<>>, "c") /\ ~Contains(<<>>, "s")
        /\ Contains(<<"r">>, "r") /\ ~Contains(<<"r">>, "c") /\ ~Contains(<<"r">>, "s")
        /\ ~Contains(<<"c">>, "r") /\ Contains(<<"c">>, "c") /\ ~Contains(<<"c">>, "s")
        /\ Contains(<<"r", "c">>, "r") /\ Contains(<<"r", "c">>, "c") /\ ~Contains(<<"r", "c">>, "s")
    BY DEF Contains
  <2>2. /\ ~Contains(<<"s", "c">>, "r") /\ Contains(<<"s", "c">>, "s")
        /\ Contains(<<"r", "s", "c">>, "r") /\ Contains(<<"r", "s", "c">>, "s")
    BY DEF Contains
  <2> DEFINE d == EnqueuedPieces(l)
             f == FoldAfter(l)
  <2>3. f = [saw |-> fold.saw \/ Contains(d, "r"), emitted |-> fold.emitted \/ Contains(d, "s")]
    BY <1>3 DEF FoldAfter
  <2>4. f \in [saw : BOOLEAN, emitted : BOOLEAN] /\ (f.saw <=> fold.saw \/ Contains(d, "r"))
        /\ (f.emitted <=> fold.emitted \/ Contains(d, "s"))
    <3>1. Contains(d, "r") \in BOOLEAN /\ Contains(d, "s") \in BOOLEAN
      BY DEF Contains
    <3> QED
      BY <1>1, <2>3, <3>1
  <2>5. \/ d = <<>>
        \/ d = <<"r">>
        \/ d = <<"c">> /\ (fold.saw => fold.emitted)
        \/ d = <<"r", "c">> /\ fold.emitted
        \/ d = <<"s", "c">> /\ fold.saw /\ ~fold.emitted
        \/ d = <<"r", "s", "c">> /\ ~fold.emitted
    <3>1. CASE l.kind # "choice"
      BY <3>1 DEF EnqueuedPieces
    <3>2. CASE l.kind = "choice"
      <4>1. d = LegacyPieces(l)
        BY <1>3, <3>2 DEF EnqueuedPieces
      <4>2. CASE l.delta \in {"empty", "role"}
        <5>1. stream_deltas_from_vllm_choice(l) = <<>>
          BY <4>2 DEF stream_deltas_from_vllm_choice
        <5> QED
          BY <2>1, <4>1, <5>1 DEF LegacyPieces
      <4>3. CASE l.delta = "reasoning"
        <5>1. stream_deltas_from_vllm_choice(l) = <<"r">>
          BY <4>3 DEF stream_deltas_from_vllm_choice
        <5> QED
          BY <2>1, <4>1, <5>1 DEF LegacyPieces
      <4>4. CASE l.delta = "content"
        <5>1. stream_deltas_from_vllm_choice(l) = <<"c">>
          BY <4>4 DEF stream_deltas_from_vllm_choice
        <5> QED
          BY <2>1, <4>1, <5>1 DEF LegacyPieces
      <4>5. CASE l.delta = "both"
        <5>1. stream_deltas_from_vllm_choice(l) = <<"r", "c">>
          BY <4>5 DEF stream_deltas_from_vllm_choice
        <5> QED
          BY <2>1, <4>1, <5>1 DEF LegacyPieces
      <4> QED
        BY <1>2, <4>2, <4>3, <4>4, <4>5
    <3> QED
      BY <3>1, <3>2
  <2> HIDE DEF d, f
  <2>6. d \in Seq(Unit)
    <3>1. "r" \in Unit /\ "s" \in Unit /\ "c" \in Unit
      BY DEF Unit
    <3>2. /\ <<>> \in Seq(Unit) /\ <<"r">> \in Seq(Unit) /\ <<"c">> \in Seq(Unit)
          /\ <<"r", "c">> \in Seq(Unit) /\ <<"s", "c">> \in Seq(Unit) /\ <<"r", "s", "c">> \in Seq(Unit)
      BY <3>1
    <3> QED
      BY <2>5, <3>2
  <2>7. LineShape(d, f)
    BY <2>1, <2>2, <2>4, <2>5 DEF LineShape
  <2> QED
    BY <2>4, <2>6, <2>7 DEF d, f
<1>4. CASE ~opt.legacy
  <2>1. EnqueuedPieces(l) = <<>> \/ EnqueuedPieces(l) = <<l.delta>>
    BY <1>4 DEF EnqueuedPieces, openai_delta_frame_from_vllm_choice
  <2>2. l.delta \in Unit
    BY <1>2 DEF Unit
  <2>3. EnqueuedPieces(l) \in Seq(Unit)
    <3>1. <<>> \in Seq(Unit) /\ <<l.delta>> \in Seq(Unit)
      BY <2>2
    <3> QED
      BY <2>1, <3>1
  <2>4. FoldAfter(l) = fold
    BY <1>4 DEF FoldAfter
  <2> QED
    BY <1>1, <1>4, <2>3, <2>4
<1> QED
  BY <1>1, <1>3, <1>4

\* The text of an event line is made of units.
LEMMA LineText ==
  ASSUME NEW l \in Lines \cup {NoLine}
  PROVE  TextOf(l) \in Seq(Unit)
<1>1. l.delta \in {"empty", "role", "reasoning", "content", "both"}
  BY DEF Lines, NoLine
<1>2. <<>> \in Seq(Unit) /\ <<"r">> \in Seq(Unit) /\ <<"c">> \in Seq(Unit) /\ <<"r", "c">> \in Seq(Unit)
      /\ <<l.delta>> \in Seq(Unit)
  BY <1>1 DEF Unit
<1>3. stream_deltas_from_vllm_choice(l) \in {<<>>, <<"r">>, <<"c">>, <<"r", "c">>}
  BY DEF stream_deltas_from_vllm_choice
<1>4. openai_delta_frame_from_vllm_choice(l) \in {<<>>, <<l.delta>>}
  BY DEF openai_delta_frame_from_vllm_choice
<1> QED
  BY <1>2, <1>3, <1>4 DEF TextOf

\* A line keeps the text folded.
LEMMA FoldLine ==
  ASSUME NEW x \in Seq(Unit), Folded(x, fold), NEW d, NEW f, LineShape(d, f)
  PROVE  Folded(x \o d, f)
<1> DEFINE T == [saw |-> TRUE, emitted |-> TRUE]
           P == [saw |-> TRUE, emitted |-> FALSE]
<1>0. T.saw /\ T.emitted /\ P.saw /\ ~P.emitted
  OBVIOUS
<1> HIDE DEF T, P
<1>1. CASE d = <<>> /\ (f.saw <=> fold.saw) /\ (f.emitted <=> fold.emitted)
  <2>1. x \o d = x
    BY <1>1
  <2> QED
    BY <1>1, <2>1 DEF Folded
<1>2. CASE d = <<"r">> /\ f.saw /\ (f.emitted <=> fold.emitted)
  <2>1. x \o d = Append(x, "r")
    BY <1>2 DEF Unit
  <2> QED
    BY <1>2, <2>1, FoldReasoning
<1>3. CASE d = <<"c">> /\ (f.saw <=> fold.saw) /\ (f.emitted <=> fold.emitted) /\ (fold.saw => fold.emitted)
  <2>1. x \o d = Append(x, "c")
    BY <1>3 DEF Unit
  <2> QED
    BY <1>3, <2>1, FoldContent
<1>4. CASE d = <<"r", "c">> /\ f.saw /\ f.emitted /\ fold.emitted
  <2>1. x \o d = Append(Append(x, "r"), "c") /\ Append(x, "r") \in Seq(Unit)
    BY <1>4 DEF Unit
  <2>2. Folded(Append(x, "r"), T)
    BY <1>0, <1>4, FoldReasoning
  <2> QED
    BY <1>0, <1>4, <2>1, <2>2, FoldContent
<1>5. CASE d = <<"s", "c">> /\ f.saw /\ f.emitted /\ fold.saw /\ ~fold.emitted
  <2>1. x \o d = Append(Append(x, "s"), "c") /\ Append(x, "s") \in Seq(Unit)
    BY <1>5 DEF Unit
  <2>2. Folded(Append(x, "s"), T)
    BY <1>0, <1>5, FoldBoundary
  <2> QED
    BY <1>0, <1>5, <2>1, <2>2, FoldContent
<1>6. CASE d = <<"r", "s", "c">> /\ f.saw /\ f.emitted /\ ~fold.emitted
  <2> DEFINE y == Append(x, "r")
             z == Append(y, "s")
  <2>1. x \o d = Append(z, "c") /\ y \in Seq(Unit) /\ z \in Seq(Unit)
    BY <1>6 DEF Unit
  <2>2. Folded(y, P)
    BY <1>0, <1>6, FoldReasoning
  <2> HIDE DEF y
  <2>3. Folded(z, T)
    BY <1>0, <2>1, <2>2, FoldBoundary
  <2> HIDE DEF z
  <2> QED
    BY <1>0, <1>6, <2>1, <2>3, FoldContent
<1> QED
  BY <1>1, <1>2, <1>3, <1>4, <1>5, <1>6 DEF LineShape

-----------------------------------------------------------------------------
(* Steps *)

\* NumberedOnce says of the wire what Numbered says of any sequence.
LEMMA NumberedWire == NumberedOnce <=> Numbered(wire, seq)
  BY DEF NumberedOnce, Numbered, Sealed, SealedIn

\* Steps that neither read the upstream nor write.
LEMMA SilentStep ==
  ASSUME IInv, UNCHANGED <<opt, upstream, chat>>,
         \/ FreeEngine \/ OpenStreamingPost \/ RefuseEnvelope \/ Dispatch \/ EmbeddingsFail
         \/ ChatBegin \/ ChatRefused \/ FinishPost \/ AbortPost \/ PostAnswer \/ UNCHANGED vars
  PROVE  IInv'
<1>0. TypeOK /\ NumberedOnce /\ Control /\ ThinkingInOrder
  BY DEF IInv
<1>1. /\ UNCHANGED <<opt, tail, ready, fold, eof, lines, finish, said>> /\ UNCHANGED <<pending, seq, wire, sent>>
  BY DEF upstream, chat
<1>2. NumberedOnce' /\ ThinkingInOrder'
  BY <1>0, <1>1, SMTT(40) DEF NumberedOnce, Sealed, ThinkingInOrder, Folded
<1>3. ASSUME TypeOK', Control' PROVE IInv'
  BY <1>2, <1>3 DEF IInv
<1>s. /\ pc \in {"pulled", "prepare", "embed", "begin", "connect", "stream", "answer", "repost", "done"}
      /\ keyHeld \in BOOLEAN /\ session \in BOOLEAN
      /\ result \in {0, 200, 400, 401, 422, 502, 503}
      /\ post \in {"none", "open", "complete", "reset", "lost", "missed"}
      /\ json \in {0, 400, 401, 422, 502, 503}
  BY <1>0 DEF TypeOK
<1>t. ASSUME pc' \in {"pulled", "prepare", "embed", "begin", "connect", "stream", "answer", "repost", "done"},
             keyHeld' \in BOOLEAN, session' \in BOOLEAN,
             result' \in {0, 200, 400, 401, 422, 502, 503},
             post' \in {"none", "open", "complete", "reset", "lost", "missed"},
             json' \in {0, 400, 401, 422, 502, 503}
      PROVE  TypeOK'
  BY <1>0, <1>1, <1>t DEF TypeOK
<1>4. CASE FreeEngine
  <2>1. /\ UNCHANGED <<pc, session, result, post, json>> /\ keyHeld' = FALSE
    BY <1>4 DEF FreeEngine
  <2>2. TypeOK'
    <3>1. keyHeld' \in BOOLEAN /\ session' \in BOOLEAN
      BY <1>s, <2>1, ZenonT(40)
    <3> QED
      BY <1>s, <1>t, <2>1, <3>1
  <2>3. Control'
    BY <1>0, <1>1, <2>1 DEF Control, SessionFreed, Unwritten, Streaming, ChatOnly, Succeeded, Outcome
  <2> QED
    BY <1>3, <2>2, <2>3
<1>5. CASE OpenStreamingPost
  <2>1. pc = "pulled" /\ pc' = "prepare" /\ post' = "open" /\ UNCHANGED <<keyHeld, session, result, json>>
    BY <1>5 DEF OpenStreamingPost
  <2>2. TypeOK'
    BY <1>s, <1>t, <2>1
  <2>3. Control'
    BY <1>0, <1>1, <2>1 DEF Control, SessionFreed, Unwritten, Streaming, ChatOnly, Succeeded, Outcome
  <2> QED
    BY <1>3, <2>2, <2>3
<1>6. CASE RefuseEnvelope \/ EmbeddingsFail
  <2>1. /\ pc \in {"prepare", "embed"} /\ pc' = "answer" /\ UNCHANGED <<keyHeld, session, post, json>>
        /\ result' \in {400, 401, 422, 502, 503}
    BY <1>6 DEF RefuseEnvelope, EmbeddingsFail, Return, embeddings_upstream_failed_result
  <2>2. TypeOK'
    BY <1>s, <1>t, <2>1
  <2>3. Control'
    BY <1>0, <1>1, <2>1 DEF Control, SessionFreed, Unwritten, Streaming, ChatOnly, Succeeded, Outcome
  <2> QED
    BY <1>3, <2>2, <2>3
<1>7. CASE Dispatch
  <2>1. /\ pc = "prepare" /\ pc' = IF opt.kind = "embeddings" THEN "embed" ELSE "begin"
        /\ UNCHANGED <<keyHeld, session, result, post, json>> /\ opt.kind \in {"chat", "embeddings"}
    BY <1>0, <1>7 DEF Dispatch, TypeOK
  <2>2. TypeOK'
    BY <1>s, <1>t, <2>1
  <2>3. Control'
    BY <1>0, <1>1, <2>1 DEF Control, SessionFreed, Unwritten, Streaming, ChatOnly, Succeeded, Outcome
  <2> QED
    BY <1>3, <2>2, <2>3
<1>8. CASE ChatBegin
  <2>1. /\ pc = "begin" /\ UNCHANGED <<keyHeld, post, json>>
        /\ \/ pc' = "connect" /\ session' = TRUE /\ UNCHANGED result
           \/ pc' = "answer" /\ UNCHANGED session /\ result' = 400
    BY <1>8 DEF ChatBegin, Return
  <2>2. TypeOK'
    <3>1. keyHeld' \in BOOLEAN /\ session' \in BOOLEAN
      BY <1>s, <2>1, ZenonT(40)
    <3> QED
      BY <1>s, <1>t, <2>1, <3>1
  <2>3. Control'
    BY <1>0, <1>1, <2>1 DEF Control, SessionFreed, Unwritten, Streaming, ChatOnly, Succeeded, Outcome
  <2> QED
    BY <1>3, <2>2, <2>3
<1>9. CASE ChatRefused
  <2>1. /\ pc = "connect" /\ UNCHANGED <<keyHeld, post, json>>
        /\ pc' = "answer" /\ session' = FALSE /\ result' \in {422, 502}
    BY <1>9 DEF ChatRefused, Return, vllm_upstream_failed_result
  <2>2. TypeOK'
    <3>1. keyHeld' \in BOOLEAN /\ session' \in BOOLEAN
      BY <1>s, <2>1, ZenonT(40)
    <3> QED
      BY <1>s, <1>t, <2>1, <3>1
  <2>3. Control'
    BY <1>0, <1>1, <2>1 DEF Control, SessionFreed, Unwritten, Streaming, ChatOnly, Succeeded, Outcome
  <2> QED
    BY <1>3, <2>2, <2>3
<1>10. CASE FinishPost \/ AbortPost
  <2>1. /\ pc = "answer" /\ UNCHANGED <<keyHeld, session, result, json>>
        /\ \/ pc' = "done" /\ result < 400 /\ post' \in {"complete", "lost"}
           \/ pc' = "repost" /\ ~(result < 400) /\ post' \in {"complete", "reset"}
    BY <1>10 DEF FinishPost, AbortPost, stream_ok
  <2>2. TypeOK'
    BY <1>s, <1>t, <2>1
  <2>3. result \in {0, 200, 400, 401, 422, 502, 503} /\ result # 0
    BY <1>0, <2>1 DEF TypeOK, Control, Outcome
  <2>4. Outcome'
    BY <1>0, <2>1, <2>3 DEF Control, Outcome
  <2>5. SessionFreed' /\ Unwritten' /\ Streaming' /\ ChatOnly' /\ Succeeded'
    BY <1>0, <1>1, <2>1 DEF Control, SessionFreed, Unwritten, Streaming, ChatOnly, Succeeded
  <2> QED
    BY <1>3, <2>2, <2>4, <2>5 DEF Control
<1>11. CASE PostAnswer
  <2>1. /\ pc = "repost" /\ pc' = "done" /\ UNCHANGED <<keyHeld, session, result>>
        /\ \/ json' = result /\ UNCHANGED post
           \/ post' \in {"missed", "lost"} /\ UNCHANGED json
    BY <1>11 DEF PostAnswer
  <2>2. result \in {400, 401, 422, 502, 503}
    BY <1>0, <2>1 DEF TypeOK, Control, Outcome
  <2>3. TypeOK'
    BY <1>s, <1>t, <2>1, <2>2
  <2>4. Outcome'
    BY <1>0, <2>1, <2>2 DEF Control, Outcome
  <2>5. SessionFreed' /\ Unwritten' /\ Streaming' /\ ChatOnly' /\ Succeeded'
    BY <1>0, <1>1, <2>1 DEF Control, SessionFreed, Unwritten, Streaming, ChatOnly, Succeeded
  <2> QED
    BY <1>3, <2>3, <2>4, <2>5 DEF Control
<1>12. CASE UNCHANGED vars
  <2>1. UNCHANGED <<pc, keyHeld, session, result, post, json>>
    BY <1>12 DEF vars
  <2>2. TypeOK'
    BY <1>s, <1>t, <2>1
  <2>3. Control'
    BY <1>0, <1>1, <2>1 DEF Control, SessionFreed, Unwritten, Streaming, ChatOnly, Succeeded, Outcome
  <2> QED
    BY <1>3, <2>2, <2>3
<1> QED
  BY <1>4, <1>5, <1>6, <1>7, <1>8, <1>9, <1>10, <1>11, <1>12

\* Steps that read the upstream's bytes and write nothing.
LEMMA ReadStep ==
  ASSUME IInv, \/ \E l \in Lines : ReceiveLine(l) \/ ReceivePart(l)
               \/ ReceiveRest \/ ReceiveEof
  PROVE  IInv'
<1>0. TypeOK /\ NumberedOnce /\ Control /\ ThinkingInOrder
  BY DEF IInv
<1>1. /\ pc = "stream" /\ ready = <<>> /\ ~eof /\ UNCHANGED <<opt, pc, keyHeld, session, result, post, json>>
      /\ UNCHANGED <<pending, seq, wire, sent>>
  BY DEF ReceiveLine, ReceivePart, ReceiveRest, ReceiveEof, NeedsBytes, chat
<1>2. NumberedOnce' /\ Control'
  <2>1. NumberedOnce' /\ SessionFreed' /\ Unwritten' /\ Streaming' /\ ChatOnly' /\ Outcome'
    BY <1>0, <1>1 DEF Control, NumberedOnce, Sealed, SessionFreed, Unwritten, Streaming, ChatOnly, Outcome
  <2>2. Succeeded'
    BY <1>0, <1>1 DEF Control, Streaming, Succeeded
  <2> QED
    BY <2>1, <2>2 DEF Control
<1>u. said' \in Seq(Unit)
  <2>1. said \in Seq(Unit)
    BY <1>0 DEF TypeOK
  <2>2. said' = said \/ \E l \in Lines : said' = said \o TextOf(l)
    BY DEF ReceiveLine, ReceivePart, ReceiveRest, ReceiveEof
  <2>3. ASSUME NEW l \in Lines, said' = said \o TextOf(l) PROVE said' \in Seq(Unit)
    <3>1. TextOf(l) \in Seq(Unit)
      BY LineText
    <3> QED
      BY <2>1, <2>3, <3>1
  <2> QED
    BY <2>1, <2>2, <2>3
<1>t. ASSUME tail' \in Lines \cup {NoLine}, lines' \in 0..MaxLines, ready' \in Seq(Unit),
             fold' \in [saw : BOOLEAN, emitted : BOOLEAN], eof' \in BOOLEAN, finish' \in BOOLEAN
      PROVE  TypeOK'
  BY <1>0, <1>1, <1>t, <1>u DEF TypeOK
<1>3. sent \in Seq(Unit) /\ sent \o ready = sent /\ sent' = sent
  BY <1>0, <1>1 DEF TypeOK
<1>4. opt.legacy /\ opt.kind = "chat" => Folded(sent, fold)
  BY <1>0, <1>3 DEF ThinkingInOrder
<1>5. /\ tail \in Lines \cup {NoLine} /\ lines \in 0..MaxLines /\ eof \in BOOLEAN /\ finish \in BOOLEAN
      /\ fold \in [saw : BOOLEAN, emitted : BOOLEAN] /\ MaxLines \in Nat /\ lines \in Nat
  BY <1>0, MaxLinesAssumption DEF TypeOK
<1>6. ASSUME NEW l \in Lines \cup {NoLine}, Enqueue(l), tail' \in Lines \cup {NoLine}, lines' \in 0..MaxLines,
             UNCHANGED eof
      PROVE  IInv'
  <2>1. ready' = EnqueuedPieces(l) /\ fold' = FoldAfter(l) /\ finish' = (finish \/ l.fin)
    BY <1>6 DEF Enqueue
  <2>2. /\ EnqueuedPieces(l) \in Seq(Unit) /\ FoldAfter(l) \in [saw : BOOLEAN, emitted : BOOLEAN]
        /\ opt.legacy => LineShape(EnqueuedPieces(l), FoldAfter(l))
    BY <1>0, <1>6, LinePieces
  <2>3. finish' \in BOOLEAN
    BY <2>1
  <2>4. TypeOK'
    BY <1>5, <1>6, <1>t, <2>1, <2>2, <2>3
  <2>5. opt.legacy /\ opt.kind = "chat" => Folded(sent \o ready', fold')
    BY <1>3, <1>4, <2>1, <2>2, FoldLine
  <2>6. ThinkingInOrder'
    BY <1>1, <1>3, <1>6, <2>5 DEF ThinkingInOrder
  <2> QED
    BY <1>2, <2>4, <2>6 DEF IInv
<1>7. ASSUME NEW l \in Lines, ReceiveLine(l) PROVE IInv'
  <2>1. Enqueue(l) /\ UNCHANGED <<tail, eof>> /\ lines < MaxLines /\ lines' = lines + 1
    BY <1>7 DEF ReceiveLine
  <2> QED
    BY <1>5, <1>6, <2>1
<1>8. ASSUME NEW l \in Lines, ReceivePart(l) PROVE IInv'
  <2>1. UNCHANGED <<ready, fold, eof, finish>> /\ lines < MaxLines /\ lines' = lines + 1 /\ tail' = l
    BY <1>8 DEF ReceivePart
  <2>2. tail' \in Lines \cup {NoLine} /\ lines' \in 0..MaxLines /\ ready' \in Seq(Unit)
    BY <1>1, <1>5, <2>1
  <2>3. TypeOK'
    BY <1>5, <1>t, <2>1, <2>2
  <2>4. ThinkingInOrder'
    BY <1>0, <1>1, <2>1 DEF ThinkingInOrder
  <2> QED
    BY <1>2, <2>3, <2>4 DEF IInv
<1>9. CASE ReceiveRest
  <2>1. Enqueue(tail) /\ tail' = NoLine /\ UNCHANGED <<lines, eof>>
    BY <1>9 DEF ReceiveRest
  <2> QED
    BY <1>5, <1>6, <2>1
<1>10. CASE ReceiveEof
  <2> DEFINE d == EnqueuedPieces(tail)
             f == FoldAfter(tail)
             b == BoundaryAtEof(f)
  <2>1. /\ eof' = TRUE /\ tail' = NoLine /\ ready' = d \o (IF b THEN <<"s">> ELSE <<>>)
        /\ fold' = [f EXCEPT !.emitted = @ \/ b] /\ finish' = (finish \/ tail.fin) /\ UNCHANGED lines
    BY <1>10 DEF ReceiveEof
  <2>2. /\ d \in Seq(Unit) /\ f \in [saw : BOOLEAN, emitted : BOOLEAN]
        /\ opt.legacy => LineShape(d, f)
    BY <1>0, <1>5, LinePieces
  <2>3. b <=> opt.legacy /\ f.saw /\ ~f.emitted
    BY DEF BoundaryAtEof
  <2>b. b \in BOOLEAN
    BY DEF BoundaryAtEof
  <2> HIDE DEF d, f, b
  <2>4. /\ fold' \in [saw : BOOLEAN, emitted : BOOLEAN] /\ (fold'.saw <=> f.saw)
        /\ (fold'.emitted <=> f.emitted \/ b)
    BY <2>1, <2>2, <2>b
  <2>5. finish' \in BOOLEAN /\ eof' \in BOOLEAN
    BY <2>1
  <2>6. "s" \in Unit /\ <<"s">> \in Seq(Unit) /\ <<>> \in Seq(Unit)
    BY DEF Unit
  <2>7. ready' \in Seq(Unit)
    BY <2>1, <2>2, <2>6
  <2>8. TypeOK'
    BY <1>5, <1>t, <2>1, <2>4, <2>5, <2>7
  <2>9. ASSUME opt.legacy, opt.kind = "chat"
        PROVE  Folded(sent \o ready', fold') /\ (fold'.saw => fold'.emitted)
    <3>1. Folded(sent \o d, f)
      BY <1>3, <1>4, <2>2, <2>9, FoldLine
    <3>2. CASE b
      <4>1. sent \o ready' = Append(sent \o d, "s") /\ sent \o d \in Seq(Unit)
        <5>1. ready' = d \o <<"s">>
          BY <2>1, <3>2
        <5> QED
          BY <1>3, <2>2, <2>6, <5>1
      <4> QED
        BY <2>3, <2>4, <3>1, <3>2, <4>1, FoldBoundary
    <3>3. CASE ~b
      <4>1. ready' = d
        BY <2>1, <2>2, <3>3
      <4> QED
        BY <2>3, <2>4, <2>9, <3>1, <3>3, <4>1 DEF Folded
    <3> QED
      BY <3>2, <3>3
  <2>10. ThinkingInOrder'
    BY <1>1, <1>3, <2>9 DEF ThinkingInOrder
  <2> QED
    BY <1>2, <2>8, <2>10 DEF IInv
<1> QED
  BY <1>7, <1>8, <1>9, <1>10

\* The frames that are not ciphertexts.
LEMMA PlainFrames ==
  /\ Opening \in Seq(Frames) /\ Opening # <<>> /\ Opening[1].type = "server_share"
  /\ \A k \in DOMAIN Opening : Opening[k].type # "ciphertext"
  /\ write_vllm_finish_status \in Seq(Frames)
  /\ \A k \in DOMAIN write_vllm_finish_status : write_vllm_finish_status[k].type # "ciphertext"
  /\ <<Bare("trailer")>> \in Seq(Frames) /\ Bare("trailer").type = "trailer"
  /\ \A k \in DOMAIN <<Bare("trailer")>> : <<Bare("trailer")>>[k].type # "ciphertext"
<1>1. \A y \in FrameType : Bare(y) \in Frames /\ Bare(y).type = y
  BY DEF Bare, Frame, Frames
<1>2. {"server_share", "header", "status", "trailer"} \subseteq FrameType
  BY DEF FrameType
<1>3. /\ Bare("server_share") \in Frames /\ Bare("server_share").type = "server_share"
      /\ Bare("header") \in Frames /\ Bare("header").type = "header"
      /\ Bare("status") \in Frames /\ Bare("status").type = "status"
      /\ Bare("trailer") \in Frames /\ Bare("trailer").type = "trailer"
  BY <1>1, <1>2
<1>4. CASE opt.transcript
  <2>1. Opening = <<Bare("server_share"), Bare("header")>>
    BY <1>4 DEF Opening
  <2> QED
    BY <1>3, <2>1 DEF write_vllm_finish_status
<1>5. CASE ~opt.transcript
  <2>1. Opening = <<Bare("server_share")>>
    BY <1>5 DEF Opening
  <2> QED
    BY <1>3, <2>1 DEF write_vllm_finish_status
<1> QED
  BY <1>4, <1>5

\* The opening frames.
LEMMA AcceptStep ==
  ASSUME IInv, ChatAccepted
  PROVE  IInv'
<1>0. TypeOK /\ NumberedOnce /\ Control /\ ThinkingInOrder
  BY DEF IInv
<1>1. /\ pc = "connect" /\ pc' = "stream" /\ wire' = wire \o Opening
      /\ UNCHANGED <<opt, keyHeld, session, pending, seq, sent, result, post, json>>
      /\ UNCHANGED <<tail, ready, fold, eof, lines, finish, said>>
  BY DEF ChatAccepted, upstream
<1>2. wire = <<>> /\ seq = 0 /\ result = 0 /\ json = 0 /\ wire \in Seq(Frames)
  BY <1>0, <1>1 DEF Control, Unwritten, TypeOK
<1>3. /\ wire' \in Seq(Frames) /\ wire' = Opening
  BY <1>1, <1>2, PlainFrames
<1>4. TypeOK'
  BY <1>0, <1>1, <1>3 DEF TypeOK
<1>5. NumberedOnce' /\ NoFinal(wire')
  <2>1. Numbered(wire, 0) /\ NoFinal(wire)
    BY <1>0, <1>2, NumberedWire DEF NoFinal, SealedIn
  <2>2. Numbered(wire', 0) /\ NoFinal(wire')
    BY <1>1, <1>2, <2>1, PlainFrames, WritePlain
  <2> QED
    BY <1>1, <1>2, <2>2 DEF NumberedOnce, Numbered, Sealed, SealedIn
<1>6. Control'
  <2>1. SessionFreed' /\ Unwritten' /\ ChatOnly' /\ Outcome'
    BY <1>0, <1>1 DEF Control, SessionFreed, Unwritten, ChatOnly, Outcome
  <2>2. Streaming' /\ Succeeded'
    BY <1>1, <1>2, <1>3, <1>5, PlainFrames DEF Streaming, Succeeded
  <2> QED
    BY <2>1, <2>2 DEF Control
<1>7. ThinkingInOrder'
  BY <1>0, <1>1 DEF ThinkingInOrder
<1> QED
  BY <1>4, <1>5, <1>6, <1>7 DEF IInv

\* A piece taken from the upstream's stream and sealed.
LEMMA YieldStep ==
  ASSUME IInv, YieldPiece
  PROVE  /\ IInv' /\ seq' >= seq /\ (seq' = seq => wire' = wire)
<1>0. TypeOK /\ NumberedOnce /\ Control /\ ThinkingInOrder
  BY DEF IInv
<1> DEFINE unit == Head(ready)
           text == Append(pending, unit)
           pieces == IF opt.legacy THEN FullChunks(text) ELSE <<<<unit>>>>
           frames == encrypt_piece(pieces, FALSE)
<1>1. /\ pc = "stream" /\ ready # <<>> /\ ready' = Tail(ready) /\ sent' = Append(sent, unit)
      /\ pending' = IF opt.legacy THEN LeftOver(text) ELSE pending
      /\ wire' = wire \o frames /\ seq' = seq + Len(frames)
      /\ UNCHANGED <<opt, pc, keyHeld, session, tail, fold, eof, lines, finish, said, result, post, json>>
  BY DEF YieldPiece
<1>2. /\ session = TRUE /\ wire # <<>> /\ wire[1].type = "server_share" /\ NoFinal(wire) /\ result = 0 /\ json = 0
      /\ seq \in Nat /\ wire \in Seq(Frames) /\ pending \in Seq(Unit) /\ Len(pending) < ChunkChars
      /\ ready \in Seq(Unit) /\ sent \in Seq(Unit) /\ Numbered(wire, seq)
  BY <1>0, <1>1, NumberedWire DEF Control, SessionFreed, Streaming, TypeOK
<1>3. unit \in Unit /\ Tail(ready) \in Seq(Unit)
  BY <1>1, <1>2
<1> HIDE DEF unit
<1>4. text \in Seq(Unit) /\ Len(text) <= ChunkChars
  BY <1>2, <1>3, ChunkCharsAssumption
<1> HIDE DEF text
<1>5. pieces \in Seq(Seq(Unit)) /\ pending' \in Seq(Unit) /\ Len(pending') < ChunkChars
  <2>1. <<unit>> \in Seq(Unit)
    BY <1>3
  <2>2. <<<<unit>>>> \in Seq(Seq(Unit))
    BY <2>1
  <2> QED
    BY <1>1, <1>2, <1>4, <2>2, Chunked
<1> HIDE DEF pieces
<1>6. /\ frames \in Seq(Frames) /\ Len(frames) \in Nat
      /\ \A k \in DOMAIN frames : /\ frames[k].type = "ciphertext" /\ frames[k].seq = seq + k - 1
                                  /\ ~frames[k].final
  <2>1. /\ frames \in Seq(Frames) /\ Len(frames) = Len(pieces)
        /\ \A k \in DOMAIN frames : /\ frames[k].type = "ciphertext" /\ frames[k].seq = seq + k - 1
                                    /\ frames[k].final = (FALSE /\ k = Len(pieces))
    BY <1>2, <1>5, Encrypted, Zenon
  <2> HIDE DEF frames
  <2>2. Len(frames) \in Nat
    BY <2>1
  <2>3. \A k \in DOMAIN frames : ~frames[k].final
    BY <2>1, Zenon
  <2> QED
    BY <2>1, <2>2, <2>3, Zenon
<1> HIDE DEF frames
<1>7. Numbered(wire', seq') /\ NoFinal(wire')
  <2>1. \A k \in DOMAIN frames : /\ frames[k].type = "ciphertext" /\ frames[k].seq = seq + k - 1
                                 /\ frames[k].final => k = Len(frames)
    BY <1>6
  <2>2. Numbered(wire \o frames, seq + Len(frames)) /\ NoFinal(wire \o frames)
    BY <1>2, <1>6, <2>1, WriteSealed, Zenon
  <2> QED
    BY <1>1, <2>2, Zenon
<1>8. wire' \in Seq(Frames) /\ wire' # <<>> /\ wire'[1] = wire[1] /\ seq' \in Nat
  BY <1>1, <1>2, <1>6
<1>9. TypeOK'
  <2>1. sent' \in Seq(Unit) /\ ready' \in Seq(Unit)
    BY <1>1, <1>2, <1>3
  <2> QED
    BY <1>0, <1>1, <1>5, <1>8, <2>1 DEF TypeOK
<1>10. NumberedOnce'
  BY <1>7 DEF NumberedOnce, Numbered, Sealed, SealedIn
<1>11. Control'
  <2>1. SessionFreed' /\ Unwritten' /\ ChatOnly' /\ Outcome'
    BY <1>0, <1>1 DEF Control, SessionFreed, Unwritten, ChatOnly, Outcome
  <2>2. Streaming' /\ Succeeded'
    BY <1>1, <1>2, <1>7, <1>8 DEF Streaming, Succeeded
  <2> QED
    BY <2>1, <2>2 DEF Control
<1>12. ThinkingInOrder'
  <2>1. Append(sent, unit) \o Tail(ready) = sent \o ready
    BY <1>1, <1>2, MoveHead DEF unit
  <2> QED
    BY <1>0, <1>1, <2>1 DEF ThinkingInOrder
<1>13. seq' >= seq /\ (seq' = seq => wire' = wire)
  <2>1. seq' = seq => frames = <<>>
    BY <1>1, <1>2, <1>6
  <2> QED
    BY <1>1, <1>2, <1>6, <2>1, SMTT(40)
<1> QED
  BY <1>9, <1>10, <1>11, <1>12, <1>13 DEF IInv

\* The last piece: one final ciphertext, when there is any.
LEMMA LastPiece ==
  ASSUME TypeOK, NumberedOnce, session = TRUE, NoFinal(wire), NEW last,
         last = <<>> \/ last = <<pending>>
  PROVE  LET fs == encrypt_piece(last, TRUE)
         IN  /\ fs \in Seq(Frames) /\ Len(fs) = Len(last) /\ Len(last) \in {0, 1}
             /\ Numbered(wire \o fs, seq + Len(fs))
             /\ fs # <<>> => \E i \in SealedIn(wire \o fs) : (wire \o fs)[i].final
<1> DEFINE fs == encrypt_piece(last, TRUE)
<1>1. pending \in Seq(Unit) /\ seq \in Nat /\ wire \in Seq(Frames) /\ Numbered(wire, seq)
  BY NumberedWire DEF TypeOK
<1>2. last \in Seq(Seq(Unit)) /\ Len(last) \in {0, 1}
  <2>1. <<>> \in Seq(Seq(Unit)) /\ <<pending>> \in Seq(Seq(Unit))
    BY <1>1
  <2>2. Len(<<>>) = 0 /\ Len(<<pending>>) = 1
    OBVIOUS
  <2> QED
    BY <2>1, <2>2
<1>3. /\ fs \in Seq(Frames) /\ Len(fs) = Len(last) /\ DOMAIN fs = 1..Len(last)
      /\ \A k \in DOMAIN fs : /\ fs[k].type = "ciphertext" /\ fs[k].seq = seq + k - 1
                              /\ fs[k].final = (TRUE /\ k = Len(last))
  BY <1>1, <1>2, Encrypted, Zenon
<1> HIDE DEF fs
<1>4. \A k \in DOMAIN fs : /\ fs[k].type = "ciphertext" /\ fs[k].seq = seq + k - 1
                           /\ fs[k].final => k = Len(fs)
  BY <1>3, Zenon
<1>5. /\ Numbered(wire \o fs, seq + Len(fs))
      /\ fs # <<>> /\ fs[Len(fs)].final => \E i \in SealedIn(wire \o fs) : (wire \o fs)[i].final
  BY <1>1, <1>3, <1>4, WriteSealed, Zenon
<1>6. fs # <<>> => Len(fs) \in DOMAIN fs
  BY <1>3
<1>7. fs # <<>> => fs[Len(fs)].final
  BY <1>3, <1>6, Zenon
<1> QED
  BY <1>2, <1>3, <1>5, <1>7, Zenon DEF fs

\* The upstream breaks off.
LEMMA ErrorStep ==
  ASSUME IInv, StreamError
  PROVE  IInv' /\ seq' >= seq /\ (seq' = seq => wire' = wire) /\ NoFinal(wire)
<1>0. TypeOK /\ NumberedOnce /\ Control /\ ThinkingInOrder
  BY DEF IInv
<1> DEFINE last == IF seq > 0 THEN <<pending>> ELSE <<>>
           fs == encrypt_piece(last, TRUE)
<1>1. /\ pc = "stream" /\ session' = FALSE /\ result' = 502 /\ pc' = "answer"
      /\ pending' = (IF seq > 0 THEN <<>> ELSE pending)
      /\ UNCHANGED <<opt, keyHeld, sent, post, json>> /\ UNCHANGED <<tail, ready, fold, eof, lines, finish, said>>
  BY DEF StreamError, NeedsBytes, Return, upstream
<1>2. /\ session = TRUE /\ NoFinal(wire) /\ json = 0 /\ seq \in Nat /\ wire \in Seq(Frames) /\ pending \in Seq(Unit)
      /\ Len(pending) < ChunkChars
  BY <1>0, <1>1 DEF Control, SessionFreed, Streaming, TypeOK
<1>3. /\ fs \in Seq(Frames) /\ Len(fs) = Len(last) /\ Len(last) \in {0, 1} /\ Numbered(wire \o fs, seq + Len(fs))
  BY <1>0, <1>2, LastPiece
<1>4. wire' = wire \o fs /\ seq' = seq + Len(fs)
  <2>1. CASE seq > 0
    BY <2>1 DEF StreamError
  <2>2. CASE ~(seq > 0)
    <3>1. fs = <<>>
      <4>1. last = <<>> /\ Len(<<>>) = 0
        BY <2>2
      <4>2. Len(fs) = 0
        BY <1>3, <4>1
      <4> HIDE DEF fs
      <4> QED
        BY <1>3, <4>2
    <3>2. wire' = wire \o <<>> /\ seq' = seq + Len(<<>>)
      BY <2>2 DEF StreamError
    <3> QED
      BY <3>1, <3>2
  <2> QED
    BY <2>1, <2>2
<1> HIDE DEF last, fs
<1>5. wire' \in Seq(Frames) /\ seq' \in Nat /\ pending' \in Seq(Unit) /\ Len(pending') < ChunkChars
  BY <1>1, <1>2, <1>3, <1>4, ChunkCharsAssumption
<1>6. session' \in BOOLEAN
  BY <1>1, Zenon
<1>7. TypeOK'
  BY <1>0, <1>1, <1>5, <1>6 DEF TypeOK
<1>8. NumberedOnce'
  BY <1>3, <1>4 DEF NumberedOnce, Numbered, Sealed, SealedIn
<1>9. Control'
  BY <1>0, <1>1, <1>2 DEF Control, SessionFreed, Unwritten, Streaming, ChatOnly, Succeeded, Outcome
<1>10. ThinkingInOrder'
  BY <1>0, <1>1 DEF ThinkingInOrder
<1>11. seq' >= seq /\ (seq' = seq => wire' = wire)
  <2>1. seq' = seq => fs = <<>>
    BY <1>2, <1>3, <1>4
  <2> QED
    BY <1>2, <1>3, <1>4, <2>1
<1> QED
  BY <1>2, <1>7, <1>8, <1>9, <1>10, <1>11 DEF IInv

\* A chat's stream comes to its end.
LEMMA EndStep ==
  ASSUME IInv, StreamEnd
  PROVE  /\ IInv' /\ seq' >= seq /\ NoFinal(wire)
         /\ seq' = seq => NoFinal(wire')
<1>0. TypeOK /\ NumberedOnce /\ Control /\ ThinkingInOrder
  BY DEF IInv
<1> DEFINE last == IF pending # <<>> \/ seq > 0 THEN <<pending>> ELSE <<>>
           fs == encrypt_piece(last, TRUE)
           w1 == wire \o fs
           w2 == w1 \o write_vllm_finish_status
<1>1. /\ pc = "stream" /\ eof /\ ready = <<>> /\ session' = FALSE /\ result' = 200 /\ pc' = "answer"
      /\ pending' = <<>> /\ wire' = w2 \o <<Bare("trailer")>> /\ seq' = seq + Len(fs)
      /\ UNCHANGED <<opt, keyHeld, sent, post, json>> /\ UNCHANGED <<tail, ready, fold, eof, lines, finish, said>>
  BY DEF StreamEnd, Return, upstream
<1>2. /\ session = TRUE /\ NoFinal(wire) /\ json = 0 /\ seq \in Nat /\ wire \in Seq(Frames) /\ pending \in Seq(Unit)
      /\ wire # <<>> /\ wire[1].type = "server_share" /\ opt.kind = "chat" /\ eof \in BOOLEAN
  BY <1>0, <1>1 DEF Control, SessionFreed, Streaming, ChatOnly, TypeOK
<1>3. /\ fs \in Seq(Frames) /\ Len(fs) = Len(last) /\ Len(last) \in {0, 1} /\ Numbered(w1, seq + Len(fs))
      /\ fs # <<>> => \E i \in SealedIn(w1) : w1[i].final
  BY <1>0, <1>2, LastPiece
<1>4. fs = <<>> => seq = 0 /\ w1 = wire
  <2>1. last # <<>> => last = <<pending>> /\ Len(<<pending>>) = 1
    OBVIOUS
  <2>2. fs = <<>> => Len(fs) = 0
    OBVIOUS
  <2>4. last = <<>> => seq = 0
    BY <1>2
  <2> HIDE DEF fs, last
  <2>3. fs = <<>> => last = <<>>
    BY <1>3, <2>1, <2>2
  <2>5. fs = <<>> => wire \o fs = wire
    BY <1>2
  <2> QED
    BY <2>3, <2>4, <2>5
<1> HIDE DEF last, fs
<1>5. w1 \in Seq(Frames) /\ w1 # <<>> /\ w1[1] = wire[1]
  BY <1>2, <1>3
<1> HIDE DEF w1
<1>6. w2 \in Seq(Frames) /\ w2 # <<>> /\ w2[1] = wire[1]
  BY <1>5, PlainFrames
<1>7. /\ SealedIn(w2) = SealedIn(w1) /\ Numbered(w2, seq + Len(fs)) /\ (NoFinal(w1) => NoFinal(w2))
      /\ (\E i \in SealedIn(w1) : w1[i].final) => \E i \in SealedIn(w2) : w2[i].final
  <2>1. seq + Len(fs) \in Nat
    BY <1>2, <1>3
  <2> QED
    BY <1>3, <1>5, <2>1, PlainFrames, WritePlain
<1> HIDE DEF w2
<1>8. /\ wire' \in Seq(Frames) /\ wire' # <<>> /\ wire'[1] = wire[1] /\ wire'[Len(wire')].type = "trailer"
  BY <1>1, <1>6, PlainFrames
<1>9. /\ SealedIn(wire') = SealedIn(w2) /\ Numbered(wire', seq + Len(fs)) /\ (NoFinal(w2) => NoFinal(wire'))
      /\ (\E i \in SealedIn(w2) : w2[i].final) => \E i \in SealedIn(wire') : wire'[i].final
  <2>1. seq + Len(fs) \in Nat
    BY <1>2, <1>3
  <2> QED
    BY <1>1, <1>6, <1>7, <2>1, PlainFrames, WritePlain
<1>10. seq' \in Nat /\ seq' >= seq /\ (seq' = seq => fs = <<>>)
  BY <1>1, <1>2, <1>3
<1>11. TypeOK'
  <2>1. session' \in BOOLEAN
    BY <1>1, Zenon
  <2>2. pending' \in Seq(Unit) /\ Len(pending') < ChunkChars
    BY <1>1, ChunkCharsAssumption
  <2> QED
    BY <1>0, <1>1, <1>8, <1>10, <2>1, <2>2 DEF TypeOK
<1>12. NumberedOnce'
  BY <1>1, <1>9 DEF NumberedOnce, Numbered, Sealed, SealedIn
<1>13. SealedIn(wire') # {} => \E i \in SealedIn(wire') : wire'[i].final
  <2>1. CASE fs # <<>>
    BY <1>3, <1>7, <1>9, <2>1
  <2>2. CASE fs = <<>>
    <3>1. seq = 0 /\ w1 = wire /\ Numbered(wire, 0)
      BY <1>0, <1>4, <2>2, NumberedWire
    <3>2. SealedIn(wire) = {}
      BY <3>1, SMTT(40) DEF Numbered
    <3> QED
      BY <1>7, <1>9, <3>1, <3>2
  <2> QED
    BY <2>1, <2>2
<1>14. Control'
  <2>1. SessionFreed' /\ Unwritten' /\ Streaming' /\ ChatOnly' /\ Outcome'
    BY <1>1, <1>2 DEF Control, SessionFreed, Unwritten, Streaming, ChatOnly, Outcome
  <2>2. eof' = TRUE /\ ready' = <<>>
    BY <1>1, <1>2
  <2>3. Succeeded'
    BY <1>2, <1>8, <1>13, <2>2 DEF Succeeded
  <2> QED
    BY <2>1, <2>3 DEF Control
<1>15. ThinkingInOrder'
  BY <1>0, <1>1 DEF ThinkingInOrder
<1>16. seq' = seq => NoFinal(wire')
  BY <1>2, <1>4, <1>7, <1>9, <1>10
<1> QED
  BY <1>2, <1>10, <1>11, <1>12, <1>14, <1>15, <1>16 DEF IInv

\* The answer of an embeddings request: one ciphertext, final.
LEMMA EmbeddingsStep ==
  ASSUME IInv, EmbeddingsAnswer
  PROVE  IInv' /\ seq = 0 /\ seq' = 1 /\ wire = <<>>
<1>0. TypeOK /\ NumberedOnce /\ Control /\ ThinkingInOrder
  BY DEF IInv
<1> DEFINE c == Frame("ciphertext", 0, TRUE, <<"e">>)
           w1 == wire \o Opening
           w2 == w1 \o <<c>>
<1>1. /\ pc = "embed" /\ said' = <<"e">> /\ sent' = <<"e">> /\ wire' = w1 \o <<c, Bare("trailer")>> /\ seq' = 1
      /\ result' = 200 /\ pc' = "answer" /\ UNCHANGED <<opt, keyHeld, session, pending, post, json>>
      /\ UNCHANGED <<tail, ready, fold, eof, lines, finish>>
  BY DEF EmbeddingsAnswer, Return, upstream
<1>2. wire = <<>> /\ seq = 0 /\ json = 0 /\ wire \in Seq(Frames) /\ opt.kind = "embeddings"
  BY <1>0, <1>1 DEF Control, Unwritten, ChatOnly, TypeOK
<1>3. c \in Frames /\ c.type = "ciphertext" /\ c.seq = 0 /\ c.final
  BY DEF Frame, Frames, FrameType, Unit
<1> HIDE DEF c
<1>4. w1 = Opening /\ w1 \in Seq(Frames) /\ w1 # <<>> /\ w1[1].type = "server_share"
  BY <1>2, PlainFrames
<1>5. Numbered(w1, 0) /\ NoFinal(w1)
  <2>1. Numbered(wire, 0) /\ NoFinal(wire)
    BY <1>0, <1>2, NumberedWire DEF NoFinal, SealedIn
  <2> QED
    BY <1>2, <2>1, PlainFrames, WritePlain
<1> HIDE DEF w1
<1>6. /\ <<c>> \in Seq(Frames) /\ Len(<<c>>) = 1 /\ DOMAIN <<c>> = {1} /\ <<c>>[1] = c
  BY <1>3
<1>7. Numbered(w2, 1) /\ \E i \in SealedIn(w2) : w2[i].final
  <2> DEFINE fs == <<c>>
  <2>1. \A k \in DOMAIN fs : /\ fs[k].type = "ciphertext" /\ fs[k].seq = 0 + k - 1
                             /\ fs[k].final => k = Len(fs)
    BY <1>3, <1>6
  <2>2. fs # <<>> /\ fs[Len(fs)].final
    BY <1>3, <1>6
  <2>3. fs \in Seq(Frames) /\ 0 + Len(fs) = 1
    BY <1>6
  <2> HIDE DEF fs
  <2>4. Numbered(w1 \o fs, 0 + Len(fs)) /\ \E i \in SealedIn(w1 \o fs) : (w1 \o fs)[i].final
    BY <1>4, <1>5, <2>1, <2>2, <2>3, 0 \in Nat, WriteSealed, Zenon
  <2> QED
    BY <2>3, <2>4 DEF fs
<1>8. w2 \in Seq(Frames) /\ w2 # <<>> /\ w2[1] = w1[1]
  BY <1>4, <1>6
<1>9. wire' = w2 \o <<Bare("trailer")>>
  <2>1. Bare("trailer") \in Frames
    BY DEF Bare, Frame, Frames, FrameType
  <2> QED
    BY <1>1, <1>3, <1>4, <2>1, TwoMore, SMTT(40)
<1> HIDE DEF w2
<1>10. /\ Numbered(wire', 1) /\ \E i \in SealedIn(wire') : wire'[i].final
  BY <1>7, <1>8, <1>9, PlainFrames, WritePlain
<1>11. wire' \in Seq(Frames) /\ wire' # <<>> /\ wire'[1] = w1[1] /\ wire'[Len(wire')].type = "trailer"
  BY <1>8, <1>9, PlainFrames
<1>12. TypeOK'
  <2>1. sent' \in Seq(Unit) /\ said' \in Seq(Unit)
    BY <1>1 DEF Unit
  <2> QED
    BY <1>0, <1>1, <1>11, <2>1 DEF TypeOK
<1>13. NumberedOnce'
  BY <1>1, <1>10 DEF NumberedOnce, Numbered, Sealed, SealedIn
<1>14. Control'
  <2>1. SessionFreed' /\ Unwritten' /\ Streaming' /\ ChatOnly' /\ Outcome'
    BY <1>0, <1>1, <1>2 DEF Control, SessionFreed, Unwritten, Streaming, ChatOnly, Outcome
  <2>2. Succeeded'
    BY <1>1, <1>2, <1>4, <1>10, <1>11 DEF Succeeded
  <2> QED
    BY <2>1, <2>2 DEF Control
<1>15. ThinkingInOrder'
  BY <1>1, <1>2 DEF ThinkingInOrder
<1> QED
  BY <1>1, <1>2, <1>12, <1>13, <1>14, <1>15 DEF IInv

-----------------------------------------------------------------------------
(* Theorems *)

\* A pulled unit of work satisfies the invariant.
LEMMA InitInv ==
  ASSUME Init PROVE IInv
<1>1. TypeOK
  <2>1. <<>> \in Seq(Unit) /\ <<>> \in Seq(Frames) /\ Len(<<>>) = 0
    OBVIOUS
  <2>2. fold \in [saw : BOOLEAN, emitted : BOOLEAN]
    BY DEF Init
  <2>3. lines \in 0..MaxLines /\ Len(pending) < ChunkChars
    BY <2>1, MaxLinesAssumption, ChunkCharsAssumption DEF Init
  <2>4. keyHeld \in BOOLEAN /\ session \in BOOLEAN /\ eof \in BOOLEAN /\ finish \in BOOLEAN
    BY Zenon DEF Init
  <2> QED
    BY <2>1, <2>2, <2>3, <2>4 DEF Init, TypeOK
<1>2. NumberedOnce
  BY DEF Init, NumberedOnce, Sealed
<1>3. Control
  BY DEF Init, Control, SessionFreed, Unwritten, Streaming, ChatOnly, Succeeded, Outcome
<1>4. ThinkingInOrder
  <2>1. sent \o ready = <<>>
    BY DEF Init
  <2>2. ~fold.saw /\ ~fold.emitted
    BY DEF Init
  <2>3. DOMAIN <<>> = {}
    OBVIOUS
  <2> QED
    BY <2>1, <2>2, <2>3 DEF ThinkingInOrder, Folded
<1> QED
  BY <1>1, <1>2, <1>3, <1>4 DEF IInv

\* Every step preserves it.
LEMMA StepInv ==
  ASSUME IInv, [Next]_vars PROVE IInv'
<1>1. CASE \/ FreeEngine \/ OpenStreamingPost \/ RefuseEnvelope \/ Dispatch \/ EmbeddingsFail
           \/ ChatBegin \/ ChatRefused \/ FinishPost \/ AbortPost \/ PostAnswer \/ UNCHANGED vars
  <2>1. UNCHANGED <<opt, upstream, chat>>
    BY <1>1 DEF FreeEngine, OpenStreamingPost, RefuseEnvelope, Dispatch, EmbeddingsFail, ChatBegin,
       ChatRefused, FinishPost, AbortPost, PostAnswer, vars
  <2> QED
    BY <1>1, <2>1, SilentStep
<1>2. CASE \/ \E l \in Lines : ReceiveLine(l) \/ ReceivePart(l)
           \/ ReceiveRest \/ ReceiveEof
  BY <1>2, ReadStep
<1> QED
  BY <1>1, <1>2, AcceptStep, YieldStep, ErrorStep, EndStep, EmbeddingsStep DEF Next, Work, Upstream, Done

\* The invariant holds throughout every response.
THEOREM Invariance == Spec => []IInv
<1>1. Init => IInv
  BY InitInv
<1>2. IInv /\ [Next]_vars => IInv'
  BY StepInv
<1> QED
  BY <1>1, <1>2, PTL DEF Spec

\* Frames, counters and statuses stay well-formed, and the text that waits is
\* always shorter than a chunk (the buffer of run_chat_inference).
THEOREM TypeCorrect == Spec => []TypeOK
<1>1. IInv => TypeOK
  BY DEF IInv
<1> QED
  BY <1>1, Invariance, PTL

\* No ciphertext number is used twice or left out, and nothing follows the
\* final one, on every path that seals (encrypt_piece and its callers).
THEOREM NumbersOnce == Spec => []NumberedOnce
<1>1. IInv => NumberedOnce
  BY DEF IInv
<1> QED
  BY <1>1, Invariance, PTL

\* The provider's response session is held exactly while the upstream is
\* asked and read: every way out of run_chat_inference frees it.
THEOREM SessionsFreed == Spec => []SessionFreed
<1>1. IInv => SessionFreed
  BY DEF IInv, Control
<1> QED
  BY <1>1, Invariance, PTL

\* A response the gateway keeps is a stream the upstream ended (pull_once's
\* choice between finish and abort by the status).
THEOREM NothingDropped == Spec => []NoSilentDrop
<1>1. IInv => NoSilentDrop
  <2> SUFFICES ASSUME IInv, pc = "done", json = 0, post = "complete"
               PROVE  /\ wire # <<>> /\ wire[1].type = "server_share" /\ Last(wire).type = "trailer"
                      /\ opt.kind = "chat" => eof
                      /\ Sealed # {} => \E i \in Sealed : wire[i].final
    BY DEF NoSilentDrop
  <2>1. result = 200
    BY DEF IInv, Control, Outcome
  <2> QED
    BY <2>1 DEF IInv, Control, Succeeded, Last, Sealed, SealedIn
<1> QED
  BY <1>1, Invariance, PTL

\* In a finished legacy answer the thinking separator stands where it belongs,
\* whatever the deltas and however lines are cut (enqueue_sse_line and the
\* end of the bytes).
THEOREM FoldsThinking == Spec => []ThinkingFolded
<1>1. IInv => ThinkingFolded
  <2> SUFFICES ASSUME IInv, opt.legacy, opt.kind = "chat", result = 200
               PROVE  ThinkingFolded
    BY DEF ThinkingFolded
  <2>1. ready = <<>> /\ eof = TRUE /\ sent \in Seq(Unit)
    BY DEF IInv, Control, Succeeded, TypeOK
  <2>2. sent \o ready = sent
    BY <2>1
  <2>3. Folded(sent, fold) /\ (fold.saw => fold.emitted)
    BY <2>1, <2>2 DEF IInv, ThinkingInOrder
  <2>4. CASE ~fold.saw
    <3>1. \A i \in DOMAIN sent : sent[i] # "r" /\ sent[i] # "s"
      BY <2>3, <2>4 DEF Folded
    <3> QED
      BY <3>1 DEF ThinkingFolded
  <2>5. CASE fold.saw
    <3>1. PICK i \in DOMAIN sent : sent[i] = "s"
      BY <2>3, <2>5 DEF Folded
    <3>2. \A j \in DOMAIN sent : sent[j] = "s" => j = i
      BY <2>3, <3>1 DEF Folded
    <3>3. PICK r \in DOMAIN sent : r < i /\ sent[r] = "r"
      BY <2>3, <3>1 DEF Folded
    <3>4. ASSUME NEW j \in DOMAIN sent, NEW k \in DOMAIN sent, sent[j] = "r", sent[k] = "c", j < i, k < i
          PROVE  k < j
      <4>1. j < k => i < k
        BY <2>3, <3>2, <3>4 DEF Folded
      <4>2. j \in Nat /\ k \in Nat /\ i \in Nat /\ j # k
        BY <2>1, <3>4
      <4> QED
        BY <3>4, <4>1, <4>2
    <3> QED
      BY <3>1, <3>2, <3>3, <3>4 DEF ThinkingFolded
  <2> QED
    BY <2>4, <2>5
<1> QED
  BY <1>1, Invariance, PTL

-----------------------------------------------------------------------------
(* Flattening a sequence of sequences, by induction on its length.  The    *)
(* induction is by least counterexample: the sets of naturals it needs are *)
(* named, so that no operator has to be instantiated.                      *)

\* Every non-empty set of naturals has a least element.
LEMMA LeastElement ==
  ASSUME NEW T, T \subseteq Nat, T # {}
  PROVE  \E x \in T : \A y \in T : x <= y
<1> DEFINE R == OpToRel(<, Nat)
<1>1. IsWellFoundedOn(R, Nat)
  BY NatLessThanWellFounded
<1>2. \A y, x \in Nat : <<y, x>> \in R <=> y < x
  BY DEF OpToRel
<1> HIDE DEF R
<1>3. PICK x \in T : \A y \in T : <<y, x>> \notin R
  BY <1>1, WFMin, Zenon
<1>4. ASSUME NEW y \in T PROVE x <= y
  <2>1. x \in Nat /\ y \in Nat /\ ~(y < x)
    BY <1>2, <1>3, Zenon
  <2> QED
    BY <2>1
<1> QED
  BY <1>4

\* The running concatenations of the first m sequences of s.
Running(s, m, g) ==
    /\ DOMAIN g = 1..m
    /\ \A i \in 1..m : g[i] = IF i = 1 THEN s[i] ELSE g[i - 1] \o s[i]

\* They exist for every m, by induction on m, and are sequences.
LEMMA RunningExists ==
  ASSUME NEW S, NEW s \in Seq(Seq(S)), NEW n \in 0..Len(s)
  PROVE  \E g \in [1..n -> Seq(S)] : Running(s, n, g)
<1> DEFINE T == {m \in 0..Len(s) : ~\E g \in [1..m -> Seq(S)] : Running(s, m, g)}
<1>1. SUFFICES ASSUME T # {} PROVE FALSE
  BY Zenon
<1>2. T \subseteq Nat
  OBVIOUS
<1> HIDE DEF T
<1>3. PICK m \in T : \A y \in T : m <= y
  BY <1>1, <1>2, LeastElement, Zenon
<1>4. m \in 0..Len(s) /\ ~\E g \in [1..m -> Seq(S)] : Running(s, m, g)
  BY <1>3, Zenon DEF T
<1>5. m # 0
  <2>1. ASSUME m = 0 PROVE FALSE
    <3> DEFINE e == [i \in 1..0 |-> <<>>]
    <3>1. e \in [1..0 -> Seq(S)] /\ Running(s, 0, e)
      BY DEF Running
    <3> QED
      BY <1>4, <2>1, <3>1
  <2> QED
    BY <2>1
<1>6. m - 1 \in 0..Len(s) /\ ~(m <= m - 1) /\ m \in Nat /\ Len(s) \in Nat
  BY <1>4, <1>5
<1>7. PICK g \in [1..(m - 1) -> Seq(S)] : Running(s, m - 1, g)
  <2>1. m - 1 \notin T
    BY <1>3, <1>6, Zenon
  <2> QED
    BY <1>6, <2>1, Zenon DEF T
<1> DEFINE x == IF m = 1 THEN s[m] ELSE g[m - 1] \o s[m]
           h == [i \in 1..m |-> IF i < m THEN g[i] ELSE x]
<1>8. x \in Seq(S)
  <2>1. s[m] \in Seq(S)
    BY <1>4, <1>5
  <2>2. m # 1 => g[m - 1] \in Seq(S)
    BY <1>6
  <2> QED
    BY <2>1, <2>2
<1>9. \A i \in 1..m : i < m => i \in 1..(m - 1)
  BY <1>6
<1> HIDE DEF x
<1>10. h \in [1..m -> Seq(S)]
  BY <1>8, <1>9
<1>11. Running(s, m, h)
  <2>1. ASSUME NEW i \in 1..m PROVE h[i] = IF i = 1 THEN s[i] ELSE h[i - 1] \o s[i]
    <3>1. CASE i < m
      <4>1. i \in 1..(m - 1) /\ h[i] = g[i]
        BY <1>9, <3>1
      <4>2. g[i] = IF i = 1 THEN s[i] ELSE g[i - 1] \o s[i]
        BY <1>7, <4>1 DEF Running
      <4>3. i # 1 => h[i - 1] = g[i - 1]
        BY <1>6, <4>1
      <4> QED
        BY <4>1, <4>2, <4>3, Zenon
    <3>2. CASE i = m
      <4>1. h[i] = x
        BY <1>6, <3>2
      <4>2. i # 1 => h[i - 1] = g[i - 1]
        BY <1>6, <3>2
      <4> QED
        BY <3>2, <4>1, <4>2, Zenon DEF x
    <3> QED
      BY <1>6, <3>1, <3>2
  <2> HIDE DEF h
  <2> QED
    BY <1>10, <2>1 DEF Running
<1> QED
  BY <1>4, <1>10, <1>11, Zenon

\* Two of them agree as far as both go, if their sequences do.
LEMMA RunningAgree ==
  ASSUME NEW m \in Nat, NEW n \in Nat, m <= n, NEW s, NEW t, \A i \in 1..m : s[i] = t[i],
         NEW g, Running(s, m, g), NEW h, Running(t, n, h)
  PROVE  \A i \in 1..m : g[i] = h[i]
<1> DEFINE T == {i \in 1..m : g[i] # h[i]}
<1>1. SUFFICES ASSUME T # {} PROVE FALSE
  BY Zenon
<1>2. T \subseteq Nat
  OBVIOUS
<1>d. \A i \in T : i \in 1..m /\ g[i] # h[i]
  OBVIOUS
<1>e. \A i \in 1..m : i \notin T => g[i] = h[i]
  OBVIOUS
<1> HIDE DEF T
<1>3. PICK i \in T : \A y \in T : i <= y
  BY <1>1, <1>2, LeastElement, Zenon
<1>4. i \in 1..m /\ i \in 1..n /\ g[i] # h[i]
  BY <1>d, <1>3
<1>5. g[i] = (IF i = 1 THEN s[i] ELSE g[i - 1] \o s[i]) /\ h[i] = (IF i = 1 THEN t[i] ELSE h[i - 1] \o t[i])
  BY <1>4 DEF Running
<1>6. i # 1 => i - 1 \in 1..m /\ ~(i <= i - 1)
  BY <1>4
<1>7. i # 1 => g[i - 1] = h[i - 1]
  BY <1>e, <1>3, <1>6, Zenon
<1> QED
  BY <1>4, <1>5, <1>7, Zenon

\* FlattenSeq is the last of the running concatenations.
LEMMA FlattenIs ==
  ASSUME NEW S, NEW s \in Seq(Seq(S)), s # <<>>
  PROVE  \E h \in [1..Len(s) -> Seq(S)] : Running(s, Len(s), h) /\ FlattenSeq(s) = h[Len(s)]
<1> DEFINE n == Len(s)
           B(f) == [i \in 1..n |-> IF i = 1 THEN s[i] ELSE f[i - 1] \o s[i]]
           F == CHOOSE f : f = B(f)
<1>1. n \in Nat /\ n # 0 /\ n \in 0..n
  OBVIOUS
<1>2. FlattenSeq(s) = F[n]
  BY <1>1 DEF FlattenSeq
<1>3. PICK g \in [1..n -> Seq(S)] : Running(s, n, g)
  BY <1>1, RunningExists, Zenon
<1>4. g = B(g)
  <2>1. g = [i \in 1..n |-> g[i]]
    BY <1>3
  <2>2. \A i \in 1..n : g[i] = IF i = 1 THEN s[i] ELSE g[i - 1] \o s[i]
    BY <1>3, Zenon DEF Running
  <2> QED
    BY <2>1, <2>2, Zenon
<1>5. F = B(F)
  BY <1>4, Zenon
<1> HIDE DEF F
<1>6. Running(s, n, F)
  <2>1. DOMAIN F = 1..n
    BY <1>5, Zenon
  <2>2. ASSUME NEW i \in 1..n PROVE F[i] = IF i = 1 THEN s[i] ELSE F[i - 1] \o s[i]
    BY <1>5, Zenon
  <2> QED
    BY <2>1, <2>2 DEF Running
<1>7. \A i \in 1..n : g[i] = F[i]
  <2>1. n <= n /\ \A i \in 1..n : s[i] = s[i]
    BY <1>1
  <2> HIDE DEF n
  <2> QED
    BY <1>1, <1>3, <1>6, <2>1, RunningAgree, SMT
<1>8. g[n] = F[n]
  BY <1>1, <1>7
<1> QED
  BY <1>2, <1>3, <1>8, Zenon

\* The running concatenations of one sequence more: the same, and one more.
LEMMA RunningOneMore ==
  ASSUME NEW n \in Nat, n # 0, NEW s, NEW t, \A i \in 1..n : s[i] = t[i],
         NEW g, Running(s, n, g), NEW h, Running(t, n + 1, h)
  PROVE  h[n + 1] = g[n] \o t[n + 1]
<1>1. n + 1 \in Nat /\ n <= n + 1 /\ n \in 1..n /\ n + 1 \in 1..(n + 1) /\ n + 1 # 1 /\ n + 1 - 1 = n
  OBVIOUS
<1>2. g[n] = h[n]
  BY <1>1, RunningAgree
<1> DEFINE m == n + 1
<1>3. m \in 1..m /\ m # 1 /\ m - 1 = n
  BY <1>1
<1> HIDE DEF m
<1>4. h[m] = h[m - 1] \o t[m]
  <2>1. \A i \in 1..m : h[i] = IF i = 1 THEN t[i] ELSE h[i - 1] \o t[i]
    BY DEF Running, m
  <2> QED
    BY <1>3, <2>1, Zenon
<1> QED
  BY <1>2, <1>3, <1>4, Zenon DEF m

\* Flattening one sequence more appends it.
LEMMA FlattenAppend ==
  ASSUME NEW S, NEW s \in Seq(Seq(S)), NEW x \in Seq(S)
  PROVE  FlattenSeq(s) \in Seq(S) /\ FlattenSeq(Append(s, x)) = FlattenSeq(s) \o x
<1> DEFINE t == Append(s, x)
           n == Len(s)
<1>1. t \in Seq(Seq(S)) /\ Len(t) = n + 1 /\ n \in Nat
  OBVIOUS
<1>2. t[n + 1] = x /\ t # <<>>
  <2>1. t[n + 1] = x
    OBVIOUS
  <2>2. Len(<<>>) = 0 /\ Len(t) # 0
    BY <1>1
  <2>3. t # <<>>
    BY <2>2, Zenon
  <2> QED
    BY <2>1, <2>3
<1>3. \A i \in 1..n : s[i] = t[i]
  OBVIOUS
<1> HIDE DEF t
<1>4. PICK h \in [1..(n + 1) -> Seq(S)] : Running(t, n + 1, h) /\ FlattenSeq(t) = h[n + 1]
  BY <1>1, <1>2, FlattenIs
<1>5. CASE s = <<>>
  <2>1. n = 0 /\ h[1] = t[1] /\ t[1] = x
    BY <1>1, <1>2, <1>4, <1>5 DEF Running
  <2>2. FlattenSeq(s) = <<>>
    BY <1>5 DEF FlattenSeq
  <2>3. <<>> \o x = x /\ <<>> \in Seq(S)
    OBVIOUS
  <2>4. FlattenSeq(t) = x
    BY <1>4, <2>1
  <2> QED
    BY <2>2, <2>3, <2>4, Zenon DEF t
<1>6. CASE s # <<>>
  <2>1. PICK g \in [1..n -> Seq(S)] : Running(s, n, g) /\ FlattenSeq(s) = g[n]
    BY <1>6, FlattenIs
  <2>2. n # 0 /\ n \in 1..n
    BY <1>6
  <2>3. h[n + 1] = g[n] \o t[n + 1]
    BY <1>1, <1>3, <1>4, <2>1, <2>2, RunningOneMore, Zenon
  <2>4. FlattenSeq(s) \in Seq(S)
    BY <2>1, <2>2
  <2> QED
    BY <1>2, <1>4, <2>1, <2>3, <2>4, Zenon DEF t
<1> QED
  BY <1>5, <1>6

-----------------------------------------------------------------------------
(* The text *)

\* What the ciphertexts of w hold, in the order of their numbers.
TextsOf(w, n) == [k \in 1..n |-> w[CHOOSE i \in SealedIn(w) : w[i].seq = k - 1].text]

\* The number of a ciphertext is the place of its text.
LEMMA TextOfNumber ==
  ASSUME NEW w \in Seq(Frames), NEW n \in Nat, Numbered(w, n)
  PROVE  /\ \A k \in 1..n : \E i \in SealedIn(w) : w[i].seq = k - 1 /\ TextsOf(w, n)[k] = w[i].text
         /\ \A i, j \in SealedIn(w) : w[i].seq = w[j].seq => i = j
         /\ TextsOf(w, n) \in Seq(Seq(Unit)) /\ Len(TextsOf(w, n)) = n
<1>1. \A i \in SealedIn(w) : i \in Nat /\ w[i].text \in Seq(Unit) /\ w[i].seq \in Nat
  <2>1. \A i \in SealedIn(w) : i \in Nat /\ w[i] \in Frames
    BY DEF SealedIn
  <2> QED
    BY <2>1 DEF Frames
<1>2. ASSUME NEW k \in 1..n
      PROVE  \E i \in SealedIn(w) : w[i].seq = k - 1 /\ TextsOf(w, n)[k] = w[i].text
  <2> DEFINE c == CHOOSE i \in SealedIn(w) : w[i].seq = k - 1
  <2>1. k - 1 \in {w[i].seq : i \in SealedIn(w)}
    <3>1. k - 1 \in 0..(n - 1)
      OBVIOUS
    <3> QED
      BY <3>1 DEF Numbered
  <2>2. \E i \in SealedIn(w) : w[i].seq = k - 1
    BY <2>1
  <2>3. c \in SealedIn(w) /\ w[c].seq = k - 1
    BY <2>2, Zenon
  <2>4. TextsOf(w, n)[k] = w[c].text
    BY DEF TextsOf
  <2> QED
    BY <2>3, <2>4, Zenon
<1>3. ASSUME NEW i \in SealedIn(w), NEW j \in SealedIn(w), w[i].seq = w[j].seq PROVE i = j
  <2>1. ~(i < j) /\ ~(j < i)
    <3>1. i < j => w[i].seq < w[j].seq
      BY Zenon DEF Numbered
    <3>2. j < i => w[j].seq < w[i].seq
      BY Zenon DEF Numbered
    <3> QED
      BY <1>1, <1>3, <3>1, <3>2
  <2> QED
    BY <1>1, <2>1
<1>4. TextsOf(w, n) \in Seq(Seq(Unit)) /\ Len(TextsOf(w, n)) = n
  <2> DEFINE t == TextsOf(w, n)
             e(k) == w[CHOOSE i \in SealedIn(w) : w[i].seq = k - 1].text
  <2>1. t = [k \in 1..n |-> e(k)]
    BY DEF TextsOf
  <2>2. \A k \in 1..n : t[k] \in Seq(Unit)
    BY <1>1, <1>2
  <2>3. DOMAIN t = 1..n /\ \A k \in 1..n : t[k] = e(k)
    BY <2>1, Zenon
  <2> HIDE DEF t, e
  <2>4. \A k \in 1..n : e(k) \in Seq(Unit)
    BY <2>2, <2>3
  <2> QED
    BY <2>1, <2>4 DEF t
<1> QED
  BY <1>2, <1>3, <1>4, Zenon

\* A wire that keeps the ciphertexts it had keeps their texts in their places.
LEMMA TextsKept ==
  ASSUME NEW w \in Seq(Frames), NEW n \in Nat, Numbered(w, n),
         NEW v \in Seq(Frames), NEW m \in Nat, Numbered(v, m), n <= m,
         \A i \in SealedIn(w) : i \in SealedIn(v) /\ v[i] = w[i]
  PROVE  \A k \in 1..n : TextsOf(v, m)[k] = TextsOf(w, n)[k]
<1> TAKE k \in 1..n
<1>1. k \in 1..m
  OBVIOUS
<1>2. PICK i \in SealedIn(w) : w[i].seq = k - 1 /\ TextsOf(w, n)[k] = w[i].text
  <2>1. \A l \in 1..n : \E i \in SealedIn(w) : w[i].seq = l - 1 /\ TextsOf(w, n)[l] = w[i].text
    BY TextOfNumber, ZenonT(60)
  <2> QED
    BY <2>1, Zenon
<1>3. PICK j \in SealedIn(v) : v[j].seq = k - 1 /\ TextsOf(v, m)[k] = v[j].text
  <2>1. \A l \in 1..m : \E j \in SealedIn(v) : v[j].seq = l - 1 /\ TextsOf(v, m)[l] = v[j].text
    BY TextOfNumber, ZenonT(60)
  <2> QED
    BY <1>1, <2>1, Zenon
<1>4. i \in SealedIn(v) /\ v[i] = w[i]
  OBVIOUS
<1>5. i = j
  <2>1. v[i].seq = v[j].seq
    BY <1>2, <1>3, <1>4, Zenon
  <2> QED
    BY <1>4, <2>1, TextOfNumber, Zenon
<1> QED
  BY <1>2, <1>3, <1>4, <1>5, Zenon

\* Frames that are not ciphertexts hold no text.
LEMMA TextsPlain ==
  ASSUME NEW w \in Seq(Frames), NEW n \in Nat, Numbered(w, n),
         NEW fs \in Seq(Frames), \A k \in DOMAIN fs : fs[k].type # "ciphertext"
  PROVE  TextsOf(w \o fs, n) = TextsOf(w, n)
<1> DEFINE v == w \o fs
           s == TextsOf(v, n)
           t == TextsOf(w, n)
<1>1. v \in Seq(Frames) /\ Numbered(v, n) /\ \A i \in SealedIn(w) : i \in SealedIn(v) /\ v[i] = w[i]
  <2>1. SealedIn(v) = SealedIn(w) /\ \A i \in SealedIn(w) : v[i] = w[i]
    BY WritePlain, Zenon
  <2>2. Numbered(v, n)
    BY WritePlain, Zenon
  <2>3. v \in Seq(Frames)
    OBVIOUS
  <2> QED
    BY <2>1, <2>2, <2>3, Zenon
<1> HIDE DEF v
<1>2. n <= n
  OBVIOUS
<1>3. \A k \in 1..n : s[k] = t[k]
  BY <1>1, <1>2, TextsKept, Zenon
<1>4. s \in Seq(Seq(Unit)) /\ t \in Seq(Seq(Unit)) /\ Len(s) = n /\ Len(t) = n
  BY <1>1, TextOfNumber, Zenon
<1> HIDE DEF s, t
<1>5. s = t
  BY <1>3, <1>4
<1> QED
  BY <1>5 DEF s, t, v

\* The next ciphertext adds its text.
LEMMA TextsSealed ==
  ASSUME NEW w \in Seq(Frames), NEW n \in Nat, Numbered(w, n), NoFinal(w),
         NEW f \in Frames, f.type = "ciphertext", f.seq = n
  PROVE  TextsOf(w \o <<f>>, n + 1) = Append(TextsOf(w, n), f.text)
<1> DEFINE fs == <<f>>
           v == w \o fs
           t == TextsOf(w, n)
<1>1. fs \in Seq(Frames) /\ Len(fs) = 1 /\ DOMAIN fs = {1} /\ fs[1] = f
  OBVIOUS
<1>2. \A k \in DOMAIN fs : fs[k].type = "ciphertext" /\ fs[k].seq = n + k - 1 /\ (fs[k].final => k = Len(fs))
  BY <1>1
<1> HIDE DEF fs
<1>3. Numbered(v, n + Len(fs))
  BY <1>1, <1>2, WriteSealed, ZenonT(60)
<1>4. /\ v \in Seq(Frames) /\ Len(w) \in Nat /\ Len(w) + 1 \in DOMAIN v /\ v[Len(w) + 1] = f
      /\ \A i \in DOMAIN w : i \in DOMAIN v /\ v[i] = w[i]
  <2>1. /\ v \in Seq(Frames) /\ Len(w) \in Nat
        /\ \A k \in DOMAIN fs : Len(w) + k \in DOMAIN v /\ v[Len(w) + k] = fs[k]
        /\ \A i \in DOMAIN w : i \in DOMAIN v /\ v[i] = w[i]
    BY <1>1, Joined
  <2> QED
    BY <1>1, <2>1
<1> HIDE DEF v
<1> DEFINE m == n + 1
           s == TextsOf(v, m)
<1>5. Numbered(v, m) /\ m \in Nat /\ n <= m /\ m \in 1..m /\ m - 1 = n /\ Len(w) + 1 \in SealedIn(v)
  <2>1. Len(w) + 1 \in SealedIn(v)
    BY <1>4 DEF SealedIn
  <2> QED
    BY <1>1, <1>3, <2>1
<1> HIDE DEF m
<1>6. \A i \in SealedIn(w) : i \in SealedIn(v) /\ v[i] = w[i]
  BY <1>4 DEF SealedIn
<1>7. \A k \in 1..n : s[k] = t[k]
  BY <1>4, <1>5, <1>6, TextsKept, Zenon
<1>8. s \in Seq(Seq(Unit)) /\ t \in Seq(Seq(Unit)) /\ Len(s) = m /\ Len(t) = n
  BY <1>4, <1>5, TextOfNumber, ZenonT(60)
<1>9. s[m] = f.text
  <2>2. PICK i \in SealedIn(v) : v[i].seq = m - 1 /\ s[m] = v[i].text
    <3>1. \A l \in 1..m : \E i \in SealedIn(v) : v[i].seq = l - 1 /\ TextsOf(v, m)[l] = v[i].text
      BY <1>4, <1>5, TextOfNumber, ZenonT(60)
    <3> QED
      BY <1>5, <3>1, Zenon
  <2>3. v[i].seq = v[Len(w) + 1].seq
    BY <1>4, <1>5, <2>2
  <2>4. i = Len(w) + 1
    BY <1>4, <1>5, <2>3, TextOfNumber, Zenon
  <2> QED
    BY <1>4, <2>2, <2>4
<1>10. f.text \in Seq(Unit)
  BY DEF Frames
<1> HIDE DEF s, t
<1>11. s = Append(t, f.text)
  BY <1>7, <1>8, <1>9, <1>10 DEF m
<1> QED
  BY <1>11 DEF s, t, v, fs, m

\* What is left of a buffer and its full chunks are the buffer.
LEMMA ChunkedText ==
  ASSUME NEW text \in Seq(Unit), Len(text) <= ChunkChars
  PROVE  \/ FullChunks(text) = <<>> /\ LeftOver(text) = text
         \/ FullChunks(text) = <<text>> /\ LeftOver(text) = <<>>
<1>1. ChunkChars \in Nat /\ ChunkChars > 0 /\ Len(text) \in Nat
  BY ChunkCharsAssumption
<1>2. CASE Len(text) < ChunkChars
  <2>1. Len(text) \div ChunkChars = 0
    BY <1>1, <1>2
  <2>2. FullChunks(text) = <<>>
    BY <1>1, <2>1 DEF FullChunks
  <2>3. LeftOver(text) = SubSeq(text, 1, Len(text))
    BY <1>1, <2>1 DEF LeftOver
  <2> QED
    BY <1>1, <2>2, <2>3
<1>3. CASE Len(text) = ChunkChars
  <2>1. Len(text) \div ChunkChars = 1
    BY <1>1, <1>3
  <2> DEFINE G(i) == SubSeq(text, (i - 1) * ChunkChars + 1, i * ChunkChars)
  <2>2. G(1) = text
    <3>1. (1 - 1) * ChunkChars + 1 = 1 /\ 1 * ChunkChars = Len(text)
      BY <1>1, <1>3
    <3>2. SubSeq(text, 1, Len(text)) = text
      OBVIOUS
    <3> QED
      BY <3>1, <3>2, Zenon
  <2>3. FullChunks(text) = <<text>>
    <3>1. FullChunks(text) = [i \in 1..1 |-> G(i)]
      BY <2>1 DEF FullChunks
    <3> HIDE DEF G
    <3>2. [i \in 1..1 |-> G(i)] = <<G(1)>>
      OBVIOUS
    <3> QED
      BY <2>2, <3>1, <3>2
  <2>4. LeftOver(text) = SubSeq(text, ChunkChars + 1, ChunkChars)
    BY <1>1, <1>3, <2>1 DEF LeftOver
  <2>5. SubSeq(text, ChunkChars + 1, ChunkChars) = <<>>
    BY <1>1, <1>3
  <2> QED
    BY <2>3, <2>4, <2>5
<1> QED
  BY <1>1, <1>2, <1>3

\* encrypt_piece over one piece, and over none.
LEMMA EncryptedOne ==
  ASSUME session = TRUE, seq \in Nat, NEW p \in Seq(Unit), NEW final \in BOOLEAN
  PROVE  /\ encrypt_piece(<<>>, final) = <<>>
         /\ encrypt_piece(<<p>>, final) = <<Frame("ciphertext", seq, final, p)>>
<1> DEFINE q == <<p>>
           G(i) == Frame("ciphertext", seq + i - 1, final /\ i = Len(q), q[i])
<1>1. encrypt_piece(<<>>, final) = <<>>
  BY DEF encrypt_piece
<1>2. encrypt_piece(q, final) = [i \in 1..1 |-> G(i)]
  BY DEF encrypt_piece
<1>3. G(1) = Frame("ciphertext", seq, final, p)
  <2>1. seq + 1 - 1 = seq /\ q[1] = p /\ Len(q) = 1
    OBVIOUS
  <2>2. (final /\ 1 = Len(q)) = final
    BY <2>1
  <2> QED
    BY <2>1, <2>2 DEF Frame
<1> HIDE DEF G
<1>4. [i \in 1..1 |-> G(i)] = <<G(1)>>
  OBVIOUS
<1> QED
  BY <1>1, <1>2, <1>3, <1>4, Zenon

\* The text is kept by the wire w, its n ciphertexts and the waiting text p.
Kept(w, n, p, x) == FlattenSeq(TextsOf(w, n)) \o p = x

\* The ciphertexts and the waiting text hold what the event stream yielded.
SealedAsSent == FlattenSeq(Texts) \o pending = sent

\* The same of the wire.
LEMMA SealedAsSentIs ==
  /\ SealedAsSent <=> Kept(wire, seq, pending, sent)
  /\ SealedAsSent' <=> Kept(wire', seq', pending', sent')
<1>1. Texts = TextsOf(wire, seq) /\ Texts' = TextsOf(wire', seq')
  BY DEF Texts, TextsOf, Sealed, SealedIn
<1> QED
  BY <1>1 DEF SealedAsSent, Kept

\* Sealing a text p moves it from the buffer to the wire.
LEMMA KeptSealed ==
  ASSUME NEW w \in Seq(Frames), NEW n \in Nat, Numbered(w, n), NoFinal(w),
         NEW p \in Seq(Unit), NEW final \in BOOLEAN, NEW q \in Seq(Unit),
         Kept(w, n, <<>>, q)
  PROVE  Kept(w \o <<Frame("ciphertext", n, final, p)>>, n + 1, <<>>, q \o p)
<1> DEFINE f == Frame("ciphertext", n, final, p)
           t == TextsOf(w, n)
           F == FlattenSeq(t)
<1>1. f \in Frames /\ f.type = "ciphertext" /\ f.seq = n /\ f.text = p
  BY DEF Frame, Frames, FrameType
<1> HIDE DEF f
<1>2. TextsOf(w \o <<f>>, n + 1) = Append(t, p)
  BY <1>1, TextsSealed
<1>3. t \in Seq(Seq(Unit))
  BY TextOfNumber, ZenonT(60)
<1> HIDE DEF t
<1>4. F \in Seq(Unit) /\ FlattenSeq(Append(t, p)) = F \o p
  BY <1>3, FlattenAppend
<1>5. F = q
  <2>1. F \o <<>> = q
    BY DEF Kept, t
  <2> HIDE DEF F
  <2> QED
    BY <1>4, <2>1
<1>6. (F \o p) \o <<>> = q \o p
  <2> HIDE DEF F
  <2> QED
    BY <1>4, <1>5
<1> QED
  BY <1>2, <1>4, <1>6, Zenon DEF Kept, f

\* The text before what is waiting.
LEMMA KeptFlat ==
  ASSUME NEW w \in Seq(Frames), NEW n \in Nat, Numbered(w, n), NEW p \in Seq(Unit), NEW x
  PROVE  /\ FlattenSeq(TextsOf(w, n)) \in Seq(Unit)
         /\ Kept(w, n, <<>>, FlattenSeq(TextsOf(w, n)))
         /\ Kept(w, n, <<>>, x) <=> x = FlattenSeq(TextsOf(w, n))
         /\ Kept(w, n, p, x) <=> x = FlattenSeq(TextsOf(w, n)) \o p
<1> DEFINE F == FlattenSeq(TextsOf(w, n))
<1>1. TextsOf(w, n) \in Seq(Seq(Unit))
  BY TextOfNumber, ZenonT(60)
<1>2. F \in Seq(Unit)
  BY <1>1, FlattenAppend
<1>3. Kept(w, n, <<>>, x) <=> F \o <<>> = x
  BY DEF Kept
<1>4. Kept(w, n, <<>>, F) <=> F \o <<>> = F
  BY DEF Kept
<1>5. Kept(w, n, p, x) <=> F \o p = x
  BY DEF Kept
<1> HIDE DEF F
<1>6. F \o <<>> = F
  BY <1>2
<1> QED
  BY <1>2, <1>3, <1>4, <1>5, <1>6, Zenon DEF F

\* Sealing all that waits, with x all the text.
LEMMA KeptLast ==
  ASSUME NEW w \in Seq(Frames), NEW n \in Nat, Numbered(w, n), NoFinal(w),
         NEW p \in Seq(Unit), NEW final \in BOOLEAN, NEW x, Kept(w, n, p, x)
  PROVE  Kept(w \o <<Frame("ciphertext", n, final, p)>>, n + 1, <<>>, x)
<1> DEFINE F == FlattenSeq(TextsOf(w, n))
<1>1. F \in Seq(Unit) /\ Kept(w, n, <<>>, F) /\ x = F \o p
  BY KeptFlat, Zenon
<1> HIDE DEF F
<1> QED
  BY <1>1, KeptSealed, Zenon

\* Writing frames that are not ciphertexts.
LEMMA KeptPlain ==
  ASSUME NEW w \in Seq(Frames), NEW n \in Nat, Numbered(w, n),
         NEW fs \in Seq(Frames), \A k \in DOMAIN fs : fs[k].type # "ciphertext", NEW p, NEW x
  PROVE  Kept(w \o fs, n, p, x) <=> Kept(w, n, p, x)
BY TextsPlain, Zenon DEF Kept

\* All text is on the wire or waiting, and in neutral mode nothing waits.
TextInv == SealedAsSent /\ (~opt.legacy => pending = <<>>)

\* Appending to the second of two texts.
LEMMA AppendLast ==
  ASSUME NEW a \in Seq(Unit), NEW b \in Seq(Unit), NEW u \in Unit
  PROVE  Append(a \o b, u) = a \o Append(b, u)
<1> DEFINE c == a \o b
           d == Append(b, u)
<1>1. c \in Seq(Unit) /\ Len(c) = Len(a) + Len(b) /\ Len(a) \in Nat /\ Len(b) \in Nat
  OBVIOUS
<1>2. d \in Seq(Unit) /\ Len(d) = Len(b) + 1 /\ d[Len(b) + 1] = u /\ \A i \in 1..Len(b) : d[i] = b[i]
  OBVIOUS
<1>3. \A i \in 1..(Len(a) + Len(b)) : c[i] = IF i <= Len(a) THEN a[i] ELSE b[i - Len(a)]
  OBVIOUS
<1>4. /\ a \o d \in Seq(Unit) /\ Len(a \o d) = Len(a) + Len(d)
      /\ \A i \in 1..(Len(a) + Len(d)) : (a \o d)[i] = IF i <= Len(a) THEN a[i] ELSE d[i - Len(a)]
  <2> HIDE DEF d
  <2> QED
    BY <1>2
<1>5. /\ Append(c, u) \in Seq(Unit) /\ Len(Append(c, u)) = Len(c) + 1 /\ Append(c, u)[Len(c) + 1] = u
      /\ \A i \in 1..Len(c) : Append(c, u)[i] = c[i]
  <2> HIDE DEF c
  <2> QED
    BY <1>1
<1> HIDE DEF c, d
<1>6. ASSUME NEW i \in 1..(Len(a) + Len(b) + 1) PROVE Append(c, u)[i] = (a \o d)[i]
  <2>1. CASE i <= Len(a) + Len(b)
    <3>1. Append(c, u)[i] = c[i]
      BY <1>1, <1>5, <2>1
    <3>2. CASE i <= Len(a)
      BY <1>1, <1>2, <1>3, <1>4, <2>1, <3>1, <3>2
    <3>3. CASE ~(i <= Len(a))
      <4>1. i - Len(a) \in 1..Len(b)
        BY <1>1, <2>1, <3>3
      <4>2. c[i] = b[i - Len(a)]
        BY <1>1, <1>3, <2>1, <3>3
      <4>3. (a \o d)[i] = d[i - Len(a)]
        BY <1>1, <1>2, <1>4, <3>3
      <4> QED
        BY <1>2, <3>1, <4>1, <4>2, <4>3
    <3> QED
      BY <3>2, <3>3
  <2>2. CASE i = Len(a) + Len(b) + 1
    <3>1. i = Len(c) + 1 /\ i - Len(a) = Len(b) + 1 /\ ~(i <= Len(a))
      BY <1>1, <2>2
    <3> QED
      BY <1>1, <1>2, <1>4, <1>5, <3>1
  <2>3. i <= Len(a) + Len(b) \/ i = Len(a) + Len(b) + 1
    BY <1>1
  <2> QED
    BY <2>1, <2>2, <2>3, Zenon
<1>7. Len(Append(c, u)) = Len(a) + Len(b) + 1 /\ Len(a \o d) = Len(a) + Len(b) + 1
  BY <1>1, <1>2, <1>4, <1>5
<1> QED
  <2> DEFINE x == Append(c, u)
             y == a \o d
  <2>1. x \in Seq(Unit) /\ y \in Seq(Unit) /\ Len(x) = Len(y) /\ \A i \in 1..Len(x) : x[i] = y[i]
    BY <1>4, <1>5, <1>6, <1>7
  <2> HIDE DEF x, y
  <2>2. x = y
    BY <2>1
  <2> QED
    BY <2>2 DEF x, y, c, d

\* A piece is taken.
LEMMA TextYield ==
  ASSUME IInv, TextInv, YieldPiece
  PROVE  TextInv'
<1> DEFINE unit == Head(ready)
           text == Append(pending, unit)
           pieces == IF opt.legacy THEN FullChunks(text) ELSE <<<<unit>>>>
           frames == encrypt_piece(pieces, FALSE)
<1>1. /\ pc = "stream" /\ ready # <<>> /\ sent' = Append(sent, unit)
      /\ pending' = IF opt.legacy THEN LeftOver(text) ELSE pending
      /\ wire' = wire \o frames /\ seq' = seq + Len(frames) /\ opt' = opt
  BY DEF YieldPiece
<1>2. /\ session = TRUE /\ NoFinal(wire) /\ seq \in Nat /\ wire \in Seq(Frames)
      /\ pending \in Seq(Unit) /\ Len(pending) < ChunkChars
      /\ ready \in Seq(Unit) /\ sent \in Seq(Unit) /\ Numbered(wire, seq)
  BY <1>1, NumberedWire DEF IInv, Control, SessionFreed, Streaming, TypeOK
<1>3. unit \in Unit
  BY <1>1, <1>2
<1> HIDE DEF unit
<1>4. text \in Seq(Unit) /\ Len(text) <= ChunkChars
  BY <1>2, <1>3, ChunkCharsAssumption
<1>5. Kept(wire, seq, pending, sent)
  BY SealedAsSentIs DEF TextInv
<1>6. Kept(wire, seq, text, sent')
  <2> DEFINE F == FlattenSeq(TextsOf(wire, seq))
  <2>1. F \in Seq(Unit) /\ sent = F \o pending /\ (Kept(wire, seq, text, sent') <=> sent' = F \o text)
    BY <1>2, <1>4, <1>5, KeptFlat, Zenon
  <2> HIDE DEF F
  <2>2. Append(F \o pending, unit) = F \o Append(pending, unit)
    <3>1. F \in Seq(Unit) /\ pending \in Seq(Unit) /\ unit \in Unit
      BY <1>2, <1>3, <2>1, Zenon
    <3> QED
      BY <3>1, AppendLast, Zenon
  <2> QED
    BY <1>1, <2>1, <2>2, Zenon
<1>7. ~opt.legacy => text = <<unit>> /\ pending' = <<>>
  <2>1. ~opt.legacy => pending = <<>>
    BY DEF TextInv
  <2>2. Append(<<>>, unit) = <<unit>>
    OBVIOUS
  <2> QED
    BY <1>1, <2>1, <2>2, Zenon
<1>8. \/ pieces = <<>> /\ pending' = text
      \/ pieces = <<text>> /\ pending' = <<>>
  <2>1. CASE opt.legacy
    <3> HIDE DEF text
    <3> QED
      BY <1>1, <1>4, <2>1, ChunkedText
  <2>2. CASE ~opt.legacy
    BY <1>7, <2>2
  <2> QED
    BY <2>1, <2>2
<1> HIDE DEF text, pieces
<1>9. ~opt'.legacy => pending' = <<>>
  BY <1>1, <1>7
<1>10. CASE pieces = <<>> /\ pending' = text
  <2>1. frames = <<>>
    <3>1. FALSE \in BOOLEAN
      OBVIOUS
    <3> QED
      BY <1>2, <1>4, <1>10, <3>1, EncryptedOne
  <2>2. wire \o <<>> = wire /\ seq + Len(<<>>) = seq
    BY <1>2
  <2>4. wire' = wire /\ seq' = seq
    BY <1>1, <2>1, <2>2, Zenon
  <2>3. Kept(wire', seq', pending', sent')
    BY <1>6, <1>10, <2>4, Zenon
  <2> QED
    BY <1>9, <2>3, SealedAsSentIs DEF TextInv
<1>11. CASE pieces = <<text>> /\ pending' = <<>>
  <2> DEFINE f == Frame("ciphertext", seq, FALSE, text)
  <2>1. frames = <<f>>
    <3>1. FALSE \in BOOLEAN
      OBVIOUS
    <3> QED
      BY <1>2, <1>4, <1>11, <3>1, EncryptedOne
  <2>2. wire' = wire \o <<f>> /\ seq' = seq + 1
    BY <1>1, <2>1
  <2>3. Kept(wire \o <<f>>, seq + 1, <<>>, sent')
    BY <1>2, <1>4, <1>6, FALSE \in BOOLEAN, KeptLast, Zenon
  <2>4. Kept(wire', seq', pending', sent')
    BY <1>11, <2>2, <2>3, Zenon
  <2> QED
    BY <1>9, <2>4, SealedAsSentIs DEF TextInv
<1> QED
  BY <1>8, <1>10, <1>11

\* What encrypt_piece makes of all that waits.
LEMMA TextLast ==
  ASSUME IInv, TextInv, pc = "stream", NEW last, last = <<pending>> \/ (last = <<>> /\ pending = <<>>)
  PROVE  LET fs == encrypt_piece(last, TRUE)
         IN  /\ Kept(wire \o fs, seq + Len(fs), <<>>, sent)
             /\ Numbered(wire \o fs, seq + Len(fs)) /\ wire \o fs \in Seq(Frames) /\ seq + Len(fs) \in Nat
<1> DEFINE fs == encrypt_piece(last, TRUE)
<1>1. /\ session = TRUE /\ NoFinal(wire) /\ seq \in Nat /\ wire \in Seq(Frames) /\ pending \in Seq(Unit)
      /\ Numbered(wire, seq) /\ TypeOK /\ NumberedOnce
  BY NumberedWire DEF IInv, Control, SessionFreed, Streaming, TypeOK
<1>2. Kept(wire, seq, pending, sent)
  BY SealedAsSentIs DEF TextInv
<1>3. Numbered(wire \o fs, seq + Len(fs)) /\ fs \in Seq(Frames)
  BY <1>1, LastPiece
<1>4. TRUE \in BOOLEAN
  OBVIOUS
<1>5. wire \o fs \in Seq(Frames) /\ seq + Len(fs) \in Nat
  <2> HIDE DEF fs
  <2> QED
    BY <1>1, <1>3
<1>6. CASE last = <<pending>>
  <2> DEFINE f == Frame("ciphertext", seq, TRUE, pending)
  <2>1. fs = <<f>> /\ Len(<<f>>) = 1
    BY <1>1, <1>4, <1>6, EncryptedOne
  <2>2. Kept(wire \o <<f>>, seq + 1, <<>>, sent)
    BY <1>1, <1>2, <1>4, KeptLast, Zenon
  <2>3. Kept(wire \o fs, seq + Len(fs), <<>>, sent)
    BY <2>1, <2>2, Zenon
  <2> QED
    BY <1>3, <1>5, <2>3
<1>7. CASE last = <<>> /\ pending = <<>>
  <2>1. fs = <<>>
    BY <1>1, <1>4, <1>7, EncryptedOne
  <2>2. wire \o <<>> = wire /\ seq + Len(<<>>) = seq
    BY <1>1
  <2>3. Kept(wire \o fs, seq + Len(fs), <<>>, sent)
    BY <1>2, <1>7, <2>1, <2>2, Zenon
  <2> QED
    BY <1>3, <1>5, <2>3
<1> QED
  BY <1>6, <1>7

\* The upstream breaks off.
LEMMA TextError ==
  ASSUME IInv, TextInv, StreamError
  PROVE  TextInv'
<1>1. pc = "stream" /\ seq \in Nat /\ wire \in Seq(Frames) /\ pending \in Seq(Unit) /\ UNCHANGED <<opt, sent>>
  BY DEF StreamError, NeedsBytes, IInv, TypeOK
<1>2. CASE seq > 0
  <2> DEFINE fs == encrypt_piece(<<pending>>, TRUE)
  <2>1. wire' = wire \o fs /\ seq' = seq + Len(fs) /\ pending' = <<>>
    BY <1>2 DEF StreamError
  <2>2. Kept(wire \o fs, seq + Len(fs), <<>>, sent)
    BY <1>1, TextLast
  <2>3. Kept(wire', seq', pending', sent')
    BY <1>1, <2>1, <2>2, Zenon
  <2> QED
    BY <2>1, <2>3, SealedAsSentIs DEF TextInv
<1>3. CASE ~(seq > 0)
  <2>1. wire' = wire \o <<>> /\ seq' = seq + Len(<<>>) /\ pending' = pending
    BY <1>3 DEF StreamError
  <2>2. wire' = wire /\ seq' = seq
    BY <1>1, <2>1
  <2>3. Kept(wire, seq, pending, sent)
    BY SealedAsSentIs DEF TextInv
  <2>4. Kept(wire', seq', pending', sent')
    BY <1>1, <2>1, <2>2, <2>3, Zenon
  <2>5. ~opt'.legacy => pending' = <<>>
    BY <1>1, <2>1 DEF TextInv
  <2> QED
    BY <2>4, <2>5, SealedAsSentIs DEF TextInv
<1> QED
  BY <1>2, <1>3

\* A chat's stream comes to its end.
LEMMA TextEnd ==
  ASSUME IInv, TextInv, StreamEnd
  PROVE  TextInv'
<1> DEFINE last == IF pending # <<>> \/ seq > 0 THEN <<pending>> ELSE <<>>
           fs == encrypt_piece(last, TRUE)
           w1 == wire \o fs
           n == seq + Len(fs)
           w2 == w1 \o write_vllm_finish_status
<1>1. pc = "stream" /\ pending' = <<>> /\ wire' = w2 \o <<Bare("trailer")>> /\ seq' = n /\ UNCHANGED <<opt, sent>>
  BY DEF StreamEnd
<1>2. last = <<pending>> \/ (last = <<>> /\ pending = <<>>)
  OBVIOUS
<1> HIDE DEF last
<1>3. Kept(w1, n, <<>>, sent) /\ Numbered(w1, n) /\ w1 \in Seq(Frames) /\ n \in Nat
  BY <1>1, <1>2, TextLast
<1> HIDE DEF w1, n
<1>4. /\ write_vllm_finish_status \in Seq(Frames)
      /\ \A k \in DOMAIN write_vllm_finish_status : write_vllm_finish_status[k].type # "ciphertext"
      /\ <<Bare("trailer")>> \in Seq(Frames)
      /\ \A k \in DOMAIN <<Bare("trailer")>> : <<Bare("trailer")>>[k].type # "ciphertext"
  BY PlainFrames, Zenon
<1>5. Kept(w2, n, <<>>, sent) /\ Numbered(w2, n)
  BY <1>3, <1>4, KeptPlain, WritePlain, Zenon
<1>6. w2 \in Seq(Frames)
  BY <1>3, <1>4
<1> HIDE DEF w2
<1>7. Kept(wire', n, <<>>, sent)
  BY <1>1, <1>3, <1>4, <1>5, <1>6, KeptPlain, Zenon
<1>8. Kept(wire', seq', pending', sent')
  BY <1>1, <1>7, Zenon
<1> QED
  BY <1>1, <1>8, SealedAsSentIs DEF TextInv

\* Nothing sealed, nothing held.
LEMMA KeptNothing ==
  ASSUME NEW w
  PROVE  Kept(w, 0, <<>>, <<>>)
<1>1. TextsOf(w, 0) = <<>>
  <2> DEFINE e(k) == w[CHOOSE i \in SealedIn(w) : w[i].seq = k - 1].text
  <2>1. TextsOf(w, 0) = [k \in 1..0 |-> e(k)]
    BY DEF TextsOf
  <2> HIDE DEF e
  <2> QED
    BY <2>1
<1>2. FlattenSeq(<<>>) = <<>>
  BY DEF FlattenSeq
<1>3. <<>> \o <<>> = <<>>
  OBVIOUS
<1> QED
  BY <1>1, <1>2, <1>3, Zenon DEF Kept

\* The answer of an embeddings request.
LEMMA TextEmbeddings ==
  ASSUME IInv, TextInv, EmbeddingsAnswer
  PROVE  TextInv'
<1> DEFINE c == Frame("ciphertext", 0, TRUE, <<"e">>)
           w1 == wire \o Opening
           w2 == w1 \o <<c>>
<1>1. /\ pc = "embed" /\ sent' = <<"e">> /\ wire' = w1 \o <<c, Bare("trailer")>> /\ seq' = 1
      /\ UNCHANGED <<opt, pending>>
  BY DEF EmbeddingsAnswer
<1>2. wire = <<>> /\ seq = 0 /\ pending = <<>> /\ wire \in Seq(Frames) /\ Numbered(wire, 0) /\ NoFinal(wire)
  <2>1. wire = <<>> /\ seq = 0 /\ pending = <<>> /\ wire \in Seq(Frames)
    BY <1>1 DEF IInv, Control, Unwritten, TypeOK
  <2>2. Numbered(wire, 0)
    BY <2>1, NumberedWire DEF IInv
  <2>3. NoFinal(wire)
    BY <2>1 DEF NoFinal, SealedIn
  <2> QED
    BY <2>1, <2>2, <2>3
<1>3. c \in Frames /\ <<"e">> \in Seq(Unit) /\ TRUE \in BOOLEAN /\ 0 \in Nat /\ <<>> \in Seq(Unit)
  BY DEF Frame, Frames, FrameType, Unit
<1>4. Numbered(w1, 0) /\ NoFinal(w1) /\ w1 \in Seq(Frames)
  <2>1. Opening \in Seq(Frames) /\ \A k \in DOMAIN Opening : Opening[k].type # "ciphertext"
    BY PlainFrames, Zenon
  <2>2. w1 \in Seq(Frames)
    BY <1>2, <2>1
  <2> QED
    BY <1>2, <1>3, <2>1, <2>2, WritePlain, Zenon
<1> HIDE DEF w1
<1>5. Kept(w1, 0, <<>>, <<>>)
  BY KeptNothing
<1>6. Kept(w2, 1, <<>>, <<"e">>)
  <2>1. Kept(w2, 0 + 1, <<>>, <<>> \o <<"e">>)
    BY <1>3, <1>4, <1>5, KeptSealed, Zenon
  <2>2. 0 + 1 = 1 /\ <<>> \o <<"e">> = <<"e">>
    OBVIOUS
  <2> QED
    BY <2>1, <2>2, Zenon
<1>7. Numbered(w2, 1) /\ w2 \in Seq(Frames)
  <2> DEFINE fs == <<c>>
  <2>1. c.type = "ciphertext" /\ c.seq = 0
    BY DEF Frame
  <2> HIDE DEF c
  <2>2. fs \in Seq(Frames) /\ Len(fs) = 1 /\ DOMAIN fs = {1} /\ fs[1] = c
    BY <1>3
  <2>3. \A k \in DOMAIN fs : /\ fs[k].type = "ciphertext" /\ fs[k].seq = 0 + k - 1
                             /\ fs[k].final => k = Len(fs)
    BY <2>1, <2>2
  <2> HIDE DEF fs
  <2>4. Numbered(w1 \o fs, 0 + Len(fs))
    BY <1>3, <1>4, <2>2, <2>3, WriteSealed, Zenon
  <2>5. 0 + Len(fs) = 1 /\ w1 \o fs \in Seq(Frames)
    BY <1>4, <2>2
  <2> QED
    BY <2>4, <2>5 DEF fs
<1>8. wire' = w2 \o <<Bare("trailer")>>
  <2>1. Bare("trailer") \in Frames
    BY DEF Bare, Frame, Frames, FrameType
  <2> HIDE DEF c
  <2> QED
    BY <1>1, <1>3, <1>4, <2>1, TwoMore, SMTT(40)
<1> HIDE DEF w2
<1>9. Kept(wire', 1, <<>>, <<"e">>)
  <2>1. /\ <<Bare("trailer")>> \in Seq(Frames) /\ 1 \in Nat
        /\ \A k \in DOMAIN <<Bare("trailer")>> : <<Bare("trailer")>>[k].type # "ciphertext"
    BY PlainFrames
  <2> QED
    BY <1>6, <1>7, <1>8, <2>1, KeptPlain, Zenon
<1>10. Kept(wire', seq', pending', sent')
  BY <1>1, <1>2, <1>9, Zenon
<1> QED
  BY <1>1, <1>2, <1>10, SealedAsSentIs DEF TextInv

\* Every step keeps the text.
LEMMA TextStep ==
  ASSUME IInv, TextInv, [Next]_vars
  PROVE  TextInv'
<1>1. ASSUME UNCHANGED <<opt, pending, seq, wire, sent>> PROVE TextInv'
  <2>1. Kept(wire, seq, pending, sent) /\ (~opt.legacy => pending = <<>>)
    BY SealedAsSentIs DEF TextInv
  <2>2. Kept(wire', seq', pending', sent') /\ (~opt'.legacy => pending' = <<>>)
    BY <1>1, <2>1
  <2> QED
    BY <2>2, SealedAsSentIs DEF TextInv
<1>2. CASE \/ FreeEngine \/ OpenStreamingPost \/ RefuseEnvelope \/ Dispatch \/ EmbeddingsFail
           \/ ChatBegin \/ ChatRefused \/ FinishPost \/ AbortPost \/ PostAnswer \/ UNCHANGED vars
           \/ (\E l \in Lines : ReceiveLine(l) \/ ReceivePart(l)) \/ ReceiveRest \/ ReceiveEof
  <2>1. UNCHANGED <<opt, pending, seq, wire, sent>>
    BY <1>2 DEF FreeEngine, OpenStreamingPost, RefuseEnvelope, Dispatch, EmbeddingsFail, ChatBegin,
       ChatRefused, FinishPost, AbortPost, PostAnswer, ReceiveLine, ReceivePart, ReceiveRest, ReceiveEof, vars, chat
  <2> QED
    BY <1>1, <2>1
<1>3. CASE ChatAccepted
  <2>1. wire' = wire \o Opening /\ UNCHANGED <<opt, pending, seq, sent>>
    BY <1>3 DEF ChatAccepted
  <2>2. wire \in Seq(Frames) /\ seq \in Nat /\ Numbered(wire, seq)
    BY NumberedWire DEF IInv, TypeOK
  <2>3. Kept(wire, seq, pending, sent)
    BY SealedAsSentIs DEF TextInv
  <2>4. Opening \in Seq(Frames) /\ \A k \in DOMAIN Opening : Opening[k].type # "ciphertext"
    BY PlainFrames, Zenon
  <2>5. Kept(wire', seq', pending', sent')
    BY <2>1, <2>2, <2>3, <2>4, KeptPlain, Zenon
  <2> QED
    BY <2>1, <2>5, SealedAsSentIs DEF TextInv
<1> QED
  BY <1>2, <1>3, TextYield, TextError, TextEnd, TextEmbeddings DEF Next, Work, Upstream, Done

-----------------------------------------------------------------------------
(* What the upstream said *)

\* The text x is what was said, y, with one separator at most, and with none
\* as long as the parser has emitted none.
Says(x, y, e) == (~e => x = y) /\ x \in WithSeparator(y)

\* What has been yielded, what is ready and what the unfinished line will give.
Heard == (sent \o ready) \o EnqueuedPieces(tail)

\* All that was said is yielded, ready or in the unfinished line.
SaidInv ==
    /\ Says(Heard, said, FoldAfter(tail).emitted)
    /\ eof => tail = NoLine
    /\ opt.kind = "embeddings" => ready = <<>> /\ tail = NoLine

\* A separator put into y at k.
Split(y, k) == SubSeq(y, 1, k) \o <<"s">> \o SubSeq(y, k + 1, Len(y))

\* The texts with a separator, in these terms.
LEMMA WithSeparatorIs ==
  ASSUME NEW x, NEW y
  PROVE  x \in WithSeparator(y) <=> x = y \/ \E k \in 0..Len(y) : x = Split(y, k)
BY DEF WithSeparator, Split

\* A separator at the end.
LEMMA SplitLast ==
  ASSUME NEW y \in Seq(Unit)
  PROVE  Split(y, Len(y)) = Append(y, "s")
<1> DEFINE a == SubSeq(y, 1, Len(y))
           b == SubSeq(y, Len(y) + 1, Len(y))
<1>1. Len(y) \in Nat /\ a = y /\ b = <<>>
  OBVIOUS
<1>2. Split(y, Len(y)) = a \o <<"s">> \o b
  BY DEF Split
<1> HIDE DEF a, b
<1>3. (y \o <<"s">>) \o <<>> = Append(y, "s")
  <2>1. y \o <<"s">> = Append(y, "s") /\ Append(y, "s") \in Seq(Unit)
    BY DEF Unit
  <2> QED
    BY <2>1
<1> QED
  BY <1>1, <1>2, <1>3

\* One more unit after the separator.
LEMMA SplitMore ==
  ASSUME NEW y \in Seq(Unit), NEW u \in Unit, NEW k \in 0..Len(y)
  PROVE  Split(Append(y, u), k) = Append(Split(y, k), u)
<1> DEFINE z == Append(y, u)
           a == SubSeq(y, 1, k)
           b == SubSeq(y, k + 1, Len(y))
           c == SubSeq(z, 1, k)
           d == SubSeq(z, k + 1, Len(z))
<1>1. Len(y) \in Nat /\ k \in Nat /\ k <= Len(y) /\ z \in Seq(Unit) /\ Len(z) = Len(y) + 1
      /\ z[Len(y) + 1] = u /\ \A i \in 1..Len(y) : z[i] = y[i]
  OBVIOUS
<1>2. a \in Seq(Unit) /\ Len(a) = k /\ \A i \in 1..k : a[i] = y[i]
  BY <1>1
<1>3. b \in Seq(Unit) /\ Len(b) = Len(y) - k /\ \A i \in 1..(Len(y) - k) : b[i] = y[k + i]
  BY <1>1
<1> HIDE DEF z
<1>4. c \in Seq(Unit) /\ Len(c) = k /\ \A i \in 1..k : c[i] = z[i]
  BY <1>1
<1>5. d \in Seq(Unit) /\ Len(d) = Len(y) + 1 - k /\ \A i \in 1..(Len(y) + 1 - k) : d[i] = z[k + i]
  BY <1>1
<1> HIDE DEF a, b, c, d
<1>6. c = a
  BY <1>1, <1>2, <1>4
<1>7. d = Append(b, u)
  <2> DEFINE e == Append(b, u)
  <2>1. e \in Seq(Unit) /\ Len(e) = Len(b) + 1 /\ e[Len(b) + 1] = u /\ \A i \in 1..Len(b) : e[i] = b[i]
    BY <1>3
  <2> HIDE DEF e
  <2>2. Len(e) = Len(d)
    BY <1>1, <1>3, <1>5, <2>1
  <2>3. ASSUME NEW i \in 1..Len(d) PROVE d[i] = e[i]
    <3>1. CASE i <= Len(y) - k
      <4>1. i \in 1..(Len(y) - k) /\ k + i \in 1..Len(y) /\ i \in 1..Len(b) /\ i \in 1..(Len(y) + 1 - k)
        BY <1>1, <1>3, <1>5, <3>1
      <4> QED
        BY <1>1, <1>3, <1>5, <2>1, <4>1
    <3>2. CASE i = Len(y) + 1 - k
      <4>1. k + i = Len(y) + 1 /\ i = Len(b) + 1 /\ i \in 1..(Len(y) + 1 - k)
        BY <1>1, <1>3, <1>5, <3>2
      <4> QED
        BY <1>1, <1>5, <2>1, <4>1
    <3>3. i <= Len(y) - k \/ i = Len(y) + 1 - k
      BY <1>1, <1>5
    <3> QED
      BY <3>1, <3>2, <3>3
  <2>4. d = e
    BY <1>5, <2>1, <2>2, <2>3
  <2> QED
    BY <2>4 DEF e
<1>8. Split(z, k) = (a \o <<"s">>) \o Append(b, u) /\ Split(y, k) = (a \o <<"s">>) \o b
  BY <1>6, <1>7 DEF Split, a, b, c, d
<1>9. a \o <<"s">> \in Seq(Unit)
  BY <1>2 DEF Unit
<1>10. Append((a \o <<"s">>) \o b, u) = (a \o <<"s">>) \o Append(b, u)
  BY <1>3, <1>9, AppendLast, Zenon
<1>11. Split(z, k) = Append(Split(y, k), u)
  BY <1>8, <1>10, Zenon
<1> QED
  BY <1>11 DEF z

\* The same unit on both sides.
LEMMA SaysSame ==
  ASSUME NEW x \in Seq(Unit), NEW y \in Seq(Unit), NEW e, Says(x, y, e), NEW u \in Unit
  PROVE  Says(Append(x, u), Append(y, u), e)
<1>1. ~e => Append(x, u) = Append(y, u)
  BY DEF Says
<1>2. x = y \/ \E k \in 0..Len(y) : x = Split(y, k)
  BY WithSeparatorIs DEF Says
<1>3. ASSUME NEW k \in 0..Len(y), x = Split(y, k) PROVE Append(x, u) \in WithSeparator(Append(y, u))
  <2>1. Append(x, u) = Split(Append(y, u), k)
    BY <1>3, SplitMore
  <2>2. k \in 0..Len(Append(y, u))
    OBVIOUS
  <2> QED
    BY <2>1, <2>2, WithSeparatorIs, Zenon
<1>4. CASE x = y
  BY <1>1, <1>4, WithSeparatorIs DEF Says
<1> QED
  BY <1>1, <1>2, <1>3, <1>4 DEF Says

\* The separator, put in once.
LEMMA SaysSeparator ==
  ASSUME NEW y \in Seq(Unit)
  PROVE  Append(y, "s") \in WithSeparator(y)
<1>1. Append(y, "s") = Split(y, Len(y)) /\ Len(y) \in 0..Len(y)
  BY SplitLast
<1> QED
  BY <1>1, WithSeparatorIs, Zenon

\* Flags of the same value say the same.
LEMMA SaysFlag ==
  ASSUME NEW x, NEW y, NEW e, NEW f, Says(x, y, e), f <=> e
  PROVE  Says(x, y, f)
BY DEF Says

\* The pieces of an event line against its text t.
PiecesOfText(d, t, e, f) ==
    \/ d = <<>> /\ t = <<>> /\ (f <=> e)
    \/ \E u \in Unit : d = <<u>> /\ t = <<u>> /\ (f <=> e)
    \/ d = <<"r", "c">> /\ t = <<"r", "c">> /\ (f <=> e)
    \/ d = <<"s", "c">> /\ t = <<"c">> /\ f /\ ~e
    \/ d = <<"r", "s", "c">> /\ t = <<"r", "c">> /\ f /\ ~e

\* enqueue_sse_line adds at most the separator to the text of its line.
LEMMA LineSays ==
  ASSUME TypeOK, NEW l \in Lines \cup {NoLine}
  PROVE  PiecesOfText(EnqueuedPieces(l), TextOf(l), fold.emitted, FoldAfter(l).emitted)
<1> DEFINE d == EnqueuedPieces(l)
           t == TextOf(l)
           f == FoldAfter(l)
<1>1. l.delta \in {"empty", "role", "reasoning", "content", "both"} /\ opt.legacy \in BOOLEAN
  BY DEF Lines, NoLine, TypeOK
<1>u. "r" \in Unit /\ "c" \in Unit /\ l.delta \in Unit
  BY <1>1 DEF Unit
<1>2. CASE ~opt.legacy
  <2>1. d = t /\ f = fold
    BY <1>2 DEF EnqueuedPieces, TextOf, FoldAfter
  <2>2. d = <<>> \/ d = <<l.delta>>
    BY <1>2 DEF EnqueuedPieces, openai_delta_frame_from_vllm_choice
  <2> HIDE DEF d, t, f
  <2>3. PiecesOfText(d, t, fold.emitted, f.emitted)
    BY <1>u, <2>1, <2>2, Zenon DEF PiecesOfText
  <2> QED
    BY <2>3 DEF d, t, f
<1>3. CASE opt.legacy
  <2>1. LineShape(d, f)
    BY <1>3, LinePieces
  <2>2. \/ d = t
        \/ d = <<"s", "c">> /\ t = <<"c">>
        \/ d = <<"r", "s", "c">> /\ t = <<"r", "c">>
    <3>1. CASE l.kind # "choice"
      BY <3>1 DEF EnqueuedPieces, TextOf
    <3>2. CASE l.kind = "choice"
      <4>1. d = LegacyPieces(l) /\ t = stream_deltas_from_vllm_choice(l)
        BY <1>3, <3>2 DEF EnqueuedPieces, TextOf
      <4>2. CASE l.delta \in {"empty", "role"}
        <5>1. t = <<>>
          BY <4>1, <4>2 DEF stream_deltas_from_vllm_choice
        <5>2. ~Contains(<<>>, "c")
          BY DEF Contains
        <5> QED
          BY <4>1, <5>1, <5>2 DEF LegacyPieces
      <4>3. CASE l.delta = "reasoning"
        <5>1. t = <<"r">>
          BY <4>1, <4>3 DEF stream_deltas_from_vllm_choice
        <5>2. ~Contains(<<"r">>, "c")
          BY DEF Contains
        <5> QED
          BY <4>1, <5>1, <5>2 DEF LegacyPieces
      <4>4. CASE l.delta = "content"
        <5>1. t = <<"c">>
          BY <4>1, <4>4 DEF stream_deltas_from_vllm_choice
        <5>2. ~Contains(<<"c">>, "r")
          BY DEF Contains
        <5> QED
          BY <4>1, <5>1, <5>2 DEF LegacyPieces
      <4>5. CASE l.delta = "both"
        <5>1. t = <<"r", "c">>
          BY <4>1, <4>5 DEF stream_deltas_from_vllm_choice
        <5>2. Contains(<<"r", "c">>, "r")
          BY DEF Contains
        <5> QED
          BY <4>1, <5>1, <5>2 DEF LegacyPieces
      <4> QED
        BY <1>1, <4>2, <4>3, <4>4, <4>5
    <3> QED
      BY <3>1, <3>2
  <2>3. /\ <<"s", "c">> # <<"c">> /\ <<"s", "c">> # <<"r", "c">> /\ <<"r", "s", "c">> # <<"r", "c">>
        /\ <<"s", "c">> # <<>> /\ <<"s", "c">> # <<"r">> /\ <<"r", "s", "c">> # <<>>
        /\ <<"r", "s", "c">> # <<"r">> /\ <<"r", "s", "c">> # <<"c">> /\ <<"r", "s", "c">> # <<"s", "c">>
    OBVIOUS
  <2>4. t # <<"s", "c">> /\ t # <<"r", "s", "c">>
    BY <1>1, <1>3, <2>3 DEF TextOf, stream_deltas_from_vllm_choice
  <2> HIDE DEF d, t, f
  <2>5. PiecesOfText(d, t, fold.emitted, f.emitted)
    BY <1>u, <2>1, <2>2, <2>3, <2>4, ZenonT(60) DEF PiecesOfText, LineShape
  <2> QED
    BY <2>5 DEF d, t, f
<1> QED
  BY <1>1, <1>2, <1>3

\* A line that arrives is heard as it is said.
LEMMA SaysLine ==
  ASSUME NEW x \in Seq(Unit), NEW y \in Seq(Unit), NEW e, Says(x, y, e),
         NEW d, NEW t, NEW f, PiecesOfText(d, t, e, f)
  PROVE  Says(x \o d, y \o t, f)
<1>u. "r" \in Unit /\ "c" \in Unit /\ "s" \in Unit
  BY DEF Unit
<1>1. CASE d = <<>> /\ t = <<>> /\ (f <=> e)
  <2>1. x \o d = x /\ y \o t = y
    BY <1>1
  <2> QED
    BY <1>1, <2>1, SaysFlag, Zenon
<1>2. ASSUME NEW u \in Unit, d = <<u>>, t = <<u>>, f <=> e PROVE Says(x \o d, y \o t, f)
  <2>1. x \o d = Append(x, u) /\ y \o t = Append(y, u)
    BY <1>2
  <2>2. Says(Append(x, u), Append(y, u), e)
    BY SaysSame, Zenon
  <2> QED
    BY <1>2, <2>1, <2>2, SaysFlag, Zenon
<1>3. CASE d = <<"r", "c">> /\ t = <<"r", "c">> /\ (f <=> e)
  <2>1. /\ x \o d = Append(Append(x, "r"), "c") /\ y \o t = Append(Append(y, "r"), "c")
        /\ Append(x, "r") \in Seq(Unit) /\ Append(y, "r") \in Seq(Unit)
    BY <1>3, <1>u
  <2>2. Says(Append(x, "r"), Append(y, "r"), e)
    BY <1>u, SaysSame, Zenon
  <2>3. Says(Append(Append(x, "r"), "c"), Append(Append(y, "r"), "c"), e)
    BY <1>u, <2>1, <2>2, SaysSame, Zenon
  <2> QED
    BY <1>3, <2>1, <2>3, SaysFlag, Zenon
<1>4. CASE d = <<"s", "c">> /\ t = <<"c">> /\ f /\ ~e
  <2>1. /\ x \o d = Append(Append(x, "s"), "c") /\ y \o t = Append(y, "c") /\ Append(x, "s") \in Seq(Unit)
    BY <1>4, <1>u
  <2>2. Says(Append(x, "s"), y, f)
    BY <1>4, SaysSeparator DEF Says
  <2>3. Says(Append(Append(x, "s"), "c"), Append(y, "c"), f)
    BY <1>u, <2>1, <2>2, SaysSame, Zenon
  <2> QED
    BY <2>1, <2>3, Zenon
<1>5. CASE d = <<"r", "s", "c">> /\ t = <<"r", "c">> /\ f /\ ~e
  <2> DEFINE a == Append(x, "r")
             b == Append(a, "s")
             z == Append(y, "r")
  <2>1. /\ x \o d = Append(b, "c") /\ y \o t = Append(z, "c")
        /\ a \in Seq(Unit) /\ b \in Seq(Unit) /\ z \in Seq(Unit)
    BY <1>5, <1>u
  <2>2. Says(a, z, e)
    BY <1>u, SaysSame, Zenon
  <2> HIDE DEF a, z
  <2>3. Says(b, z, f)
    <3>1. a = z
      BY <1>5, <2>2 DEF Says
    <3> QED
      BY <1>5, <2>1, <3>1, SaysSeparator DEF Says, b
  <2> HIDE DEF b
  <2>4. Says(Append(b, "c"), Append(z, "c"), f)
    BY <1>u, <2>1, <2>3, SaysSame, Zenon
  <2> QED
    BY <2>1, <2>4, Zenon
<1> QED
  BY <1>1, <1>2, <1>3, <1>4, <1>5, Zenon DEF PiecesOfText

\* Nothing is to come from no line.
LEMMA NoLineSays ==
  ASSUME fold \in [saw : BOOLEAN, emitted : BOOLEAN], opt.legacy \in BOOLEAN
  PROVE  EnqueuedPieces(NoLine) = <<>> /\ TextOf(NoLine) = <<>> /\ (FoldAfter(NoLine).emitted <=> fold.emitted)
<1>1. EnqueuedPieces(NoLine) = <<>> /\ TextOf(NoLine) = <<>>
  BY DEF EnqueuedPieces, TextOf, NoLine
<1>2. ~Contains(<<>>, "s")
  BY DEF Contains
<1>3. CASE opt.legacy
  <2> DEFINE s == fold.emitted \/ Contains(EnqueuedPieces(NoLine), "s")
             r == fold.saw \/ Contains(EnqueuedPieces(NoLine), "r")
  <2>1. FoldAfter(NoLine) = [saw |-> r, emitted |-> s]
    BY <1>3 DEF FoldAfter
  <2>2. s <=> fold.emitted
    BY <1>1, <1>2
  <2> HIDE DEF s, r
  <2>3. FoldAfter(NoLine).emitted = s
    BY <2>1
  <2> QED
    BY <1>1, <2>2, <2>3
<1>4. CASE ~opt.legacy
  BY <1>1, <1>4 DEF FoldAfter
<1> QED
  BY <1>3, <1>4

\* The state an event line is read in: what was said is all yielded.
LEMMA SaidBefore ==
  ASSUME IInv, SaidInv, NeedsBytes
  PROVE  /\ opt.kind = "chat" /\ sent \in Seq(Unit) /\ said \in Seq(Unit) /\ tail \in Lines \cup {NoLine}
         /\ fold \in [saw : BOOLEAN, emitted : BOOLEAN] /\ opt.legacy \in BOOLEAN
         /\ Says(sent \o EnqueuedPieces(tail), said, FoldAfter(tail).emitted)
         /\ tail = NoLine => Says(sent, said, fold.emitted)
<1>1. /\ opt.kind = "chat" /\ sent \in Seq(Unit) /\ said \in Seq(Unit) /\ tail \in Lines \cup {NoLine}
      /\ fold \in [saw : BOOLEAN, emitted : BOOLEAN] /\ opt.legacy \in BOOLEAN /\ ready = <<>>
  BY DEF IInv, TypeOK, Control, ChatOnly, NeedsBytes
<1>2. sent \o ready = sent
  BY <1>1
<1>3. Says(sent \o EnqueuedPieces(tail), said, FoldAfter(tail).emitted)
  BY <1>2 DEF SaidInv, Heard
<1>4. ASSUME tail = NoLine PROVE Says(sent, said, fold.emitted)
  <2>1. EnqueuedPieces(tail) = <<>> /\ (FoldAfter(tail).emitted <=> fold.emitted)
    BY <1>1, <1>4, NoLineSays
  <2>2. sent \o <<>> = sent
    BY <1>1
  <2> QED
    BY <1>3, <2>1, <2>2, SaysFlag, Zenon
<1> QED
  BY <1>1, <1>3, <1>4

\* After a step that leaves no unfinished line.
LEMMA SaidAfter ==
  ASSUME NEW x, NEW y, Says(x, y, fold'.emitted), TypeOK', opt' = opt, opt.kind = "chat",
         tail' = NoLine, sent' \o ready' = x, said' = y
  PROVE  SaidInv'
<1>1. fold' \in [saw : BOOLEAN, emitted : BOOLEAN] /\ opt'.legacy \in BOOLEAN /\ sent' \in Seq(Unit) /\ ready' \in Seq(Unit)
  BY DEF TypeOK
<1>2. EnqueuedPieces(tail)' = <<>> /\ (FoldAfter(tail)'.emitted <=> fold'.emitted)
  <2>1. EnqueuedPieces(NoLine)' = <<>> /\ (FoldAfter(NoLine)'.emitted <=> fold'.emitted)
    <3>1. EnqueuedPieces(NoLine)' = <<>>
      BY DEF EnqueuedPieces, NoLine
    <3>2. ~Contains(<<>>, "s")
      BY DEF Contains
    <3>3. CASE opt'.legacy
      <4> DEFINE s == fold'.emitted \/ Contains(EnqueuedPieces(NoLine)', "s")
                 r == fold'.saw \/ Contains(EnqueuedPieces(NoLine)', "r")
      <4>1. FoldAfter(NoLine)' = [saw |-> r, emitted |-> s]
        BY <3>3 DEF FoldAfter, NoLine
      <4>2. s <=> fold'.emitted
        BY <3>1, <3>2
      <4> HIDE DEF s, r
      <4>3. FoldAfter(NoLine)'.emitted = s
        BY <4>1
      <4> QED
        BY <3>1, <4>2, <4>3
    <3>4. CASE ~opt'.legacy
      BY <3>1, <3>4 DEF FoldAfter
    <3> QED
      BY <3>3, <3>4
  <2>2. NoLine' = NoLine
    BY DEF NoLine
  <2> QED
    BY <2>1, <2>2
<1>3. (sent' \o ready') \o <<>> = sent' \o ready'
  <2> DEFINE p == sent'
             q == ready'
  <2>1. p \in Seq(Unit) /\ q \in Seq(Unit)
    BY <1>1
  <2> HIDE DEF p, q
  <2>2. p \o q \in Seq(Unit)
    BY <2>1
  <2>3. (p \o q) \o <<>> = p \o q
    BY <2>2
  <2> QED
    BY <2>3 DEF p, q
<1>4. Heard' = x
  BY <1>2, <1>3 DEF Heard
<1>5. Says(x, y, FoldAfter(tail)'.emitted)
  BY <1>2, SaysFlag, Zenon
<1>6. Says(Heard, said, FoldAfter(tail).emitted)'
  BY <1>4, <1>5 DEF Says, WithSeparator
<1> QED
  BY <1>6 DEF SaidInv, NoLine

\* A whole line arrives.
LEMMA SaidLine ==
  ASSUME IInv, IInv', SaidInv, NEW l \in Lines, ReceiveLine(l)
  PROVE  SaidInv'
<1>1. /\ NeedsBytes /\ tail = NoLine /\ tail' = tail /\ said' = said \o TextOf(l) /\ sent' = sent /\ opt' = opt
      /\ ready' = EnqueuedPieces(l) /\ fold' = FoldAfter(l)
  BY DEF ReceiveLine, Enqueue, chat
<1>2. opt.kind = "chat" /\ sent \in Seq(Unit) /\ said \in Seq(Unit) /\ Says(sent, said, fold.emitted)
  BY <1>1, SaidBefore
<1>3. PiecesOfText(EnqueuedPieces(l), TextOf(l), fold.emitted, FoldAfter(l).emitted)
  BY LineSays DEF IInv
<1>4. Says(sent \o EnqueuedPieces(l), said \o TextOf(l), FoldAfter(l).emitted)
  BY <1>2, <1>3, SaysLine, Zenon
<1>5. /\ TypeOK' /\ tail' = NoLine /\ sent' \o ready' = sent \o EnqueuedPieces(l)
  BY <1>1 DEF IInv
<1>6. Says(sent \o EnqueuedPieces(l), said \o TextOf(l), fold'.emitted)
  BY <1>1, <1>4, Zenon
<1> QED
  BY <1>1, <1>2, <1>5, <1>6, SaidAfter, Zenon

\* The start of a line arrives.
LEMMA SaidPart ==
  ASSUME IInv, SaidInv, NEW l \in Lines, ReceivePart(l)
  PROVE  SaidInv'
<1>1. /\ NeedsBytes /\ tail = NoLine /\ tail' = l /\ said' = said \o TextOf(l)
      /\ UNCHANGED <<opt, sent, ready, fold, eof>>
  BY DEF ReceivePart, chat
<1>2. opt.kind = "chat" /\ sent \in Seq(Unit) /\ said \in Seq(Unit) /\ Says(sent, said, fold.emitted)
  BY <1>1, SaidBefore
<1>3. PiecesOfText(EnqueuedPieces(l), TextOf(l), fold.emitted, FoldAfter(l).emitted)
  BY LineSays DEF IInv
<1>4. Says(sent \o EnqueuedPieces(l), said \o TextOf(l), FoldAfter(l).emitted)
  BY <1>2, <1>3, SaysLine, Zenon
<1>5. EnqueuedPieces(tail)' = EnqueuedPieces(l) /\ FoldAfter(tail)' = FoldAfter(l)
  <2>1. EnqueuedPieces(tail)' = EnqueuedPieces(l)
    BY <1>1 DEF EnqueuedPieces, LegacyPieces, stream_deltas_from_vllm_choice, openai_delta_frame_from_vllm_choice
  <2> QED
    BY <1>1, <2>1 DEF FoldAfter
<1>6. Heard' = sent \o EnqueuedPieces(l)
  <2>1. sent' \o ready' = sent
    BY <1>1, <1>2 DEF NeedsBytes
  <2> QED
    BY <1>5, <2>1 DEF Heard
<1>7. Says(Heard, said, FoldAfter(tail).emitted)'
  BY <1>1, <1>4, <1>5, <1>6 DEF Says, WithSeparator
<1>8. ~eof'
  BY <1>1 DEF NeedsBytes
<1> QED
  BY <1>1, <1>2, <1>7, <1>8 DEF SaidInv

\* The rest of a line arrives.
LEMMA SaidRest ==
  ASSUME IInv, IInv', SaidInv, ReceiveRest
  PROVE  SaidInv'
<1>1. /\ NeedsBytes /\ tail' = NoLine /\ said' = said /\ sent' = sent /\ opt' = opt
      /\ ready' = EnqueuedPieces(tail) /\ fold' = FoldAfter(tail)
  BY DEF ReceiveRest, Enqueue, chat
<1>2. opt.kind = "chat" /\ Says(sent \o EnqueuedPieces(tail), said, FoldAfter(tail).emitted)
  BY <1>1, SaidBefore
<1>3. TypeOK' /\ sent' \o ready' = sent \o EnqueuedPieces(tail)
  BY <1>1 DEF IInv
<1>4. Says(sent \o EnqueuedPieces(tail), said, fold'.emitted)
  BY <1>1, <1>2, Zenon
<1> QED
  BY <1>1, <1>2, <1>3, <1>4, SaidAfter, Zenon

\* The bytes end, perhaps in the middle of a line.
LEMMA SaidEof ==
  ASSUME IInv, IInv', SaidInv, ReceiveEof
  PROVE  SaidInv'
<1> DEFINE d == EnqueuedPieces(tail)
           f == FoldAfter(tail)
           b == BoundaryAtEof(f)
<1>1. /\ NeedsBytes /\ tail' = NoLine /\ said' = said /\ sent' = sent /\ opt' = opt
      /\ ready' = d \o (IF b THEN <<"s">> ELSE <<>>) /\ fold' = [f EXCEPT !.emitted = @ \/ b]
  BY DEF ReceiveEof, chat
<1>2. /\ opt.kind = "chat" /\ sent \in Seq(Unit) /\ said \in Seq(Unit)
      /\ Says(sent \o d, said, f.emitted) /\ tail \in Lines \cup {NoLine}
  BY <1>1, SaidBefore
<1>3. d \in Seq(Unit) /\ f \in [saw : BOOLEAN, emitted : BOOLEAN]
  BY <1>2, LinePieces DEF IInv
<1>4. b \in BOOLEAN /\ (b => ~f.emitted) /\ TypeOK'
  BY DEF BoundaryAtEof, IInv
<1> HIDE DEF d, f, b
<1>5. fold'.emitted <=> f.emitted \/ b
  BY <1>1, <1>3, <1>4
<1>6. CASE b
  <2>1. sent \o d \in Seq(Unit)
    BY <1>2, <1>3
  <2>2. sent' \o ready' = Append(sent \o d, "s")
    <3>1. ready' = d \o <<"s">> /\ "s" \in Unit
      BY <1>1, <1>6 DEF Unit
    <3> QED
      BY <1>1, <1>2, <1>3, <3>1
  <2>3. ~f.emitted /\ fold'.emitted
    BY <1>4, <1>5, <1>6
  <2>4. Says(Append(sent \o d, "s"), said, fold'.emitted)
    <3>1. sent \o d = said
      BY <1>2, <2>3 DEF Says
    <3> QED
      BY <1>2, <2>3, <3>1, SaysSeparator DEF Says
  <2> QED
    BY <1>1, <1>2, <1>4, <2>2, <2>4, SaidAfter, Zenon
<1>7. CASE ~b
  <2>1. sent' \o ready' = sent \o d
    BY <1>1, <1>2, <1>3, <1>7
  <2>2. fold'.emitted <=> f.emitted
    BY <1>5, <1>7
  <2>3. Says(sent \o d, said, fold'.emitted)
    BY <1>2, <2>2 DEF Says
  <2> QED
    BY <1>1, <1>2, <1>4, <2>1, <2>3, SaidAfter, Zenon
<1> QED
  BY <1>6, <1>7

\* A piece goes from the ready ones to the yielded ones.
LEMMA SaidYield ==
  ASSUME IInv, SaidInv, YieldPiece
  PROVE  SaidInv'
<1>1. /\ pc = "stream" /\ ready # <<>> /\ ready' = Tail(ready) /\ sent' = Append(sent, Head(ready))
      /\ UNCHANGED <<opt, tail, fold, eof, said>>
  BY DEF YieldPiece
<1>2. ready \in Seq(Unit) /\ sent \in Seq(Unit) /\ opt.kind = "chat"
  BY <1>1 DEF IInv, TypeOK, Control, ChatOnly
<1>3. sent' \o ready' = sent \o ready
  BY <1>1, <1>2, MoveHead
<1>4. EnqueuedPieces(tail)' = EnqueuedPieces(tail)
  BY <1>1 DEF EnqueuedPieces, LegacyPieces, stream_deltas_from_vllm_choice, openai_delta_frame_from_vllm_choice
<1>5. FoldAfter(tail)' = FoldAfter(tail)
  BY <1>1, <1>4 DEF FoldAfter
<1>6. Heard' = Heard
  BY <1>3, <1>4 DEF Heard
<1>7. Says(Heard, said, FoldAfter(tail).emitted)'
  BY <1>1, <1>5, <1>6 DEF SaidInv, Says, WithSeparator
<1> QED
  BY <1>1, <1>2, <1>7 DEF SaidInv, NoLine

\* The answer of an embeddings request is all that was said.
LEMMA SaidEmbeddings ==
  ASSUME IInv, SaidInv, EmbeddingsAnswer
  PROVE  SaidInv'
<1>1. /\ pc = "embed" /\ said' = <<"e">> /\ sent' = <<"e">> /\ UNCHANGED <<opt, tail, ready, fold, eof>>
  BY DEF EmbeddingsAnswer
<1>2. opt.kind = "embeddings" /\ ready = <<>> /\ tail = NoLine
  BY <1>1 DEF IInv, Control, ChatOnly, SaidInv
<1>3. EnqueuedPieces(tail)' = <<>>
  BY <1>1, <1>2 DEF EnqueuedPieces, NoLine
<1>4. Heard' = <<"e">>
  <2>1. (<<"e">> \o <<>>) \o <<>> = <<"e">>
    OBVIOUS
  <2> QED
    BY <1>1, <1>2, <1>3, <2>1 DEF Heard
<1>5. Says(Heard, said, FoldAfter(tail).emitted)'
  BY <1>1, <1>4 DEF Says, WithSeparator
<1> QED
  BY <1>1, <1>2, <1>5 DEF SaidInv, NoLine

\* Every step keeps account of what was said.
LEMMA SaidStep ==
  ASSUME IInv, IInv', SaidInv, [Next]_vars
  PROVE  SaidInv'
<1>1. ASSUME UNCHANGED <<opt, tail, ready, fold, eof, said, sent>> PROVE SaidInv'
  <2>1. EnqueuedPieces(tail)' = EnqueuedPieces(tail)
    BY <1>1 DEF EnqueuedPieces, LegacyPieces, stream_deltas_from_vllm_choice, openai_delta_frame_from_vllm_choice
  <2>2. FoldAfter(tail)' = FoldAfter(tail)
    BY <1>1, <2>1 DEF FoldAfter
  <2>3. Heard' = Heard
    BY <1>1, <2>1 DEF Heard
  <2>4. Says(Heard, said, FoldAfter(tail).emitted)'
    BY <1>1, <2>2, <2>3 DEF SaidInv, Says, WithSeparator
  <2> QED
    BY <1>1, <2>4 DEF SaidInv, NoLine
<1>2. CASE \/ FreeEngine \/ OpenStreamingPost \/ RefuseEnvelope \/ Dispatch \/ EmbeddingsFail
           \/ ChatBegin \/ ChatRefused \/ ChatAccepted \/ FinishPost \/ AbortPost \/ PostAnswer
           \/ UNCHANGED vars \/ StreamError \/ StreamEnd
  <2>1. UNCHANGED <<opt, tail, ready, fold, eof, said, sent>>
    BY <1>2 DEF FreeEngine, OpenStreamingPost, RefuseEnvelope, Dispatch, EmbeddingsFail, ChatBegin,
       ChatRefused, ChatAccepted, FinishPost, AbortPost, PostAnswer, StreamError, StreamEnd, vars, upstream, chat
  <2> QED
    BY <1>1, <2>1
<1>3. ASSUME NEW l \in Lines, ReceiveLine(l) \/ ReceivePart(l) PROVE SaidInv'
  BY <1>3, SaidLine, SaidPart
<1> QED
  BY <1>2, <1>3, SaidRest, SaidEof, SaidYield, SaidEmbeddings DEF Next, Work, Upstream, Done

\* A text is a prefix of whatever it is continued to.
LEMMA PrefixOfMore ==
  ASSUME NEW x \in Seq(Unit), NEW z \in Seq(Unit)
  PROVE  IsPrefix(x, x \o z)
<1> DEFINE w == x \o z
<1>1. /\ w \in Seq(Unit) /\ Len(w) = Len(x) + Len(z) /\ Len(x) \in Nat /\ Len(z) \in Nat
      /\ \A i \in 1..Len(x) : w[i] = x[i]
  OBVIOUS
<1> HIDE DEF w
<1>2. Len(x) <= Len(w)
  BY <1>1
<1>3. SubSeq(x, 1, Len(x)) = SubSeq(w, 1, Len(x))
  BY <1>1
<1> QED
  BY <1>2, <1>3 DEF IsPrefix, w

\* What is sealed and waiting against what was said.
LEMMA PreservedText ==
  ASSUME IInv, TextInv, SaidInv
  PROVE  TextPreserved
<1> DEFINE z == ready \o EnqueuedPieces(tail)
<1>1. /\ sent \in Seq(Unit) /\ ready \in Seq(Unit) /\ tail \in Lines \cup {NoLine} /\ TypeOK
      /\ opt.kind \in {"chat", "embeddings"} /\ opt.legacy \in BOOLEAN
      /\ fold \in [saw : BOOLEAN, emitted : BOOLEAN]
  BY DEF IInv, TypeOK
<1>2. EnqueuedPieces(tail) \in Seq(Unit)
  BY <1>1, LinePieces
<1>3. z \in Seq(Unit) /\ Heard = sent \o z
  BY <1>1, <1>2 DEF Heard
<1> HIDE DEF z
<1>4. Heard \in WithSeparator(said) /\ IsPrefix(sent, Heard)
  BY <1>1, <1>3, PrefixOfMore DEF SaidInv, Says
<1>5. ASSUME result = 200 PROVE sent = Heard
  <2>1. ready = <<>> /\ tail = NoLine
    BY <1>1, <1>5 DEF IInv, Control, Succeeded, SaidInv
  <2>2. EnqueuedPieces(tail) = <<>>
    BY <2>1 DEF EnqueuedPieces, NoLine
  <2>3. (sent \o <<>>) \o <<>> = sent
    BY <1>1
  <2> QED
    BY <2>1, <2>2, <2>3 DEF Heard
<1>6. FlattenSeq(Texts) \o pending = sent
  BY DEF TextInv, SealedAsSent
<1> QED
  BY <1>4, <1>5, <1>6, Zenon DEF TextPreserved

\* Nothing the upstream said is lost, repeated or reordered on its way to the
\* client, however its lines are cut: the ciphertexts, in the order of their
\* numbers, and the text that waits for its chunk are a prefix of the text of
\* the lines that arrived (VllmSseStream's buffer and pending pieces,
\* run_chat_inference's buffer), with one thinking separator at most, and all
\* of it when the answer is 200.
THEOREM KeepsText == Spec => []TextPreserved
<1>1. Init => TextInv
  <2> SUFFICES ASSUME Init PROVE TextInv
    OBVIOUS
  <2>1. seq = 0 /\ pending = <<>> /\ sent = <<>>
    BY DEF Init
  <2>2. Kept(wire, seq, pending, sent)
    BY <2>1, KeptNothing, Zenon
  <2> QED
    BY <2>1, <2>2, SealedAsSentIs DEF TextInv
<1>2. Init => SaidInv
  <2> SUFFICES ASSUME Init PROVE SaidInv
    OBVIOUS
  <2>1. ready = <<>> /\ sent = <<>> /\ said = <<>> /\ tail = NoLine
    BY DEF Init
  <2>2. EnqueuedPieces(tail) = <<>> /\ (<<>> \o <<>>) \o <<>> = <<>>
    BY <2>1 DEF EnqueuedPieces, NoLine
  <2>3. Heard = said
    BY <2>1, <2>2 DEF Heard
  <2> QED
    BY <2>1, <2>3 DEF SaidInv, Says, WithSeparator
<1>3. IInv /\ TextInv /\ [Next]_vars => TextInv'
  BY TextStep
<1>4. IInv /\ IInv' /\ SaidInv /\ [Next]_vars => SaidInv'
  BY SaidStep
<1>5. IInv /\ TextInv /\ SaidInv => TextPreserved
  BY PreservedText
<1> QED
  BY <1>1, <1>2, <1>3, <1>4, <1>5, Invariance, PTL DEF Spec

-----------------------------------------------------------------------------
(* The gateway's contract *)

FinalSent == \E i \in Sealed : wire[i].final

\* A step that adds ciphertexts, or none, is a write or invisible.
LEMMA WritesOrStutters ==
  ASSUME View = "streaming", View' = "streaming", ~FinalSent, seq \in Nat, seq' \in Nat, seq' >= seq,
         seq' = seq => ~FinalSent'
  PROVE  [Contract!Next]_(Contract!cvars)
<1>1. FinalSent \in BOOLEAN /\ FinalSent' \in BOOLEAN
  BY DEF FinalSent
<1>2. CASE seq' = seq
  <2>1. UNCHANGED <<View, seq, FinalSent>>
    BY <1>1, <1>2
  <2> QED
    BY <2>1 DEF Contract!cvars, FinalSent
<1>3. CASE seq' # seq
  <2>1. seq' > seq
    BY <1>3
  <2>2. Contract!Write
    BY <1>1, <2>1 DEF Contract!Write, FinalSent
  <2> QED
    BY <2>2 DEF Contract!Next
<1> QED
  BY <1>2, <1>3

\* Every step of a response is one the contract allows.
LEMMA ContractStep ==
  ASSUME IInv, [Next]_vars
  PROVE  [Contract!Next]_(Contract!cvars)
<1>0. /\ TypeOK /\ NumberedOnce /\ Control /\ IInv'
      /\ seq \in Nat
  BY StepInv DEF IInv, TypeOK
<1>1. ASSUME UNCHANGED <<View, seq, wire>> PROVE [Contract!Next]_(Contract!cvars)
  <2>1. UNCHANGED FinalSent
    BY <1>1 DEF FinalSent, Sealed
  <2> QED
    BY <1>1, <2>1 DEF Contract!cvars, FinalSent
<1>2. CASE FreeEngine \/ UNCHANGED vars
  <2>1. UNCHANGED <<pc, post, json, seq, wire>>
    BY <1>2 DEF FreeEngine, vars, chat
  <2> QED
    BY <1>1, <2>1 DEF View
<1>3. CASE OpenStreamingPost
  <2>1. pc = "pulled" /\ pc' = "prepare" /\ UNCHANGED <<seq, wire>>
    BY <1>3 DEF OpenStreamingPost, chat
  <2>2. View = "waiting" /\ View' = "streaming" /\ UNCHANGED FinalSent
    BY <2>1 DEF View, FinalSent, Sealed
  <2>3. Contract!Start
    BY <2>1, <2>2 DEF Contract!Start, FinalSent
  <2> QED
    BY <2>3 DEF Contract!Next
<1>4. CASE \/ RefuseEnvelope \/ Dispatch \/ EmbeddingsFail \/ ChatBegin \/ ChatRefused
           \/ (\E l \in Lines : ReceiveLine(l) \/ ReceivePart(l)) \/ ReceiveRest \/ ReceiveEof
  <2>1. /\ pc \in {"prepare", "embed", "begin", "connect", "stream"}
        /\ pc' \in {"embed", "begin", "connect", "stream", "answer"} /\ UNCHANGED <<seq, wire>>
    BY <1>4 DEF RefuseEnvelope, Dispatch, EmbeddingsFail, ChatBegin, ChatRefused, Return, ReceiveLine,
       ReceivePart, ReceiveRest, ReceiveEof, NeedsBytes, chat
  <2>2. View = "streaming" /\ View' = "streaming"
    BY <2>1 DEF View
  <2> QED
    BY <1>1, <2>1, <2>2
<1>5. CASE ChatAccepted
  <2>1. pc = "connect" /\ pc' = "stream" /\ UNCHANGED seq
    BY <1>5 DEF ChatAccepted
  <2>2. View = "streaming" /\ View' = "streaming"
    BY <2>1 DEF View
  <2>3. ~FinalSent
    BY <1>0, <2>1 DEF Control, Unwritten, FinalSent, Sealed
  <2>4. ~FinalSent'
    BY <1>0, <2>1 DEF IInv, Control, Streaming, NoFinal, FinalSent, Sealed, SealedIn
  <2> QED
    BY <1>0, <2>1, <2>2, <2>3, <2>4, WritesOrStutters
<1>6. CASE YieldPiece
  <2>1. pc = "stream" /\ pc' = "stream"
    BY <1>6 DEF YieldPiece
  <2>2. View = "streaming" /\ View' = "streaming"
    BY <2>1 DEF View
  <2>3. ~FinalSent /\ ~FinalSent'
    BY <1>0, <2>1 DEF IInv, Control, Streaming, NoFinal, FinalSent, Sealed, SealedIn
  <2>4. seq' >= seq /\ seq' \in Nat
    BY <1>0, <1>6, YieldStep DEF IInv, TypeOK
  <2> QED
    BY <1>0, <2>2, <2>3, <2>4, WritesOrStutters
<1>7. CASE StreamError \/ StreamEnd
  <2>1. pc = "stream" /\ pc' = "answer"
    BY <1>7 DEF StreamError, StreamEnd, NeedsBytes, Return
  <2>2. View = "streaming" /\ View' = "streaming"
    BY <2>1 DEF View
  <2>3. ~FinalSent
    BY <1>0, <2>1 DEF Control, Streaming, NoFinal, FinalSent, Sealed, SealedIn
  <2>4. seq' >= seq /\ seq' \in Nat
    BY <1>0, <1>7, ErrorStep, EndStep DEF IInv, TypeOK
  <2>5. seq' = seq => NoFinal(wire')
    BY <1>7, ErrorStep, EndStep
  <2>6. seq' = seq => ~FinalSent'
    BY <2>5 DEF NoFinal, FinalSent, Sealed, SealedIn
  <2> QED
    BY <1>0, <2>2, <2>3, <2>4, <2>6, WritesOrStutters
<1>8. CASE EmbeddingsAnswer
  <2>1. pc = "embed" /\ pc' = "answer"
    BY <1>8 DEF EmbeddingsAnswer, Return
  <2>2. View = "streaming" /\ View' = "streaming"
    BY <2>1 DEF View
  <2>3. seq = 0 /\ seq' = 1 /\ wire = <<>>
    BY <1>8, EmbeddingsStep
  <2>4. ~FinalSent
    BY <2>3 DEF FinalSent, Sealed
  <2> QED
    BY <2>2, <2>3, <2>4, WritesOrStutters
<1>9. CASE FinishPost
  <2>1. /\ pc = "answer" /\ result < 400 /\ pc' = "done" /\ post' \in {"complete", "lost"}
        /\ UNCHANGED <<result, json, seq, wire>>
    BY <1>9 DEF FinishPost, stream_ok, chat
  <2>2. result = 200 /\ json = 0
    BY <1>0, <2>1 DEF TypeOK, Control, Outcome
  <2>3. seq > 0 => FinalSent
    <3>1. seq > 0 => 0 \in {wire[i].seq : i \in Sealed}
      <4>1. {wire[i].seq : i \in Sealed} = 0..(seq - 1)
        BY <1>0 DEF NumberedOnce
      <4>2. seq > 0 => 0 \in 0..(seq - 1)
        BY <1>0
      <4> QED
        BY <4>1, <4>2
    <3>2. seq > 0 => Sealed # {}
      BY <3>1
    <3> QED
      BY <1>0, <2>2, <3>2 DEF Control, Succeeded, FinalSent, Sealed, SealedIn
  <2>4. View = "streaming" /\ View' \in {"complete", "lost"} /\ UNCHANGED FinalSent
    BY <2>1, <2>2 DEF View, FinalSent, Sealed
  <2>5. Contract!Complete \/ Contract!Lose
    BY <2>1, <2>3, <2>4 DEF Contract!Complete, Contract!Lose, FinalSent
  <2> QED
    BY <2>5 DEF Contract!Next
<1>10. CASE AbortPost
  <2>1. pc = "answer" /\ pc' = "repost" /\ UNCHANGED <<seq, wire>>
    BY <1>10 DEF AbortPost, chat
  <2>2. View = "streaming" /\ View' = "cut" /\ UNCHANGED FinalSent
    BY <2>1 DEF View, FinalSent, Sealed
  <2>3. Contract!GiveUp
    BY <2>1, <2>2 DEF Contract!GiveUp, FinalSent
  <2> QED
    BY <2>3 DEF Contract!Next
<1>11. CASE PostAnswer
  <2>1. /\ pc = "repost" /\ pc' = "done" /\ UNCHANGED <<seq, wire>>
        /\ \/ json' = result /\ UNCHANGED post
           \/ post' \in {"missed", "lost"}
    BY <1>11 DEF PostAnswer, chat
  <2>2. result # 0 /\ post \in {"complete", "reset"}
    BY <1>0, <2>1 DEF Control, Outcome
  <2>3. View = "cut" /\ View' \in {"answered", "lost"} /\ UNCHANGED FinalSent
    BY <2>1, <2>2 DEF View, FinalSent, Sealed
  <2>4. Contract!Answer \/ Contract!Lose
    BY <2>1, <2>3 DEF Contract!Answer, Contract!Lose, FinalSent
  <2> QED
    BY <2>4 DEF Contract!Next
<1> QED
  BY <1>2, <1>3, <1>4, <1>5, <1>6, <1>7, <1>8, <1>9, <1>10, <1>11 DEF Next, Work, Upstream, Done

\* A response starts as the contract starts, and every step of pull_once, the
\* inference and the upstream is a step of the contract or invisible to the
\* gateway: the safety part of MeetsContract.  That the work ends is liveness.
THEOREM KeepsContract ==
  Spec => Contract!Init /\ [][Contract!Next]_(Contract!cvars)
<1>1. Init => Contract!Init
  BY DEF Init, Contract!Init, View, Sealed
<1>2. IInv /\ [Next]_vars => [Contract!Next]_(Contract!cvars)
  BY ContractStep
<1> QED
  BY <1>1, <1>2, Invariance, PTL DEF Spec
=============================================================================
