-------------------------- MODULE ChainClientProofs ---------------------------
(***************************************************************************)
(* Proofs about the Go package that talks to the chain.                    *)
(*                                                                         *)
(* The first part is about SuiteClient, for chains, lists and pages of any *)
(* size.  What a command may ask next depends on what it has asked before: *)
(* a view needs a pinned height, a check of the locator needs a resolved   *)
(* repository, and a write needs a checked locator.  The programs keep to  *)
(* that order, and what is left of a program keeps to it with respect to   *)
(* what the command has seen; the properties follow.                       *)
(*                                                                         *)
(* The second part is about EVMTransactor, for any operations, processes,  *)
(* retry limits and word size: the gas limit, the nonces of one cache,     *)
(* what becomes of a cache whose operation failed, and what an operation   *)
(* reports.                                                                *)
(***************************************************************************)
EXTENDS EVMTransactor, SuiteClient, TLAPS

-----------------------------------------------------------------------------
(* The order of requests                                                   *)

IsSeq(p) == p \in Seq(Range(p))

Located(f) == f \notin ThroughAlias \cup Unlocated

\* What a request rests on, and what it establishes.
Needs(r) ==
  {k \in {"pin", "repository", "canonical"} :
     \/ k = "pin" /\ r.do \in {"read", "pages", "foreach"}
     \/ k = "repository" /\ r.do = "canonical"
     \/ k = "canonical" /\ r.do = "send" /\ Located(r.of)}

Gives(r) ==
  {k \in {"pin", "repository", "canonical"} :
     \/ k = "pin" /\ r.do = "pin"
     \/ k = "repository" /\ r.do \in {"read", "latest"} /\ r.of = "repository"
     \/ k = "canonical" /\ r.do = "canonical"}

GivenIn(p) == {k \in {"pin", "repository", "canonical"} : \E i \in 1..Len(p) : k \in Gives(p[i])}

\* Nothing is asked before what it rests on, given K.
Ordered(K, p) ==
  \A i \in 1..Len(p) : \A k \in Needs(p[i]) : k \in K \/ \E j \in 1..(i - 1) : k \in Gives(p[j])

\* A list is read after a pin of its own.
PagesApart(p) ==
  \A i, j \in 1..Len(p) :
    i < j /\ p[i].do = "pages" /\ p[j].do = "pages" => \E k \in (i + 1)..(j - 1) : p[k].do = "pin"

NamesLists(p) == \A i \in 1..Len(p) : p[i].do \in {"pages", "foreach"} => p[i].of \in Lists

\* Of the pages that are left, those of the running query.
PagesAhead(p) ==
  {i \in 1..Len(p) : p[i].do = "pages" /\ \A j \in 1..(i - 1) : p[j].do # "pin"}

ListsAhead(p) == {p[i].of : i \in PagesAhead(p)}

-----------------------------------------------------------------------------
(* The inductive invariant                                                 *)

ClientTyped ==
  /\ blocks \in Seq([Cells -> Nat]) /\ Height \in 1..MaxBlocks
  /\ \A h \in 1..Height, c \in Lists : blocks[h][c] \in 0..(h - 1)
  /\ directory \in Directories
  /\ IsSeq(todo) /\ tag \in 0..Height
  /\ listed \in Seq(Nat) /\ IsSeq(sent)

CanonicalOnce == \E h \in 1..Height : IsCanonical(blocks[h]["repository"])

\* What the requests so far have established.
Seen ==
  {k \in {"pin", "repository", "canonical"} :
     \/ k = "pin" /\ tag # 0
     \/ k = "repository" /\ \E h \in 1..Height : resolved = blocks[h]["repository"]
     \/ k = "canonical" /\ CanonicalOnce}

TodoOrdered == Ordered(Seen, todo) /\ PagesApart(todo) /\ NamesLists(todo)

Current(list) == Contents[list][blocks[tag][list]]

ListExact ==
  /\ listing = "" => listed = <<>>
  /\ listing # "" =>
       /\ listing \in Lists /\ tag # 0
       /\ Len(listed) <= Len(Current(listing))
       /\ \A i \in 1..Len(listed) : listed[i] = Current(listing)[i]
       /\ ListsAhead(todo) \subseteq {listing}
       /\ outcome = "ok" /\ ListsAhead(todo) = {} => listed = Current(listing)

AnswerExact == answer # {} => tag # 0 /\ \A a \in answer : blocks[tag][a[1]] = a[2]

SentLocated == \A i \in 1..Len(sent) : Located(sent[i]) => CanonicalOnce

SuiteKnown ==
  info # 0 \/ answer # {} \/ sent # <<>> => directory = Genuine /\ Active(Newest)

ClientInv ==
  /\ ClientTyped /\ TodoOrdered /\ ListExact /\ AnswerExact /\ SentLocated /\ SuiteKnown

-----------------------------------------------------------------------------
(* Sequences of requests                                                   *)

\* Whatever its elements, a sequence is one of them.
LEMMA AnySeq ==
  ASSUME NEW S, NEW p \in Seq(S)
  PROVE  IsSeq(p)
<1>1. PICK n \in Nat : p \in [1..n -> S]
  OBVIOUS
<1>2. p \in [1..n -> Range(p)]
  BY <1>1, Zenon DEF Range
<1>3. \A f \in [1..n -> Range(p)] : f \in Seq(Range(p))
  OBVIOUS
<1> QED
  BY <1>2, <1>3, Zenon DEF IsSeq

\* A sequence without its first element.
LEMMA SeqTail ==
  ASSUME NEW S, NEW q \in Seq(S), q # <<>>
  PROVE  /\ Head(q) = q[1] /\ Len(q) \in Nat \ {0} /\ Tail(q) \in Seq(S)
         /\ Len(Tail(q)) = Len(q) - 1
         /\ \A i \in 1..(Len(q) - 1) : Tail(q)[i] = q[i + 1]
OBVIOUS

\* What is left of a sequence without its first element.
LEMMA TailFacts ==
  ASSUME NEW p, IsSeq(p), p # <<>>
  PROVE  /\ Head(p) = p[1] /\ Len(p) \in Nat \ {0} /\ IsSeq(Tail(p))
         /\ Len(Tail(p)) = Len(p) - 1
         /\ \A i \in 1..(Len(p) - 1) : Tail(p)[i] = p[i + 1]
<1>2. p \in Seq(Range(p))
  BY Zenon DEF IsSeq
<1> QED
  BY <1>2, SeqTail, AnySeq, Zenon

\* Two sequences of the same kind in a row.
LEMMA JoinFacts ==
  ASSUME NEW S, NEW x \in Seq(S), NEW y \in Seq(S)
  PROVE  /\ x \o y \in Seq(S) /\ Len(x) \in Nat /\ Len(y) \in Nat
         /\ Len(x \o y) = Len(x) + Len(y)
         /\ \A i \in 1..Len(x) : (x \o y)[i] = x[i]
         /\ \A i \in 1..Len(y) : (x \o y)[Len(x) + i] = y[i]
         /\ \A i \in 1..(Len(x) + Len(y)) :
              i \notin 1..Len(x) => i - Len(x) \in 1..Len(y) /\ (x \o y)[i] = y[i - Len(x)]
<1>1. /\ x \o y \in Seq(S) /\ Len(x) \in Nat /\ Len(y) \in Nat
      /\ Len(x \o y) = Len(x) + Len(y)
  OBVIOUS
<1>2. \A i \in 1..Len(x) : (x \o y)[i] = x[i]
  OBVIOUS
<1>3. \A i \in 1..Len(y) : (x \o y)[Len(x) + i] = y[i]
  OBVIOUS
<1>4. ASSUME NEW i \in 1..(Len(x) + Len(y)), i \notin 1..Len(x)
      PROVE  i - Len(x) \in 1..Len(y) /\ (x \o y)[i] = y[i - Len(x)]
  BY <1>4
<1> QED
  BY <1>1, <1>2, <1>3, <1>4, Zenon

\* The elements of two sequences in a row.
LEMMA ConcatFacts ==
  ASSUME NEW p, NEW q, IsSeq(p), IsSeq(q)
  PROVE  /\ IsSeq(p \o q) /\ Len(p) \in Nat /\ Len(q) \in Nat
         /\ Len(p \o q) = Len(p) + Len(q)
         /\ \A i \in 1..Len(p) : (p \o q)[i] = p[i]
         /\ \A i \in 1..Len(q) : (p \o q)[Len(p) + i] = q[i]
         /\ \A i \in 1..(Len(p) + Len(q)) :
              i \notin 1..Len(p) => i - Len(p) \in 1..Len(q) /\ (p \o q)[i] = q[i - Len(p)]
<1>2. PICK S : S = Range(p) \cup Range(q)
  BY Zenon
<1>3. p \in Seq(S) /\ q \in Seq(S)
  BY <1>2 DEF IsSeq
<1>4. /\ p \o q \in Seq(S) /\ Len(p) \in Nat /\ Len(q) \in Nat
      /\ Len(p \o q) = Len(p) + Len(q)
      /\ \A i \in 1..Len(p) : (p \o q)[i] = p[i]
      /\ \A i \in 1..Len(q) : (p \o q)[Len(p) + i] = q[i]
      /\ \A i \in 1..(Len(p) + Len(q)) :
           i \notin 1..Len(p) => i - Len(p) \in 1..Len(q) /\ (p \o q)[i] = q[i - Len(p)]
  BY <1>3, JoinFacts, Zenon
<1>5. IsSeq(p \o q)
  BY <1>4, AnySeq, Zenon
<1> QED
  BY <1>4, <1>5, Zenon

\* The first request is made: what it establishes is known from then on.
LEMMA OrderedTail ==
  ASSUME NEW p, IsSeq(p), p # <<>>, NEW K, Ordered(K, p), NEW L, K \subseteq L, Gives(Head(p)) \subseteq L
  PROVE  Ordered(L, Tail(p))
<1> SUFFICES ASSUME NEW i \in 1..Len(Tail(p)), NEW k \in Needs(Tail(p)[i]), k \notin L
             PROVE  \E j \in 1..(i - 1) : k \in Gives(Tail(p)[j])
  BY DEF Ordered
<1>1. i + 1 \in 1..Len(p) /\ Tail(p)[i] = p[i + 1]
  BY TailFacts
<1>2. PICK j \in 1..i : k \in Gives(p[j])
  BY <1>1 DEF Ordered
<1>3. j # 1
  BY <1>2, TailFacts
<1>4. j - 1 \in 1..(i - 1) /\ Tail(p)[j - 1] = p[j]
  BY <1>1, <1>3, TailFacts
<1> QED
  BY <1>2, <1>4

\* Knowing more, a program may ask no less.
LEMMA OrderedMore ==
  ASSUME NEW p, NEW K, Ordered(K, p), NEW L, K \subseteq L
  PROVE  Ordered(L, p)
BY Zenon DEF Ordered

\* A program may go on with what its beginning has established.
LEMMA OrderedConcat ==
  ASSUME NEW p, NEW q, IsSeq(p), IsSeq(q), NEW K,
         Ordered(K, p), Ordered(K \cup GivenIn(p), q)
  PROVE  Ordered(K, p \o q)
<1>0. /\ Len(p) \in Nat /\ Len(q) \in Nat /\ Len(p \o q) = Len(p) + Len(q)
      /\ \A i \in 1..Len(p) : (p \o q)[i] = p[i]
      /\ \A i \in 1..Len(q) : (p \o q)[Len(p) + i] = q[i]
      /\ \A i \in 1..(Len(p) + Len(q)) :
           i \notin 1..Len(p) => i - Len(p) \in 1..Len(q) /\ (p \o q)[i] = q[i - Len(p)]
  BY ConcatFacts
<1> SUFFICES ASSUME NEW i \in 1..(Len(p) + Len(q)), NEW k \in Needs((p \o q)[i]), k \notin K
             PROVE  \E j \in 1..(i - 1) : k \in Gives((p \o q)[j])
  BY <1>0, Zenon DEF Ordered
<1>1. CASE i \in 1..Len(p)
  <2>1. PICK j \in 1..(i - 1) : k \in Gives(p[j])
    BY <1>1, <1>0, Zenon DEF Ordered
  <2>2. j \in 1..Len(p)
    BY <1>1, <1>0
  <2> QED
    BY <2>1, <2>2, <1>0, Zenon
<1>2. CASE i \notin 1..Len(p)
  <2>1. i - Len(p) \in 1..Len(q) /\ k \in Needs(q[i - Len(p)])
    BY <1>2, <1>0, Zenon
  <2>2. CASE k \in GivenIn(p)
    <3>1. PICK j \in 1..Len(p) : k \in Gives(p[j])
      BY <2>2, Zenon DEF GivenIn
    <3>2. j \in 1..(i - 1)
      BY <1>2, <2>1, <1>0
    <3> QED
      BY <3>1, <3>2, <1>0, Zenon
  <2>3. CASE k \notin GivenIn(p)
    <3>1. PICK j \in 1..(i - Len(p) - 1) : k \in Gives(q[j])
      BY <2>1, <2>3, Zenon DEF Ordered
    <3>2. j \in 1..Len(q) /\ Len(p) + j \in 1..(i - 1)
      BY <1>2, <2>1, <1>0
    <3> QED
      BY <3>1, <3>2, <1>0, Zenon
  <2> QED
    BY <2>2, <2>3, Zenon
<1> QED
  BY <1>1, <1>2, Zenon

\* Both halves of a program establish something.
LEMMA GivenConcat ==
  ASSUME NEW p, NEW q, IsSeq(p), IsSeq(q)
  PROVE  GivenIn(p) \subseteq GivenIn(p \o q) /\ GivenIn(q) \subseteq GivenIn(p \o q)
<1>1. ASSUME NEW i \in 1..Len(p)
      PROVE  i \in 1..Len(p \o q) /\ (p \o q)[i] = p[i]
  BY ConcatFacts
<1>2. ASSUME NEW i \in 1..Len(q)
      PROVE  Len(p) + i \in 1..Len(p \o q) /\ (p \o q)[Len(p) + i] = q[i]
  BY ConcatFacts
<1> QED
  BY <1>1, <1>2, Zenon DEF GivenIn

\* A piece of a program, given K.
Piece(K, p) == IsSeq(p) /\ Ordered(K, p) /\ PagesApart(p) /\ NamesLists(p)

NoPages(p) == \A i \in 1..Len(p) : p[i].do # "pages"

\* Lists in a row stay apart when the second part pins the height of its own.
LEMMA ApartConcat ==
  ASSUME NEW p, NEW q, IsSeq(p), IsSeq(q), PagesApart(p), PagesApart(q),
         NoPages(p) \/ Ordered({}, q)
  PROVE  PagesApart(p \o q)
<1>0. /\ Len(p) \in Nat /\ Len(q) \in Nat /\ Len(p \o q) = Len(p) + Len(q)
      /\ \A i \in 1..Len(p) : (p \o q)[i] = p[i]
      /\ \A i \in 1..Len(q) : (p \o q)[Len(p) + i] = q[i]
      /\ \A i \in 1..(Len(p) + Len(q)) :
           i \notin 1..Len(p) => i - Len(p) \in 1..Len(q) /\ (p \o q)[i] = q[i - Len(p)]
  BY ConcatFacts
<1> SUFFICES ASSUME NEW i \in 1..(Len(p) + Len(q)), NEW j \in 1..(Len(p) + Len(q)), i < j,
                    (p \o q)[i].do = "pages", (p \o q)[j].do = "pages"
             PROVE  \E k \in (i + 1)..(j - 1) : (p \o q)[k].do = "pin"
  BY <1>0, Zenon DEF PagesApart
<1>1. CASE j \in 1..Len(p)
  <2>1. i \in 1..Len(p)
    BY <1>0, <1>1
  <2>a. p[i].do = "pages" /\ p[j].do = "pages"
    BY <1>0, <1>1, <2>1, Zenon
  <2>2. PICK k \in (i + 1)..(j - 1) : p[k].do = "pin"
    BY <1>1, <2>1, <2>a, Zenon DEF PagesApart
  <2>3. k \in 1..Len(p)
    BY <1>0, <1>1, <2>1
  <2> QED
    BY <1>0, <2>2, <2>3, Zenon
<1>2. CASE i \notin 1..Len(p)
  <2>1. j \notin 1..Len(p)
    BY <1>0, <1>2
  <2>2. i - Len(p) \in 1..Len(q) /\ j - Len(p) \in 1..Len(q) /\ i - Len(p) < j - Len(p)
    BY <1>0, <1>2, <2>1
  <2>3. q[i - Len(p)].do = "pages" /\ q[j - Len(p)].do = "pages"
    BY <1>0, <1>2, <2>1, Zenon
  <2>4. PICK k \in (i - Len(p) + 1)..(j - Len(p) - 1) : q[k].do = "pin"
    BY <2>2, <2>3, Zenon DEF PagesApart
  <2>5. k \in 1..Len(q) /\ Len(p) + k \in (i + 1)..(j - 1)
    BY <1>0, <2>2
  <2> QED
    BY <1>0, <2>4, <2>5, Zenon
<1>3. CASE i \in 1..Len(p) /\ j \notin 1..Len(p)
  <2>1. j - Len(p) \in 1..Len(q) /\ q[j - Len(p)].do = "pages" /\ p[i].do = "pages"
    BY <1>0, <1>3, Zenon
  <2>2. Ordered({}, q) /\ "pin" \in Needs(q[j - Len(p)])
    BY <1>3, <2>1, Zenon DEF NoPages, Needs
  <2>3. PICK k \in 1..(j - Len(p) - 1) : "pin" \in Gives(q[k])
    BY <2>1, <2>2, Zenon DEF Ordered
  <2>4. q[k].do = "pin"
    BY <2>3 DEF Gives
  <2>5. k \in 1..Len(q) /\ Len(p) + k \in (i + 1)..(j - 1)
    BY <1>0, <1>3, <2>1
  <2> QED
    BY <1>0, <2>4, <2>5, Zenon
<1> QED
  BY <1>1, <1>2, <1>3, Zenon

\* Two pieces in a row.
LEMMA PieceConcat ==
  ASSUME NEW K, NEW p, NEW q, Piece(K, p), Piece(K \cup GivenIn(p), q),
         NoPages(p) \/ Ordered({}, q)
  PROVE  Piece(K, p \o q)
<1>1. IsSeq(p) /\ IsSeq(q)
  BY Zenon DEF Piece
<1>2. Ordered(K, p \o q)
  BY <1>1, OrderedConcat, Zenon DEF Piece
<1>3. PagesApart(p \o q)
  BY <1>1, ApartConcat, Zenon DEF Piece
<1>4. IsSeq(p \o q)
  BY <1>1, ConcatFacts
<1>5. ASSUME NEW i \in 1..Len(p \o q)
      PROVE  \/ i \in 1..Len(p) /\ (p \o q)[i] = p[i]
             \/ i - Len(p) \in 1..Len(q) /\ (p \o q)[i] = q[i - Len(p)]
  BY <1>1, ConcatFacts
<1>6. NamesLists(p \o q)
  BY <1>5, Zenon DEF Piece, NamesLists
<1> QED
  BY <1>2, <1>3, <1>4, <1>6, Zenon DEF Piece

\* A single request.
LEMMA PieceOne ==
  ASSUME NEW K, NEW r, Needs(r) \subseteq K,
         r.do \in {"pages", "foreach"} => r.of \in Lists
  PROVE  Piece(K, <<r>>) /\ Gives(r) \subseteq GivenIn(<<r>>)
         /\ (r.do # "pages" => NoPages(<<r>>))
<1>0. <<r>> \in Seq({r}) /\ Len(<<r>>) = 1 /\ <<r>>[1] = r
  OBVIOUS
<1>1. IsSeq(<<r>>) /\ Len(<<r>>) = 1 /\ <<r>>[1] = r
  BY <1>0, AnySeq, Zenon
<1>2. \A i \in 1..1 : i = 1
  OBVIOUS
<1>3. 1 \in 1..1 /\ ~(1 < 1)
  OBVIOUS
<1>4. Ordered(K, <<r>>)
  BY <1>1, <1>2, Zenon DEF Ordered
<1>5. PagesApart(<<r>>)
  BY <1>1, <1>2, <1>3, Zenon DEF PagesApart
<1>6. NamesLists(<<r>>) /\ (r.do # "pages" => NoPages(<<r>>))
  BY <1>1, <1>2, Zenon DEF NamesLists, NoPages
<1>7. Gives(r) \subseteq GivenIn(<<r>>)
  BY <1>1, <1>3, Zenon DEF GivenIn, Gives
<1> QED
  BY <1>1, <1>4, <1>5, <1>6, <1>7, Zenon DEF Piece

\* A program that lists nothing and establishes G.
Plain(p, G) == Piece({}, p) /\ NoPages(p) /\ G \subseteq GivenIn(p)

\* A piece that relies on what a plain program establishes may follow it.
LEMMA PlainThen ==
  ASSUME NEW p, NEW G, Plain(p, G), NEW K, K \subseteq G, NEW q, Piece(K, q)
  PROVE  Piece({}, p \o q)
<1>1. K \subseteq {} \cup GivenIn(p)
  BY Zenon DEF Plain
<1>2. Piece({} \cup GivenIn(p), q)
  BY <1>1, OrderedMore, Zenon DEF Piece
<1> QED
  BY <1>2, PieceConcat, Zenon DEF Plain

\* Any two complete programs in a row.
LEMMA BothPieces ==
  ASSUME NEW p, NEW q, Piece({}, p), Piece({}, q)
  PROVE  Piece({}, p \o q)
<1>2. Ordered({}, q)
  BY Zenon DEF Piece
<1>3. Ordered({} \cup GivenIn(p), q)
  BY <1>2, Zenon DEF Ordered
<1>4. Piece({} \cup GivenIn(p), q)
  BY <1>3, Zenon DEF Piece
<1> QED
  BY <1>2, <1>4, PieceConcat, Zenon

\* Plain programs in a row are plain.
LEMMA PlainConcat ==
  ASSUME NEW p, NEW G, Plain(p, G), NEW K, K \subseteq G, NEW q, Piece(K, q), NoPages(q),
         NEW H, H \subseteq G \cup GivenIn(q)
  PROVE  Plain(p \o q, H)
<1>1. Piece({}, p \o q)
  BY PlainThen, Zenon
<1>2. IsSeq(p) /\ IsSeq(q)
  BY Zenon DEF Plain, Piece
<1>3. ASSUME NEW i \in 1..Len(p \o q)
      PROVE  \/ i \in 1..Len(p) /\ (p \o q)[i] = p[i]
             \/ i - Len(p) \in 1..Len(q) /\ (p \o q)[i] = q[i - Len(p)]
  BY <1>2, ConcatFacts
<1>4. NoPages(p \o q)
  BY <1>3, Zenon DEF Plain, NoPages
<1>5. GivenIn(p) \subseteq GivenIn(p \o q) /\ GivenIn(q) \subseteq GivenIn(p \o q)
  BY <1>2, GivenConcat, Zenon
<1> QED
  BY <1>1, <1>4, <1>5, Zenon DEF Plain

\* The requests, and what each of them needs and gives.
LEMMA RequestPiece ==
  ASSUME NEW do, NEW of, NEW each, NEW K,
         do \in {"read", "pages", "foreach"} => "pin" \in K,
         do = "canonical" => "repository" \in K,
         do = "send" /\ Located(of) => "canonical" \in K,
         do \in {"pages", "foreach"} => of \in Lists
  PROVE  /\ Piece(K, Request(do, of, each))
         /\ do # "pages" => NoPages(Request(do, of, each))
         /\ do = "pin" => "pin" \in GivenIn(Request(do, of, each))
         /\ do \in {"read", "latest"} /\ of = "repository" =>
              "repository" \in GivenIn(Request(do, of, each))
         /\ do = "canonical" => "canonical" \in GivenIn(Request(do, of, each))
<1>1. PICK r : r = [do |-> do, of |-> of, each |-> each]
  BY Zenon
<1>2. r.do = do /\ r.of = of
  BY <1>1
<1>3. Needs(r) \subseteq K
  BY <1>2, Zenon DEF Needs
<1>4. Request(do, of, each) = <<r>>
  BY <1>1, Zenon DEF Request
<1>5. Piece(K, <<r>>) /\ Gives(r) \subseteq GivenIn(<<r>>) /\ (r.do # "pages" => NoPages(<<r>>))
  BY <1>2, <1>3, PieceOne, Zenon
<1>6. /\ do = "pin" => "pin" \in Gives(r)
      /\ do \in {"read", "latest"} /\ of = "repository" => "repository" \in Gives(r)
      /\ do = "canonical" => "canonical" \in Gives(r)
  BY <1>2, Zenon DEF Gives
<1> QED
  BY <1>2, <1>4, <1>5, <1>6, Zenon

\* What the methods of the registry are made of.
LEMMA Parts ==
  /\ Plain(NewBackend, {}) /\ Plain(SnapshotBlockTag, {"pin"})
  /\ \A c : Piece({"pin"}, Read(c)) /\ NoPages(Read(c))
  /\ \A c \in Lists : \A each :
       /\ Piece({"pin"}, Pages(c, each))
       /\ Piece({"pin"}, ForEach(c, each)) /\ NoPages(ForEach(c, each))
  /\ \A c : Plain(Latest(c), {})
  /\ "repository" \in GivenIn(Read("repository")) /\ "repository" \in GivenIn(Latest("repository"))
  /\ Piece({"repository"}, Canonical) /\ NoPages(Canonical) /\ "canonical" \in GivenIn(Canonical)
  /\ \A f : Piece({"canonical"}, Send(f)) /\ NoPages(Send(f))
  /\ \A f : ~Located(f) => Plain(Send(f), {})
<1>1. Plain(NewBackend, {})
  BY RequestPiece DEF Plain, NewBackend
<1>2. Plain(SnapshotBlockTag, {"pin"})
  BY RequestPiece DEF Plain, SnapshotBlockTag
<1>3. \A c : Piece({"pin"}, Read(c)) /\ NoPages(Read(c))
  BY RequestPiece DEF Read
<1>4. \A c \in Lists : \A each :
       /\ Piece({"pin"}, Pages(c, each))
       /\ Piece({"pin"}, ForEach(c, each)) /\ NoPages(ForEach(c, each))
  BY RequestPiece DEF Pages, ForEach
<1>5. \A c : Plain(Latest(c), {})
  BY RequestPiece DEF Latest, Plain
<1>6. "repository" \in GivenIn(Read("repository")) /\ "repository" \in GivenIn(Latest("repository"))
  BY RequestPiece DEF Read, Latest
<1>7. Piece({"repository"}, Canonical) /\ NoPages(Canonical) /\ "canonical" \in GivenIn(Canonical)
  BY RequestPiece DEF Canonical
<1>8. \A f : Piece({"canonical"}, Send(f)) /\ NoPages(Send(f))
  BY RequestPiece DEF Send
<1>9. \A f : ~Located(f) => Plain(Send(f), {})
  BY RequestPiece DEF Send, Plain
<1> QED
  BY <1>1, <1>2, <1>3, <1>4, <1>5, <1>6, <1>7, <1>8, <1>9, Zenon

-----------------------------------------------------------------------------
(* The programs keep to the order                                          *)

\* A repository is resolved at a pinned height, by whoever reads it.
LEMMA ResolveRepoPlain == Plain(ResolveRepo, {"pin", "repository"})
<1>1. {"pin"} \subseteq {"pin"} /\ {"pin", "repository"} \subseteq {"pin"} \cup GivenIn(Read("repository"))
  BY Parts, Zenon
<1>2. Plain(SnapshotBlockTag \o Read("repository"), {"pin", "repository"})
  BY <1>1, Parts, PlainConcat, Zenon
<1>3. /\ {"pin"} \subseteq {"pin", "repository"}
      /\ {"pin", "repository"} \subseteq {"pin", "repository"} \cup GivenIn(Read("status"))
  BY Zenon
<1> QED
  BY <1>2, <1>3, Parts, PlainConcat, Zenon DEF ResolveRepo

\* A write has checked the locator.
LEMMA RepoForWritePlain == Plain(RepoForWrite, {"canonical"})
<1>1. {} \subseteq {"repository"} /\ {"repository"} \subseteq {} \cup GivenIn(Latest("repository"))
  BY Parts, Zenon
<1>2. Plain(Latest("repository"), {"repository"})
  BY <1>1, Parts, Zenon DEF Plain
<1>3. Piece({}, Latest("status")) /\ NoPages(Latest("status"))
  BY Parts, Zenon DEF Plain
<1>4. Plain(Latest("repository") \o Latest("status"), {"repository"})
  BY <1>2, <1>3, PlainConcat
<1>5. /\ {"repository"} \subseteq {"repository"}
      /\ {"canonical"} \subseteq {"repository"} \cup GivenIn(Canonical)
  BY Parts, Zenon
<1>6. Piece({"repository"}, Canonical) /\ NoPages(Canonical)
  BY Parts, Zenon
<1>7. Plain(Latest("repository") \o Latest("status") \o Canonical, {"canonical"})
  BY <1>4, <1>5, <1>6, PlainConcat
<1> QED
  BY <1>7, Zenon DEF RepoForWrite

\* The methods that write, whatever function they call.
LEMMA WritesArePieces == \A f : Plain(RepoForWrite \o Send(f), {"canonical"})
<1> TAKE f
<1>1. {"canonical"} \subseteq {"canonical"} /\ {"canonical"} \subseteq {"canonical"} \cup GivenIn(Send(f))
  BY Zenon
<1> QED
  BY <1>1, Parts, RepoForWritePlain, PlainConcat, Zenon

\* The methods that read after they have resolved the repository.
LEMMA ReadsArePieces ==
  /\ \A c : Plain(ResolveRepo \o Read(c), {"pin", "repository"})
  /\ \A c : Plain(SnapshotBlockTag \o Read(c), {"pin"})
  /\ \A c \in Lists : \A each :
       /\ Piece({}, ResolveRepo \o Pages(c, each))
       /\ Piece({}, SnapshotBlockTag \o Pages(c, each))
<1>1. \A G : G \subseteq G /\ \A q : G \subseteq G \cup GivenIn(q)
  BY Zenon
<1>2. {"pin"} \subseteq {"pin"} /\ {"pin"} \subseteq {"pin", "repository"}
  BY Zenon
<1>3. \A c : Plain(ResolveRepo \o Read(c), {"pin", "repository"})
  BY <1>1, <1>2, Parts, ResolveRepoPlain, PlainConcat, Zenon
<1>4. \A c : Plain(SnapshotBlockTag \o Read(c), {"pin"})
  BY <1>1, <1>2, Parts, PlainConcat, Zenon
<1>5. \A c \in Lists : \A each : Piece({}, ResolveRepo \o Pages(c, each))
  BY <1>2, Parts, ResolveRepoPlain, PlainThen, Zenon
<1>6. \A c \in Lists : \A each : Piece({}, SnapshotBlockTag \o Pages(c, each))
  BY <1>2, Parts, PlainThen, Zenon
<1> QED
  BY <1>3, <1>4, <1>5, <1>6, Zenon

\* The functions that name no repository, or that work through its old locator.
LEMMA UnlocatedCalls ==
  /\ \A f \in {"acceptOwnershipTransfer", "expireOwnershipTransfer", "createRepository",
               "registerArtifact"} : ~Located(f)
  /\ \A x \in UsernameCalls \cup ReportCalls : Piece({}, x)
<1>1. \A f : Send(f)[1].of = f
  BY DEF Send, Request
<1>2. \A f \in {"registerUsername", "claimOriginalUsername", "releaseUsername", "resolveReport",
                "resolveAppeal", "appealReport"} : Send(f) \in UsernameCalls \cup ReportCalls
  BY Zenon DEF UsernameCalls, ReportCalls
<1>3. \A f \in {"registerUsername", "claimOriginalUsername", "releaseUsername", "resolveReport",
                "resolveAppeal", "appealReport"} : ~Located(f)
  BY <1>1, <1>2, Zenon DEF Located, Unlocated
<1>4. \A x \in UsernameCalls \cup ReportCalls :
        \E f \in {"registerUsername", "claimOriginalUsername", "releaseUsername", "resolveReport",
                  "resolveAppeal", "appealReport"} : x = Send(f)
  BY Zenon DEF UsernameCalls, ReportCalls
<1>5. \A f : ~Located(f) => Piece({}, Send(f))
  BY Parts, Zenon DEF Plain
<1>6. \A x \in UsernameCalls \cup ReportCalls : Piece({}, x)
  BY <1>3, <1>4, <1>5, Zenon
<1>7. \A f \in {"acceptOwnershipTransfer", "expireOwnershipTransfer", "createRepository",
                "registerArtifact"} : ~Located(f)
  BY Zenon DEF Located, Unlocated, ThroughAlias
<1> QED
  BY <1>6, <1>7, Zenon

\* The other methods.
LEMMA MethodsArePieces ==
  /\ Piece({}, CreateRepo) /\ Piece({}, AcceptOwnership) /\ Piece({}, ExpireOwnershipTransfer)
  /\ Piece({}, RegisterRelease) /\ Piece({}, ModerationReport) /\ Piece({}, SponsorTotals)
  /\ \A b \in BOOLEAN : Piece({}, OwnershipSecurity(b))
  /\ Piece({"repository"}, BeginOwnershipTransfer) /\ Piece({"repository"}, CancelOwnershipTransfer)
<1>0. /\ {"pin"} \subseteq {"pin"} /\ {"pin"} \subseteq {"pin", "repository"}
      /\ \A G : G \subseteq G /\ \A q : G \subseteq G \cup GivenIn(q)
  BY Zenon
<1>1. \A f : ~Located(f) => Piece({}, Send(f))
  BY Parts, Zenon DEF Plain
<1>2. Piece({}, CreateRepo) /\ Piece({}, AcceptOwnership) /\ Piece({}, ExpireOwnershipTransfer)
  BY <1>1, UnlocatedCalls, Zenon DEF CreateRepo, AcceptOwnership, ExpireOwnershipTransfer
<1>3. Piece({}, RegisterRelease)
  BY <1>1, UnlocatedCalls, BothPieces, Zenon DEF RegisterRelease
<1>4. Piece({}, ModerationReport)
  <2>1. Plain(SnapshotBlockTag \o Read("report"), {"pin"})
    BY ReadsArePieces, Zenon
  <2>2. Plain(SnapshotBlockTag \o Read("report") \o Read("repository"), {"pin"})
    BY <1>0, <2>1, Parts, PlainConcat, Zenon
  <2>3. Piece({"pin"}, Pages("trail", ""))
    BY Parts, Zenon DEF Lists
  <2> QED
    BY <1>0, <2>2, <2>3, PlainThen, Zenon DEF ModerationReport
<1>5. Piece({}, SponsorTotals)
  <2>1. Plain(ResolveRepo \o Read("denoms"), {"pin", "repository"})
    BY ReadsArePieces, Zenon
  <2>2. Piece({"pin"}, ForEach("denoms", "totals"))
    BY Parts, Zenon DEF Lists
  <2> QED
    BY <1>0, <2>1, <2>2, PlainThen, Zenon DEF SponsorTotals
<1>6. ASSUME NEW b \in BOOLEAN PROVE Piece({}, OwnershipSecurity(b))
  <2>1. Plain(ResolveRepo \o Read("transfer"), {"pin", "repository"})
    BY ReadsArePieces, Zenon
  <2>2. Plain(ResolveRepo \o Read("transfer") \o Read("guardians"), {"pin", "repository"})
    BY <1>0, <2>1, Parts, PlainConcat, Zenon
  <2>3. Plain(ResolveRepo \o Read("transfer") \o Read("guardians") \o Read("proposal"), {"pin", "repository"})
    BY <1>0, <2>2, Parts, PlainConcat, Zenon
  <2>4. Piece({"pin"}, ForEach("guardians", "approvals"))
    BY Parts, Zenon DEF Lists
  <2>5. Piece({"pin"}, <<>>)
    <3>1. <<>> \in Seq({}) /\ Len(<<>>) = 0 /\ 1..0 = {}
      OBVIOUS
    <3>2. IsSeq(<<>>)
      BY <3>1, AnySeq, Zenon
    <3> QED
      BY <3>1, <3>2, Zenon DEF Piece, Ordered, PagesApart, NamesLists
  <2>6. Piece({"pin"}, IF b THEN ForEach("guardians", "approvals") ELSE <<>>)
    BY <2>4, <2>5, Zenon
  <2> QED
    BY <1>0, <2>3, <2>6, PlainThen, Zenon DEF OwnershipSecurity
<1>7. \A f : Piece({"repository"}, Canonical \o Send(f))
  <2> TAKE f
  <2>1. Piece({"repository"}, Canonical) /\ NoPages(Canonical)
    BY Parts, Zenon
  <2>2. Ordered({"repository"} \cup GivenIn(Canonical), Send(f))
    <3>1. Ordered({"canonical"}, Send(f))
      BY Parts, Zenon DEF Piece
    <3>2. {"canonical"} \subseteq {"repository"} \cup GivenIn(Canonical)
      BY Parts, Zenon
    <3> QED
      BY <3>1, <3>2, OrderedMore, Zenon
  <2>3. Piece({"repository"} \cup GivenIn(Canonical), Send(f))
    BY <2>2, Parts, Zenon DEF Piece
  <2> QED
    BY <2>1, <2>3, PieceConcat, Zenon
<1>8. Piece({"repository"}, BeginOwnershipTransfer) /\ Piece({"repository"}, CancelOwnershipTransfer)
  BY <1>7, Zenon DEF BeginOwnershipTransfer, CancelOwnershipTransfer
<1> QED
  BY <1>2, <1>3, <1>4, <1>5, <1>6, <1>8, Zenon

\* One of some beginnings, followed by one of some ends.
LEMMA EachMember ==
  ASSUME NEW P, NEW M, NEW x \in Each(P, M)
  PROVE  \E p \in P, m \in M : x = p \o m
BY DEF Each

\* Every beginning may be followed by every end.
LEMMA EachPieces ==
  ASSUME NEW P, NEW M, \A p \in P : Piece({}, p), \A m \in M : Piece({}, m)
  PROVE  \A x \in Each(P, M) : Piece({}, x)
<1> TAKE x \in Each(P, M)
<1>1. PICK p \in P, m \in M : x = p \o m
  BY EachMember
<1> QED
  BY <1>1, BothPieces, Zenon

\* Plain programs in a row, the first of which need not establish anything.
LEMMA PlainAgain ==
  ASSUME NEW p, Plain(p, {}), NEW q, NEW G, Plain(q, G)
  PROVE  Plain(p \o q, G)
<1>1. IsSeq(p) /\ IsSeq(q) /\ NoPages(p) /\ NoPages(q)
  BY Zenon DEF Plain, Piece
<1>2. Piece({}, p \o q)
  BY BothPieces, Zenon DEF Plain
<1>3. G \subseteq GivenIn(p \o q)
  BY <1>1, GivenConcat, Zenon DEF Plain
<1>4. ASSUME NEW i \in 1..Len(p \o q)
      PROVE  \/ i \in 1..Len(p) /\ (p \o q)[i] = p[i]
             \/ i - Len(p) \in 1..Len(q) /\ (p \o q)[i] = q[i - Len(p)]
  BY <1>1, ConcatFacts
<1>5. NoPages(p \o q)
  BY <1>1, <1>4, Zenon DEF NoPages
<1> QED
  BY <1>2, <1>3, <1>5, Zenon DEF Plain

\* The methods that need nothing before them.
LEMMA OwnPieces ==
  /\ Piece({}, NewBackend) /\ Piece({}, ResolveRepo) /\ Piece({}, ListRepos) /\ Piece({}, ListRefs)
  /\ Piece({}, ResolveRef) /\ Piece({}, ListCollaborators) /\ Piece({}, ResolveUsername)
  /\ Piece({}, AddressUsername) /\ Piece({}, PendingOwnershipTransfer) /\ Piece({}, RevenueSplits)
  /\ Piece({}, BadgesByRecipient) /\ Piece({}, BadgesByRepo) /\ Piece({}, ReleaseArtifacts)
  /\ Piece({}, ForkRepo) /\ Piece({}, UpdateRepoInfo) /\ Piece({}, UpdateRef) /\ Piece({}, DeleteRef)
  /\ Piece({}, SetCollaborator) /\ Piece({}, SetGuardians) /\ Piece({}, ProposeRecovery)
  /\ Piece({}, ApproveRecovery) /\ Piece({}, CancelRecovery) /\ Piece({}, AcceptRecovery)
  /\ Piece({}, SetModerationStatus) /\ Piece({}, SubmitModerationReport) /\ Piece({}, Sponsor)
  /\ Piece({}, SetRevenueSplits) /\ Piece({}, AwardBadge)
  /\ Piece({}, ResolveRepo \o Canonical)
<1>1. /\ Piece({}, NewBackend) /\ Piece({}, ResolveRepo)
      /\ \A c : Piece({}, ResolveRepo \o Read(c)) /\ Piece({}, SnapshotBlockTag \o Read(c))
      /\ \A f : Piece({}, RepoForWrite \o Send(f))
  BY Parts, ResolveRepoPlain, ReadsArePieces, WritesArePieces, Zenon DEF Plain
<1>2. \A c \in Lists : \A each :
        Piece({}, ResolveRepo \o Pages(c, each)) /\ Piece({}, SnapshotBlockTag \o Pages(c, each))
  BY ReadsArePieces, Zenon
<1>3. {"repositories", "refs", "collaborators", "badges", "artifacts"} \subseteq Lists
  BY Zenon DEF Lists
<1>4. /\ Piece({}, ListRepos) /\ Piece({}, ListRefs) /\ Piece({}, ListCollaborators)
      /\ Piece({}, BadgesByRecipient) /\ Piece({}, BadgesByRepo) /\ Piece({}, ReleaseArtifacts)
  BY <1>2, <1>3, Zenon DEF ListRepos, ListRefs, ListCollaborators, BadgesByRecipient, BadgesByRepo,
     ReleaseArtifacts
<1>5. /\ Piece({}, ResolveRef) /\ Piece({}, ResolveUsername) /\ Piece({}, AddressUsername)
      /\ Piece({}, PendingOwnershipTransfer) /\ Piece({}, RevenueSplits)
  BY <1>1, Zenon DEF ResolveRef, ResolveUsername, AddressUsername, PendingOwnershipTransfer,
     RevenueSplits
<1>6. /\ Piece({}, ForkRepo) /\ Piece({}, UpdateRepoInfo) /\ Piece({}, UpdateRef)
      /\ Piece({}, DeleteRef) /\ Piece({}, SetCollaborator) /\ Piece({}, SetGuardians)
      /\ Piece({}, ProposeRecovery) /\ Piece({}, ApproveRecovery) /\ Piece({}, CancelRecovery)
      /\ Piece({}, AcceptRecovery) /\ Piece({}, SetModerationStatus)
      /\ Piece({}, SubmitModerationReport) /\ Piece({}, Sponsor) /\ Piece({}, SetRevenueSplits)
      /\ Piece({}, AwardBadge)
  BY <1>1, Zenon DEF ForkRepo, UpdateRepoInfo, UpdateRef, DeleteRef, SetCollaborator, SetGuardians,
     ProposeRecovery, ApproveRecovery, CancelRecovery, AcceptRecovery, SetModerationStatus,
     SubmitModerationReport, Sponsor, SetRevenueSplits, AwardBadge
<1>7. {"repository"} \subseteq {"pin", "repository"}
  BY Zenon
<1>8. Piece({}, ResolveRepo \o Canonical)
  BY <1>7, ResolveRepoPlain, Parts, PlainThen, Zenon
<1> QED
  BY <1>1, <1>4, <1>5, <1>6, <1>8, Zenon

\* The commands that look at the transfer of a repository first.
LEMMA TransferPieces == \A x \in CmdTransfer : Piece({}, x)
<1>1. Plain(NewBackend, {}) /\ Plain(ResolveUsername, {"pin"})
  BY ReadsArePieces, Parts, Zenon DEF ResolveUsername
<1>2. Plain(NewBackend \o ResolveUsername, {"pin"})
  BY <1>1, PlainAgain, Zenon
<1>3. \A p \in ResolveRegistryOwner : Plain(p, {})
  BY <1>1, <1>2, Zenon DEF ResolveRegistryOwner, Plain
<1>4. \A p \in ResolveRegistryOwner : Plain(p \o ResolveRepo, {"pin", "repository"})
  BY <1>3, ResolveRepoPlain, PlainAgain, Zenon
<1>5. ASSUME NEW p \in Each(ResolveRegistryOwner, {ResolveRepo})
      PROVE  Plain(p, {"pin", "repository"})
  <2>1. PICK q \in ResolveRegistryOwner, m \in {ResolveRepo} : p = q \o m
    BY DEF Each
  <2> QED
    BY <1>4, <2>1, Zenon
<1>6. {"repository"} \subseteq {"pin", "repository"}
  BY Zenon
<1>7. ASSUME NEW p, Plain(p, {"pin", "repository"})
      PROVE  \A m \in {AcceptOwnership, RejectOwnershipTransfer, ExpireOwnershipTransfer,
                       PendingOwnershipTransfer, CancelOwnershipTransfer, BeginOwnershipTransfer} :
               Piece({}, p \o m)
  <2>1. Piece({}, p)
    BY <1>7, Zenon DEF Plain
  <2>2. /\ Piece({}, p \o AcceptOwnership) /\ Piece({}, p \o ExpireOwnershipTransfer)
        /\ Piece({}, p \o PendingOwnershipTransfer)
    BY <2>1, MethodsArePieces, OwnPieces, BothPieces, Zenon
  <2>3. Piece({}, p \o CancelOwnershipTransfer) /\ Piece({}, p \o BeginOwnershipTransfer)
    BY <1>6, <1>7, MethodsArePieces, PlainThen, Zenon
  <2> QED
    BY <2>2, <2>3, Zenon DEF RejectOwnershipTransfer
<1>8. Plain(NewBackend \o ResolveRepo, {"pin", "repository"})
  BY <1>4, Zenon DEF ResolveRegistryOwner
<1>9. ASSUME NEW P, \A p \in P : Plain(p, {"pin", "repository"}),
             NEW M \in SUBSET {AcceptOwnership, RejectOwnershipTransfer, ExpireOwnershipTransfer,
                               PendingOwnershipTransfer, CancelOwnershipTransfer,
                               BeginOwnershipTransfer}, NEW x \in Each(P, M)
      PROVE  Piece({}, x)
  <2>1. PICK p \in P, m \in M : x = p \o m
    BY EachMember
  <2> QED
    BY <1>7, <1>9, <2>1, Zenon
<1> QED
  BY <1>5, <1>8, <1>9, Zenon DEF CmdTransfer

\* Every command keeps to the order.
LEMMA ProgramsOrdered == \A p \in Programs : Piece({}, p)
<1>0. \A p \in ResolveRegistryOwner : Piece({}, p)
  BY OwnPieces, BothPieces, Zenon DEF ResolveRegistryOwner
<1>1. \A m : Piece({}, m) => Piece({}, NewBackend \o m)
  BY OwnPieces, BothPieces, Zenon
<1>2. /\ \A p \in CmdInit : Piece({}, p)
      /\ \A p \in CmdRepos : Piece({}, p)
      /\ \A p \in CmdRefs : Piece({}, p)
      /\ \A p \in CmdCollab : Piece({}, p)
      /\ \A p \in CmdRepo : Piece({}, p)
      /\ \A p \in CmdRelease : Piece({}, p)
  BY <1>1, OwnPieces, MethodsArePieces, Zenon DEF CmdInit, CmdRepos, CmdRefs, CmdCollab, CmdRepo,
     CmdRelease
<1>b. \A p \in {NewBackend} : Piece({}, p)
  BY OwnPieces, Zenon
<1>3. \A p \in CmdGuardians : Piece({}, p)
  <2>1. \A m \in {SetGuardians, ProposeRecovery, ApproveRecovery, CancelRecovery, AcceptRecovery}
                   \cup {OwnershipSecurity(b) : b \in BOOLEAN} : Piece({}, m)
    BY OwnPieces, MethodsArePieces, Zenon
  <2> QED
    BY <1>b, <2>1, EachPieces, Zenon DEF CmdGuardians
<1>4. \A p \in CmdMod : Piece({}, p)
  <2>1. \A m \in {SubmitModerationReport, ModerationReport, SetModerationStatus} \cup ReportCalls :
          Piece({}, m)
    BY OwnPieces, MethodsArePieces, UnlocatedCalls, Zenon
  <2> QED
    BY <1>b, <2>1, EachPieces, Zenon DEF CmdMod
<1>5. \A p \in CmdUsername : Piece({}, p)
  <2>1. \A m \in UsernameCalls \cup {AddressUsername, ResolveUsername} : Piece({}, m)
    BY OwnPieces, UnlocatedCalls, Zenon
  <2> QED
    BY <1>b, <2>1, EachPieces, Zenon DEF CmdUsername
<1>6. \A p \in Uncalled : Piece({}, p)
  <2>1. \A m \in {SponsorTotals, BadgesByRepo} : Piece({}, m)
    BY OwnPieces, MethodsArePieces, Zenon
  <2> QED
    BY <1>b, <2>1, EachPieces, Zenon DEF Uncalled
<1>7. /\ \A m \in {NewBackend \o Sponsor} : Piece({}, m)
      /\ \A m \in {NewBackend \o ForkRepo} : Piece({}, m)
      /\ \A m \in {NewBackend \o AwardBadge, NewBackend \o BadgesByRecipient} : Piece({}, m)
      /\ \A m \in {NewBackend \o SetRevenueSplits, NewBackend \o RevenueSplits} : Piece({}, m)
  BY <1>1, OwnPieces, Zenon
<1>8. /\ \A p \in CmdSponsor : Piece({}, p)
      /\ \A p \in CmdFork : Piece({}, p)
      /\ \A p \in CmdBadge : Piece({}, p)
      /\ \A p \in CmdSplits : Piece({}, p)
  BY <1>0, <1>7, EachPieces, Zenon DEF CmdSponsor, CmdFork, CmdBadge, CmdSplits
<1>9. Piece({}, ResolveRepo \o Canonical \o ListRefs)
  BY OwnPieces, BothPieces, Zenon
<1>10. \A p \in HelperRun : Piece({}, p)
  <2>1. \A m \in Each({ResolveRepo \o Canonical \o ListRefs}, {UpdateRef, DeleteRef}) : Piece({}, m)
    <3>1. /\ \A p \in {ResolveRepo \o Canonical \o ListRefs} : Piece({}, p)
          /\ \A m \in {UpdateRef, DeleteRef} : Piece({}, m)
      BY <1>9, OwnPieces, Zenon
    <3> QED
      BY <3>1, EachPieces, Zenon
  <2>2. \A m \in {ResolveRepo \o ListRefs, ResolveRef} : Piece({}, m)
    BY OwnPieces, BothPieces, Zenon
  <2> DEFINE M == Each({ResolveRepo \o Canonical \o ListRefs}, {UpdateRef, DeleteRef})
                    \cup {ResolveRepo \o ListRefs, ResolveRef}
  <2>3. \A m \in M : Piece({}, m)
    BY <2>1, <2>2, Zenon
  <2>4. \A x \in Each(ResolveRegistryOwner, M) : Piece({}, x)
    <3> HIDE DEF M
    <3> QED
      BY <1>0, <2>3, EachPieces, Zenon
  <2> QED
    BY <2>4, Zenon DEF HelperRun
<1>11. \A p \in CmdImport : Piece({}, p)
  <2>1. Piece({}, NewBackend \o CreateRepo)
    BY <1>1, MethodsArePieces, Zenon
  <2>2. Piece({}, NewBackend \o CreateRepo \o NewBackend)
    BY <2>1, OwnPieces, BothPieces, Zenon
  <2>3. Plain(NewBackend \o CreateRepo \o NewBackend, {})
    <3>1. Plain(NewBackend, {}) /\ Plain(CreateRepo, {})
      BY Parts, UnlocatedCalls, Zenon DEF CreateRepo
    <3>2. Plain(NewBackend \o CreateRepo, {})
      BY <3>1, PlainAgain, Zenon
    <3> QED
      BY <3>1, <3>2, PlainAgain, Zenon
  <2>4. Plain(NewBackend \o CreateRepo \o NewBackend \o ResolveRepo, {"pin", "repository"})
    BY <2>3, ResolveRepoPlain, PlainAgain, Zenon
  <2>5. {"repository"} \subseteq {"pin", "repository"}
    BY Zenon
  <2>6. Piece({}, NewBackend \o CreateRepo \o NewBackend \o ResolveRepo \o Canonical)
    BY <2>4, <2>5, Parts, PlainThen, Zenon
  <2>7. Piece({}, NewBackend \o CreateRepo \o NewBackend \o ResolveRepo \o Canonical \o ListRefs)
    BY <2>6, OwnPieces, BothPieces, Zenon
  <2> QED
    BY <2>7, OwnPieces, BothPieces, Zenon DEF CmdImport
<1> QED
  BY <1>2, <1>3, <1>4, <1>5, <1>6, <1>8, <1>10, <1>11, TransferPieces, Zenon DEF Programs

-----------------------------------------------------------------------------
(* What is left of a program                                               *)

\* Nothing is left.
LEMMA EmptyRest ==
  /\ IsSeq(<<>>) /\ \A K : Ordered(K, <<>>)
  /\ PagesApart(<<>>) /\ NamesLists(<<>>) /\ ListsAhead(<<>>) = {}
<1>1. <<>> \in Seq({}) /\ Len(<<>>) = 0 /\ 1..0 = {}
  OBVIOUS
<1>2. IsSeq(<<>>)
  BY <1>1, AnySeq, Zenon
<1> QED
  BY <1>1, <1>2, Zenon DEF Ordered, PagesApart, NamesLists, ListsAhead, PagesAhead

\* The first request finds what it rests on.
LEMMA HeadNeeds ==
  ASSUME NEW p, IsSeq(p), p # <<>>, NEW K, Ordered(K, p)
  PROVE  Needs(Head(p)) \subseteq K
<1>1. 1 \in 1..Len(p) /\ Head(p) = p[1] /\ 1..(1 - 1) = {}
  BY TailFacts
<1> QED
  BY <1>1, Zenon DEF Ordered

\* A request that is neither a pin nor a list leaves the lists ahead alone, and
\* after a list there is none until the next pin.
LEMMA Consumed ==
  ASSUME NEW p, IsSeq(p), p # <<>>, PagesApart(p), NamesLists(p)
  PROVE  /\ IsSeq(Tail(p)) /\ PagesApart(Tail(p)) /\ NamesLists(Tail(p))
         /\ Head(p).do \notin {"pin", "pages"} => ListsAhead(Tail(p)) = ListsAhead(p)
         /\ Head(p).do = "pages" => ListsAhead(p) = {Head(p).of} /\ ListsAhead(Tail(p)) = {}
<1>0. /\ Head(p) = p[1] /\ Len(p) \in Nat \ {0} /\ IsSeq(Tail(p)) /\ Len(Tail(p)) = Len(p) - 1
      /\ \A i \in 1..(Len(p) - 1) : Tail(p)[i] = p[i + 1]
  BY TailFacts
<1>1. PagesApart(Tail(p))
  <2> SUFFICES ASSUME NEW i \in 1..(Len(p) - 1), NEW j \in 1..(Len(p) - 1), i < j,
                      Tail(p)[i].do = "pages", Tail(p)[j].do = "pages"
               PROVE  \E k \in (i + 1)..(j - 1) : Tail(p)[k].do = "pin"
    BY <1>0, Zenon DEF PagesApart
  <2>1. i + 1 \in 1..Len(p) /\ j + 1 \in 1..Len(p) /\ i + 1 < j + 1
    BY <1>0
  <2>a. p[i + 1].do = "pages" /\ p[j + 1].do = "pages"
    BY <1>0, Zenon
  <2>2. PICK k \in (i + 1 + 1)..(j + 1 - 1) : p[k].do = "pin"
    BY <2>1, <2>a DEF PagesApart
  <2>3. k - 1 \in (i + 1)..(j - 1) /\ k - 1 \in 1..(Len(p) - 1) /\ k - 1 + 1 = k
    BY <1>0, <2>1
  <2> QED
    BY <1>0, <2>2, <2>3, Zenon
<1>2. NamesLists(Tail(p))
  <2>1. \A i \in 1..(Len(p) - 1) : i + 1 \in 1..Len(p)
    BY <1>0
  <2> QED
    BY <1>0, <2>1, Zenon DEF NamesLists
<1>3. ASSUME Head(p).do # "pin", NEW i \in PagesAhead(Tail(p))
      PROVE  i + 1 \in PagesAhead(p) /\ Tail(p)[i] = p[i + 1]
  <2>1. i \in 1..(Len(p) - 1) /\ Tail(p)[i].do = "pages" /\ \A j \in 1..(i - 1) : Tail(p)[j].do # "pin"
    BY <1>0, <1>3, Zenon DEF PagesAhead
  <2>2. i + 1 \in 1..Len(p) /\ \A j \in 1..(i + 1 - 1) : j = 1 \/ (j - 1 \in 1..(i - 1) /\ j - 1 \in 1..(Len(p) - 1) /\ j - 1 + 1 = j)
    BY <1>0, <2>1
  <2>3. ASSUME NEW j \in 1..(i + 1 - 1) PROVE p[j].do # "pin"
    <3>1. CASE j = 1
      BY <1>0, <1>3, <3>1, Zenon
    <3>2. CASE j # 1
      <4>1. j - 1 \in 1..(i - 1) /\ j - 1 \in 1..(Len(p) - 1) /\ j - 1 + 1 = j
        BY <2>2, <3>2, Zenon
      <4>2. Tail(p)[j - 1] = p[j] /\ Tail(p)[j - 1].do # "pin"
        BY <1>0, <2>1, <4>1, Zenon
      <4> QED
        BY <4>2, Zenon
    <3> QED
      BY <3>1, <3>2, Zenon
  <2>4. Tail(p)[i] = p[i + 1]
    BY <1>0, <2>1, Zenon
  <2>5. p[i + 1].do = "pages"
    BY <2>1, <2>4, Zenon
  <2> QED
    BY <2>2, <2>3, <2>4, <2>5 DEF PagesAhead
<1>4. ASSUME NEW i \in PagesAhead(p), i # 1
      PROVE  /\ i - 1 \in PagesAhead(Tail(p)) /\ Tail(p)[i - 1] = p[i]
             /\ Head(p).do # "pages"
  <2>1. i \in 1..Len(p) /\ p[i].do = "pages" /\ \A j \in 1..(i - 1) : p[j].do # "pin"
    BY <1>4, Zenon DEF PagesAhead
  <2>2. /\ i - 1 \in 1..(Len(p) - 1) /\ i - 1 + 1 = i
        /\ \A j \in 1..(i - 1 - 1) : j + 1 \in 1..(i - 1) /\ j \in 1..(Len(p) - 1)
    BY <1>0, <1>4, <2>1
  <2>3. i - 1 \in PagesAhead(Tail(p)) /\ Tail(p)[i - 1] = p[i]
    BY <1>0, <2>1, <2>2, Zenon DEF PagesAhead
  <2>4. 1 \in 1..Len(p) /\ 1 < i /\ \A k \in (1 + 1)..(i - 1) : k \in 1..(i - 1)
    BY <1>0, <1>4, <2>1
  <2>5. Head(p).do # "pages"
    BY <1>0, <2>1, <2>4, Zenon DEF PagesApart
  <2> QED
    BY <2>3, <2>5, Zenon
<1>5. /\ 1 \in PagesAhead(p) => Head(p).do = "pages"
      /\ Head(p).do = "pages" => 1 \in PagesAhead(p)
  <2>1. 1 \in 1..Len(p) /\ 1..(1 - 1) = {}
    BY <1>0
  <2> QED
    BY <1>0, <2>1, Zenon DEF PagesAhead
<1>6. ASSUME NEW i \in PagesAhead(Tail(p)) PROVE i + 1 # 1
  BY DEF PagesAhead
<1>7. Head(p).do \notin {"pin", "pages"} => ListsAhead(Tail(p)) = ListsAhead(p)
  <2> HAVE Head(p).do \notin {"pin", "pages"}
  <2>1. ASSUME NEW x \in ListsAhead(Tail(p)) PROVE x \in ListsAhead(p)
    <3>1. PICK i \in PagesAhead(Tail(p)) : x = Tail(p)[i].of
      BY <2>1, Zenon DEF ListsAhead
    <3> QED
      BY <1>3, <3>1, Zenon DEF ListsAhead
  <2>2. ASSUME NEW x \in ListsAhead(p) PROVE x \in ListsAhead(Tail(p))
    <3>1. PICK i \in PagesAhead(p) : x = p[i].of
      BY <2>2, Zenon DEF ListsAhead
    <3>2. i # 1
      BY <1>5, Zenon
    <3> QED
      BY <1>4, <3>1, <3>2, Zenon DEF ListsAhead
  <2> QED
    BY <2>1, <2>2, Zenon
<1>8. ASSUME Head(p).do = "pages" PROVE ListsAhead(p) = {Head(p).of} /\ ListsAhead(Tail(p)) = {}
  <2>1. PagesAhead(p) = {1}
    BY <1>4, <1>5, <1>8, Zenon
  <2>2. PagesAhead(Tail(p)) = {}
    BY <1>3, <1>6, <1>8, <2>1, Zenon
  <2> QED
    BY <1>0, <2>1, <2>2, Zenon DEF ListsAhead
<1> QED
  BY <1>0, <1>1, <1>2, <1>7, <1>8, Zenon

\* Views of elements, inserted before what is left.
LEMMA ViewsFirst ==
  ASSUME NEW v, IsSeq(v), \A i \in 1..Len(v) : v[i].do = "read", NEW K, "pin" \in K,
         NEW p, IsSeq(p), Ordered(K, p), PagesApart(p), NamesLists(p)
  PROVE  /\ IsSeq(v \o p) /\ Ordered(K, v \o p) /\ PagesApart(v \o p) /\ NamesLists(v \o p)
         /\ ListsAhead(v \o p) = ListsAhead(p)
<1>0. /\ Len(v) \in Nat /\ Len(p) \in Nat /\ Len(v \o p) = Len(v) + Len(p)
      /\ \A i \in 1..Len(v) : (v \o p)[i] = v[i]
      /\ \A i \in 1..Len(p) : (v \o p)[Len(v) + i] = p[i]
      /\ \A i \in 1..(Len(v) + Len(p)) :
           i \notin 1..Len(v) => i - Len(v) \in 1..Len(p) /\ (v \o p)[i] = p[i - Len(v)]
  BY ConcatFacts
<1>1. Piece(K, v)
  <2>1. \A i \in 1..Len(v) : Needs(v[i]) \subseteq K
    BY Zenon DEF Needs
  <2> QED
    BY <2>1, Zenon DEF Piece, Ordered, PagesApart, NamesLists
<1>2. Ordered(K \cup GivenIn(v), p)
  BY OrderedMore, Zenon
<1>3. NoPages(v)
  BY Zenon DEF NoPages
<1>4. Piece(K, v \o p)
  BY <1>1, <1>2, <1>3, PieceConcat, Zenon DEF Piece
<1>5. ASSUME NEW i \in PagesAhead(v \o p)
      PROVE  i - Len(v) \in PagesAhead(p) /\ (v \o p)[i] = p[i - Len(v)]
  <2>1. /\ i \in 1..(Len(v) + Len(p)) /\ (v \o p)[i].do = "pages"
        /\ \A j \in 1..(i - 1) : (v \o p)[j].do # "pin"
    BY <1>0, <1>5, Zenon DEF PagesAhead
  <2>2. i \notin 1..Len(v)
    BY <1>0, <2>1, Zenon
  <2>3. i - Len(v) \in 1..Len(p) /\ (v \o p)[i] = p[i - Len(v)]
    BY <1>0, <2>1, <2>2, Zenon
  <2>4. \A j \in 1..(i - Len(v) - 1) : j \in 1..Len(p) /\ Len(v) + j \in 1..(i - 1)
    BY <1>0, <2>1, <2>3
  <2> QED
    BY <1>0, <2>1, <2>3, <2>4, ZenonT(30) DEF PagesAhead
<1>6. ASSUME NEW i \in PagesAhead(p)
      PROVE  Len(v) + i \in PagesAhead(v \o p) /\ (v \o p)[Len(v) + i] = p[i]
  <2>1. i \in 1..Len(p) /\ p[i].do = "pages" /\ \A j \in 1..(i - 1) : p[j].do # "pin"
    BY <1>6, Zenon DEF PagesAhead
  <2>2. /\ Len(v) + i \in 1..(Len(v) + Len(p))
        /\ \A j \in 1..(Len(v) + i - 1) : j \in 1..(Len(v) + Len(p))
        /\ \A j \in 1..(Len(v) + i - 1) : j - Len(v) \in 1..Len(p) => j - Len(v) \in 1..(i - 1)
    BY <1>0, <2>1
  <2>3. \A j \in 1..(Len(v) + i - 1) : (v \o p)[j].do # "pin"
    BY <1>0, <2>1, <2>2, Zenon
  <2>4. (v \o p)[Len(v) + i] = p[i]
    BY <1>0, <2>1, Zenon
  <2>5. (v \o p)[Len(v) + i].do = "pages"
    BY <2>1, <2>4, Zenon
  <2> QED
    BY <1>0, <2>2, <2>3, <2>4, <2>5 DEF PagesAhead
<1>7. ListsAhead(v \o p) = ListsAhead(p)
  <2>1. ASSUME NEW x \in ListsAhead(v \o p) PROVE x \in ListsAhead(p)
    <3>1. PICK i \in PagesAhead(v \o p) : x = (v \o p)[i].of
      BY <2>1, Zenon DEF ListsAhead
    <3> QED
      BY <1>5, <3>1, Zenon DEF ListsAhead
  <2>2. ASSUME NEW x \in ListsAhead(p) PROVE x \in ListsAhead(v \o p)
    <3>1. PICK i \in PagesAhead(p) : x = p[i].of
      BY <2>2, Zenon DEF ListsAhead
    <3> QED
      BY <1>6, <3>1, Zenon DEF ListsAhead
  <2> QED
    BY <2>1, <2>2, Zenon
<1> QED
  BY <1>4, <1>7, Zenon DEF Piece

-----------------------------------------------------------------------------
(* The invariant is preserved                                              *)

\* Every command starts with nothing seen.
LEMMA ClientInvInit == ClientInit => ClientInv
<1> SUFFICES ASSUME ClientInit PROVE ClientInv
  OBVIOUS
<1>1. PICK active \in 0..1, version \in 0..1 : blocks = <<FirstBlock(active, version)>>
  BY Zenon DEF ClientInit
<1>2. PICK b : b = FirstBlock(active, version)
  BY Zenon
<1>3. b \in [Cells -> Nat]
  BY <1>2 DEF FirstBlock
<1>4. \A c \in Lists : c \in Cells /\ c # "suite" /\ c # "repository"
  BY Zenon DEF Cells, Lists
<1>5. \A c \in Lists : b[c] = 0
  BY <1>2, <1>4 DEF FirstBlock
<1>6. blocks = <<b>>
  BY <1>1, <1>2, Zenon
<1>7. blocks \in Seq([Cells -> Nat]) /\ Height = 1 /\ blocks[1] = b
  BY <1>3, <1>6 DEF Height
<1>8. /\ todo = program /\ program \in Programs /\ directory \in Directories
      /\ info = 0 /\ tag = 0 /\ answer = {} /\ listing = "" /\ listed = <<>> /\ sent = <<>>
  BY Zenon DEF ClientInit
<1>9. Piece({}, todo)
  BY <1>8, ProgramsOrdered, Zenon
<1>10. /\ 1 \in 1..MaxBlocks /\ 0 \in 0..1 /\ 0 \in 0..(1 - 1) /\ \A h \in 1..1 : h = 1
       /\ <<>> \in Seq(Nat) /\ Len(<<>>) = 0 /\ 1..0 = {}
  BY ClientAssumption
<1>11. ClientTyped
  BY <1>5, <1>7, <1>8, <1>9, <1>10, EmptyRest, Zenon DEF ClientTyped, Piece
<1>12. TodoOrdered
  BY <1>9, Zenon DEF TodoOrdered, Piece, Ordered
<1>13. ListExact /\ AnswerExact /\ SentLocated /\ SuiteKnown
  BY <1>8, <1>10, Zenon DEF ListExact, AnswerExact, SentLocated, SuiteKnown
<1> QED
  BY <1>11, <1>12, <1>13, Zenon DEF ClientInv

\* While the chain, the pin and the resolved repository stay, so does what is seen.
LEMMA SeenStays ==
  ASSUME UNCHANGED <<blocks, tag, resolved>>
  PROVE  /\ Seen' = Seen /\ CanonicalOnce' = CanonicalOnce /\ Height' = Height /\ Newest' = Newest
         /\ \A list : Current(list)' = Current(list)
BY Zenon DEF Seen, CanonicalOnce, Height, Newest, Current

\* A command that stops keeps what it had.
LEMMA StopKeeps ==
  ASSUME ClientInv, todo' = <<>>, outcome' # "ok",
         UNCHANGED <<blocks, directory, info, tag, answer, listing, listed, resolved, sent>>
  PROVE  ClientInv'
<1>1. /\ Seen' = Seen /\ CanonicalOnce' = CanonicalOnce /\ Height' = Height /\ Newest' = Newest
      /\ \A list : Current(list)' = Current(list)
  BY SeenStays, Zenon
<1>2. ClientTyped'
  BY <1>1, EmptyRest, Zenon DEF ClientInv, ClientTyped
<1>3. TodoOrdered'
  BY EmptyRest, Zenon DEF TodoOrdered
<1>4. ListExact'
  <2>1. ListsAhead(todo') = {}
    BY EmptyRest, Zenon
  <2> QED
    BY <1>1, <2>1, Zenon DEF ClientInv, ListExact
<1>5. AnswerExact' /\ SentLocated' /\ SuiteKnown'
  BY <1>1, Zenon DEF ClientInv, AnswerExact, SentLocated, SuiteKnown
<1> QED
  BY <1>2, <1>3, <1>4, <1>5, Zenon DEF ClientInv

\* A request is done: what is left keeps to the order with what is now seen.
LEMMA RestOrdered ==
  ASSUME ClientInv, todo # <<>>, todo' = Tail(todo), Seen \subseteq Seen', Gives(Next1) \subseteq Seen'
  PROVE  IsSeq(todo') /\ TodoOrdered'
<1>1. IsSeq(todo) /\ Ordered(Seen, todo) /\ PagesApart(todo) /\ NamesLists(todo)
  BY Zenon DEF ClientInv, ClientTyped, TodoOrdered
<1>2. IsSeq(Tail(todo)) /\ PagesApart(Tail(todo)) /\ NamesLists(Tail(todo))
  BY <1>1, Consumed
<1>3. Ordered(Seen', Tail(todo))
  BY <1>1, OrderedTail, Zenon DEF Next1
<1> QED
  BY <1>2, <1>3, Zenon DEF TodoOrdered

\* The list that is read stays as it is while something else is asked.
LEMMA ListStays ==
  ASSUME ClientInv, todo # <<>>, todo' = Tail(todo), Next1.do \notin {"pin", "pages"},
         UNCHANGED <<blocks, tag, listing, listed, outcome>>
  PROVE  ListExact'
<1>1. IsSeq(todo) /\ PagesApart(todo) /\ NamesLists(todo)
  BY Zenon DEF ClientInv, ClientTyped, TodoOrdered
<1>2. ListsAhead(todo') = ListsAhead(todo)
  BY <1>1, Consumed DEF Next1
<1>3. \A list : Current(list)' = Current(list)
  BY Zenon DEF Current
<1> QED
  BY <1>2, <1>3, Zenon DEF ClientInv, ListExact

\* Somebody else's block adds to the chain and changes nothing of the blocks before.
LEMMA NewBlockKeeps == ClientInv /\ NewBlock => ClientInv'
<1> SUFFICES ASSUME ClientInv, NewBlock PROVE ClientInv'
  OBVIOUS
<1>1. /\ Height < MaxBlocks
      /\ UNCHANGED <<directory, todo, info, tag, answer, listing, listed, resolved, sent, outcome>>
  BY Zenon DEF NewBlock
<1>2. PICK S : /\ "suite" \in S => ~Active(Newest)
               /\ blocks' = Append(blocks, [c \in Cells |-> Newest[c] + (IF c \in S THEN 1 ELSE 0)])
  BY Zenon DEF NewBlock
<1>3. PICK b : b = [c \in Cells |-> Newest[c] + (IF c \in S THEN 1 ELSE 0)]
  BY Zenon
<1>4. /\ blocks \in Seq([Cells -> Nat]) /\ Height \in 1..MaxBlocks
      /\ \A h \in 1..Height, c \in Lists : blocks[h][c] \in 0..(h - 1)
      /\ tag \in 0..Height /\ MaxBlocks \in Nat
  BY ClientAssumption, Zenon DEF ClientInv, ClientTyped
<1>5. Newest \in [Cells -> Nat]
  BY <1>4 DEF Newest, Height
<1>6. b \in [Cells -> Nat] /\ \A c \in Cells : b[c] \in {Newest[c], Newest[c] + 1}
  BY <1>3, <1>5
<1>7. Active(Newest) => Active(b)
  <2>1. "suite" \in Cells
    BY Zenon DEF Cells
  <2> QED
    BY <1>2, <1>3, <1>5, <2>1 DEF Active
<1>8. blocks' = Append(blocks, b)
  BY <1>2, <1>3, Zenon
<1>9. /\ blocks' \in Seq([Cells -> Nat]) /\ Height' = Height + 1
      /\ \A h \in 1..Height : blocks'[h] = blocks[h]
      /\ blocks'[Height + 1] = b /\ Newest' = b
  BY <1>4, <1>6, <1>8 DEF Height, Newest
<1>10. /\ Height' \in 1..MaxBlocks /\ tag' \in 0..Height' /\ Height \in 1..Height
       /\ \A h \in 1..Height : h \in 1..Height'
       /\ \A h \in 1..Height' : h \in 1..Height \/ h = Height + 1
       /\ tag # 0 => tag \in 1..Height
  BY <1>1, <1>4, <1>9
<1>11. ASSUME NEW c \in Lists PROVE b[c] \in 0..((Height + 1) - 1)
  <2>1. c \in Cells
    BY Zenon DEF Cells
  <2>2. Newest[c] \in 0..(Height - 1)
    BY <1>4, <1>10, Zenon DEF Newest
  <2> QED
    BY <1>4, <1>6, <2>1, <2>2
<1>12. ClientTyped'
  <2>1. \A h \in 1..Height', c \in Lists : blocks'[h][c] \in 0..(h - 1)
    BY <1>4, <1>9, <1>10, <1>11, Zenon
  <2> QED
    BY <1>1, <1>9, <1>10, <2>1, Zenon DEF ClientInv, ClientTyped
<1>13. CanonicalOnce => CanonicalOnce'
  BY <1>9, <1>10, Zenon DEF CanonicalOnce
<1>14. Seen \subseteq Seen'
  BY <1>1, <1>9, <1>10, <1>13, Zenon DEF Seen
<1>15. TodoOrdered'
  BY <1>1, <1>14, OrderedMore, Zenon DEF ClientInv, TodoOrdered
<1>16. tag # 0 => blocks'[tag] = blocks[tag]
  BY <1>9, <1>10, Zenon
<1>17. ListExact'
  <2>1. tag # 0 => \A list : Current(list)' = Current(list)
    BY <1>1, <1>16, Zenon DEF Current
  <2> QED
    BY <1>1, <2>1, Zenon DEF ClientInv, ListExact
<1>18. AnswerExact' /\ SentLocated' /\ SuiteKnown'
  BY <1>1, <1>7, <1>9, <1>13, <1>16, Zenon DEF ClientInv, AnswerExact, SentLocated, SuiteKnown
<1> QED
  BY <1>12, <1>15, <1>17, <1>18, Zenon DEF ClientInv

\* A new registry has verified nothing, and forgets nothing it has seen.
LEMMA ConstructKeeps == ClientInv /\ Construct => ClientInv'
<1> SUFFICES ASSUME ClientInv, Construct PROVE ClientInv'
  OBVIOUS
<1>1. /\ todo # <<>> /\ Next1.do = "backend" /\ todo' = Tail(todo) /\ info' = 0
      /\ UNCHANGED <<blocks, directory, tag, answer, listing, listed, resolved, sent, outcome>>
  BY Zenon DEF Construct, Asks
<1>2. /\ Seen' = Seen /\ CanonicalOnce' = CanonicalOnce /\ Height' = Height /\ Newest' = Newest
  BY <1>1, SeenStays, Zenon
<1>3. Gives(Next1) = {}
  BY <1>1, Zenon DEF Gives
<1>4. IsSeq(todo') /\ TodoOrdered'
  BY <1>1, <1>2, <1>3, RestOrdered, Zenon
<1>5. ListExact'
  BY <1>1, ListStays, Zenon
<1>6. ClientTyped' /\ AnswerExact' /\ SentLocated' /\ SuiteKnown'
  BY <1>1, <1>2, <1>4, Zenon DEF ClientInv, ClientTyped, AnswerExact, SentLocated, SuiteKnown
<1> QED
  BY <1>4, <1>5, <1>6, Zenon DEF ClientInv

\* Only the active suite of the profile is verified.
LEMMA EnsureVerifiedKeeps == ClientInv /\ EnsureVerified => ClientInv'
<1> SUFFICES ASSUME ClientInv, EnsureVerified PROVE ClientInv'
  OBVIOUS
<1>1. UNCHANGED <<blocks, directory, tag, answer, listing, listed, resolved, sent>>
  BY Zenon DEF EnsureVerified
<1>2. CASE VerifySuite(directory, Newest)
  <2>1. UNCHANGED <<todo, outcome>>
    BY <1>2, Zenon DEF EnsureVerified
  <2>2. directory = Genuine /\ Active(Newest)
    BY <1>2, ClientAssumption, Zenon DEF VerifySuite, ClientInv, ClientTyped
  <2>3. /\ Seen' = Seen /\ CanonicalOnce' = CanonicalOnce /\ Height' = Height /\ Newest' = Newest
        /\ \A list : Current(list)' = Current(list)
    BY <1>1, SeenStays, Zenon
  <2>4. ClientTyped' /\ TodoOrdered' /\ AnswerExact' /\ SentLocated'
    BY <1>1, <2>1, <2>3, Zenon DEF ClientInv, ClientTyped, TodoOrdered, AnswerExact, SentLocated
  <2>5. ListExact'
    BY <1>1, <2>1, <2>3, Zenon DEF ClientInv, ListExact
  <2>6. SuiteKnown'
    BY <1>1, <2>2, <2>3, Zenon DEF SuiteKnown
  <2> QED
    BY <2>4, <2>5, <2>6, Zenon DEF ClientInv
<1>3. CASE ~VerifySuite(directory, Newest)
  <2>1. todo' = <<>> /\ outcome' = "unverified" /\ UNCHANGED info
    BY <1>3, Zenon DEF EnsureVerified, Stop
  <2>2. outcome' # "ok"
    BY <2>1, Zenon
  <2> QED
    BY <1>1, <2>1, <2>2, StopKeeps, Zenon
<1> QED
  BY <1>2, <1>3, Zenon

\* A query starts over at the newest height.
LEMMA PinBlockKeeps == ClientInv /\ PinBlock => ClientInv'
<1> SUFFICES ASSUME ClientInv, PinBlock PROVE ClientInv'
  OBVIOUS
<1>1. /\ todo # <<>> /\ Next1.do = "pin" /\ todo' = Tail(todo)
      /\ tag' = Height /\ answer' = {} /\ listing' = "" /\ listed' = <<>>
      /\ UNCHANGED <<blocks, directory, info, resolved, sent, outcome>>
  BY Zenon DEF PinBlock, Asks
<1>2. /\ Height' = Height /\ Newest' = Newest /\ CanonicalOnce' = CanonicalOnce
  BY <1>1, Zenon DEF Height, Newest, CanonicalOnce
<1>3. Height \in 1..MaxBlocks /\ MaxBlocks \in Nat
  BY ClientAssumption, Zenon DEF ClientInv, ClientTyped
<1>4. Height # 0 /\ Height \in 0..Height /\ <<>> \in Seq(Nat)
  BY <1>3
<1>5. Seen \subseteq Seen' /\ "pin" \in Seen'
  BY <1>1, <1>2, <1>4, Zenon DEF Seen
<1>6. Gives(Next1) \subseteq {"pin"}
  BY <1>1, Zenon DEF Gives
<1>7. Gives(Next1) \subseteq Seen'
  BY <1>5, <1>6, Zenon
<1>8. IsSeq(todo') /\ TodoOrdered'
  BY <1>1, <1>5, <1>7, RestOrdered, Zenon
<1>9. ClientTyped'
  BY <1>1, <1>2, <1>4, <1>8, Zenon DEF ClientInv, ClientTyped
<1>10. ListExact' /\ AnswerExact' /\ SentLocated' /\ SuiteKnown'
  BY <1>1, <1>2, Zenon DEF ClientInv, ListExact, AnswerExact, SentLocated, SuiteKnown
<1> QED
  BY <1>8, <1>9, <1>10, Zenon DEF ClientInv

\* A view is of the pinned height; the repository it resolves is one of the chain.
LEMMA ReadViewKeeps == ClientInv /\ ReadView => ClientInv'
<1> SUFFICES ASSUME ClientInv, ReadView PROVE ClientInv'
  OBVIOUS
<1> DEFINE version == blocks[tag][Next1.of]
<1>1. /\ todo # <<>> /\ Next1.do = "read" /\ todo' = Tail(todo) /\ info # 0
      /\ answer' = answer \cup {<<Next1.of, version>>}
      /\ resolved' = IF Next1.of = "repository" THEN version ELSE resolved
      /\ UNCHANGED <<blocks, directory, info, tag, listing, listed, sent, outcome>>
  BY Zenon DEF ReadView, Asks, Verified, ViewHeight, Resolve
<1>2. /\ Height' = Height /\ Newest' = Newest /\ CanonicalOnce' = CanonicalOnce
  BY <1>1, Zenon DEF Height, Newest, CanonicalOnce
<1>3. IsSeq(todo) /\ Ordered(Seen, todo) /\ tag \in 0..Height /\ Height \in 1..MaxBlocks
  BY Zenon DEF ClientInv, ClientTyped, TodoOrdered
<1>4. Needs(Next1) \subseteq Seen /\ "pin" \in Needs(Next1)
  BY <1>1, <1>3, HeadNeeds, Zenon DEF Next1, Needs
<1>5. tag # 0
  BY <1>4, Zenon DEF Seen
<1>6. tag \in 1..Height
  BY <1>3, <1>5, ClientAssumption
<1>7. Next1.of = "repository" => "repository" \in Seen'
  BY <1>1, <1>2, <1>6, Zenon DEF Seen
<1>8. Seen \subseteq Seen'
  BY <1>1, <1>2, <1>7, Zenon DEF Seen
<1>9. Gives(Next1) \subseteq Seen'
  BY <1>1, <1>7, Zenon DEF Gives
<1>10. IsSeq(todo') /\ TodoOrdered'
  BY <1>1, <1>8, <1>9, RestOrdered, Zenon
<1>11. ListExact'
  BY <1>1, ListStays, Zenon
<1>12. AnswerExact'
  <2>1. <<Next1.of, version>>[1] = Next1.of /\ <<Next1.of, version>>[2] = version
    OBVIOUS
  <2>2. \A a \in answer' : a \in answer \/ (a[1] = Next1.of /\ a[2] = version)
    BY <1>1, <2>1, Zenon
  <2> QED
    BY <1>1, <1>5, <2>2, Zenon DEF ClientInv, AnswerExact
<1>13. ClientTyped' /\ SentLocated' /\ SuiteKnown'
  BY <1>1, <1>2, <1>10, Zenon DEF ClientInv, ClientTyped, SentLocated, SuiteKnown
<1> QED
  BY <1>10, <1>11, <1>12, <1>13, Zenon DEF ClientInv

\* A view of the newest block only finds the repository.
LEMMA ReadLatestKeeps == ClientInv /\ ReadLatest => ClientInv'
<1> SUFFICES ASSUME ClientInv, ReadLatest PROVE ClientInv'
  OBVIOUS
<1>1. /\ todo # <<>> /\ Next1.do = "latest" /\ todo' = Tail(todo)
      /\ resolved' = IF Next1.of = "repository" THEN Newest[Next1.of] ELSE resolved
      /\ UNCHANGED <<blocks, directory, info, tag, answer, listing, listed, sent, outcome>>
  BY Zenon DEF ReadLatest, Asks, Resolve
<1>2. /\ Height' = Height /\ Newest' = Newest /\ CanonicalOnce' = CanonicalOnce
  BY <1>1, Zenon DEF Height, Newest, CanonicalOnce
<1>3. Height \in 1..MaxBlocks /\ MaxBlocks \in Nat
  BY ClientAssumption, Zenon DEF ClientInv, ClientTyped
<1>4. Height \in 1..Height
  BY <1>3
<1>7. Next1.of = "repository" => "repository" \in Seen'
  BY <1>1, <1>2, <1>4, Zenon DEF Seen, Newest
<1>8. Seen \subseteq Seen'
  BY <1>1, <1>2, <1>7, Zenon DEF Seen
<1>9. Gives(Next1) \subseteq Seen'
  BY <1>1, <1>7, Zenon DEF Gives
<1>10. IsSeq(todo') /\ TodoOrdered'
  BY <1>1, <1>8, <1>9, RestOrdered, Zenon
<1>11. ListExact'
  BY <1>1, ListStays, Zenon
<1>13. ClientTyped' /\ AnswerExact' /\ SentLocated' /\ SuiteKnown'
  BY <1>1, <1>2, <1>10, Zenon DEF ClientInv, ClientTyped, AnswerExact, SentLocated, SuiteKnown
<1> QED
  BY <1>10, <1>11, <1>13, Zenon DEF ClientInv

\* The locator is checked against a repository that some block of the chain held.
LEMMA RequireCanonicalKeeps == ClientInv /\ RequireCanonical => ClientInv'
<1> SUFFICES ASSUME ClientInv, RequireCanonical PROVE ClientInv'
  OBVIOUS
<1>1. /\ todo # <<>> /\ Next1.do = "canonical"
      /\ UNCHANGED <<blocks, directory, info, tag, answer, listing, listed, resolved, sent>>
  BY Zenon DEF RequireCanonical, Asks
<1>2. CASE IsCanonical(resolved)
  <2>1. todo' = Tail(todo) /\ UNCHANGED outcome
    BY <1>2, Zenon DEF RequireCanonical
  <2>2. /\ Seen' = Seen /\ CanonicalOnce' = CanonicalOnce /\ Height' = Height /\ Newest' = Newest
    BY <1>1, SeenStays, Zenon
  <2>3. IsSeq(todo) /\ Ordered(Seen, todo)
    BY Zenon DEF ClientInv, ClientTyped, TodoOrdered
  <2>4. Needs(Next1) \subseteq Seen /\ "repository" \in Needs(Next1)
    BY <1>1, <2>3, HeadNeeds, Zenon DEF Next1, Needs
  <2>5. PICK h \in 1..Height : resolved = blocks[h]["repository"]
    BY <2>4, Zenon DEF Seen
  <2>6. CanonicalOnce
    BY <1>2, <2>5, Zenon DEF CanonicalOnce
  <2>7. Gives(Next1) \subseteq Seen'
    BY <1>1, <2>2, <2>6, Zenon DEF Gives, Seen
  <2>8. IsSeq(todo') /\ TodoOrdered'
    BY <1>1, <2>1, <2>2, <2>7, RestOrdered, Zenon
  <2>9. ListExact'
    BY <1>1, <2>1, ListStays, Zenon
  <2>10. ClientTyped' /\ AnswerExact' /\ SentLocated' /\ SuiteKnown'
    BY <1>1, <2>2, <2>8, Zenon DEF ClientInv, ClientTyped, AnswerExact, SentLocated, SuiteKnown
  <2> QED
    BY <2>8, <2>9, <2>10, Zenon DEF ClientInv
<1>3. CASE ~IsCanonical(resolved)
  <2>1. todo' = <<>> /\ outcome' = "moved"
    BY <1>3, Zenon DEF RequireCanonical, Stop
  <2>2. outcome' # "ok"
    BY <2>1, Zenon
  <2> QED
    BY <1>1, <2>1, <2>2, StopKeeps, Zenon
<1> QED
  BY <1>2, <1>3, Zenon

\* A transaction that names a repository follows the check of its locator.
LEMMA SendTransactionKeeps == ClientInv /\ SendTransaction => ClientInv'
<1> SUFFICES ASSUME ClientInv, SendTransaction PROVE ClientInv'
  OBVIOUS
<1>1. /\ todo # <<>> /\ Next1.do = "send" /\ info # 0 /\ todo' = Tail(todo)
      /\ sent' = Append(sent, Next1.of)
      /\ UNCHANGED <<blocks, directory, info, tag, answer, listing, listed, resolved, outcome>>
  BY Zenon DEF SendTransaction, Asks, Verified
<1>2. /\ Seen' = Seen /\ CanonicalOnce' = CanonicalOnce /\ Height' = Height /\ Newest' = Newest
  BY <1>1, SeenStays, Zenon
<1>3. IsSeq(todo) /\ Ordered(Seen, todo) /\ IsSeq(sent)
  BY Zenon DEF ClientInv, ClientTyped, TodoOrdered
<1>4. Gives(Next1) = {}
  BY <1>1, Zenon DEF Gives
<1>5. IsSeq(todo') /\ TodoOrdered'
  BY <1>1, <1>2, <1>4, RestOrdered, Zenon
<1>6. ListExact'
  BY <1>1, ListStays, Zenon
<1>7. Located(Next1.of) => CanonicalOnce
  <2>1. Needs(Next1) \subseteq Seen
    BY <1>1, <1>3, HeadNeeds, Zenon DEF Next1
  <2>2. Located(Next1.of) => "canonical" \in Needs(Next1)
    BY <1>1, Zenon DEF Needs
  <2>3. "canonical" \in Seen => CanonicalOnce
    BY DEF Seen
  <2> QED
    BY <2>1, <2>2, <2>3, Zenon
<1>8. /\ IsSeq(sent')
      /\ \A i \in 1..Len(sent') : sent'[i] = Next1.of \/ (i \in 1..Len(sent) /\ sent'[i] = sent[i])
  <2>1. PICK f : f = Next1.of
    BY Zenon
  <2>2. PICK S : S = Range(sent) \cup {f}
    BY Zenon
  <2>3. sent \in Seq(S) /\ f \in S
    BY <1>3, <2>2 DEF IsSeq
  <2>4. /\ Append(sent, f) \in Seq(S)
        /\ \A i \in 1..Len(Append(sent, f)) :
             Append(sent, f)[i] = f \/ (i \in 1..Len(sent) /\ Append(sent, f)[i] = sent[i])
    BY <2>3
  <2> QED
    BY <1>1, <2>1, <2>4, AnySeq, Zenon
<1>9. SentLocated'
  BY <1>2, <1>7, <1>8, Zenon DEF ClientInv, SentLocated
<1>10. ClientTyped' /\ AnswerExact' /\ SuiteKnown'
  BY <1>1, <1>2, <1>5, <1>8, Zenon DEF ClientInv, ClientTyped, AnswerExact, SuiteKnown
<1> QED
  BY <1>5, <1>6, <1>9, <1>10, Zenon DEF ClientInv

\* A failed request stops the command or is made again.
LEMMA FailuresKeep == ClientInv /\ (RetryCall \/ CallFails) => ClientInv'
<1> SUFFICES ASSUME ClientInv, RetryCall \/ CallFails PROVE ClientInv'
  OBVIOUS
<1>1. /\ UNCHANGED <<blocks, directory, info, tag, answer, listing, listed, resolved, sent>>
      /\ UNCHANGED <<todo, outcome>> \/ (todo' = <<>> /\ outcome' = "failed")
  BY Zenon DEF RetryCall, CallFails, Stop
<1>2. CASE UNCHANGED <<todo, outcome>>
  <2>1. /\ Seen' = Seen /\ CanonicalOnce' = CanonicalOnce /\ Height' = Height /\ Newest' = Newest
        /\ \A list : Current(list)' = Current(list)
    BY <1>1, SeenStays, Zenon
  <2>2. ClientTyped' /\ TodoOrdered' /\ AnswerExact' /\ SentLocated' /\ SuiteKnown'
    BY <1>1, <1>2, <2>1, Zenon DEF ClientInv, ClientTyped, TodoOrdered, AnswerExact, SentLocated,
       SuiteKnown
  <2>3. ListExact'
    BY <1>1, <1>2, <2>1, Zenon DEF ClientInv, ListExact
  <2> QED
    BY <2>2, <2>3, Zenon DEF ClientInv
<1>3. CASE todo' = <<>> /\ outcome' = "failed"
  <2>1. outcome' # "ok"
    BY <1>3, Zenon
  <2> QED
    BY <1>1, <1>3, <2>1, StopKeeps, Zenon
<1> QED
  BY <1>1, <1>2, <1>3, Zenon

\* A slice of a list.
LEMMA SliceFacts ==
  ASSUME NEW S, NEW list \in Seq(S), NEW k \in Nat, NEW m \in Nat, k <= m, m <= Len(list)
  PROVE  /\ SubSeq(list, k + 1, m) \in Seq(S) /\ Len(SubSeq(list, k + 1, m)) = m - k
         /\ \A i \in 1..(m - k) : SubSeq(list, k + 1, m)[i] = list[k + i]
OBVIOUS

\* Sequences with the same elements are the same.
LEMMA SameSeq ==
  ASSUME NEW S, NEW p \in Seq(S), NEW q \in Seq(S), Len(p) = Len(q),
         \A i \in 1..Len(p) : p[i] = q[i]
  PROVE  p = q
OBVIOUS

\* A list continued by its next slice.
LEMMA SliceJoins ==
  ASSUME NEW S, NEW list \in Seq(S), NEW had \in Seq(S), NEW m \in Nat,
         Len(had) <= m, m <= Len(list), \A i \in 1..Len(had) : had[i] = list[i],
         NEW page \in Seq(S), Len(page) = m - Len(had),
         \A i \in 1..(m - Len(had)) : page[i] = list[Len(had) + i]
  PROVE  /\ had \o page \in Seq(S) /\ Len(had \o page) = m
         /\ \A i \in 1..m : (had \o page)[i] = list[i]
OBVIOUS

\* A page continues the list, and a short one completes it.
LEMMA PageExtends ==
  ASSUME NEW list \in Seq(Nat), NEW had \in Seq(Nat), Len(had) <= Len(list),
         \A i \in 1..Len(had) : had[i] = list[i]
  PROVE  LET page == Page(list, Len(had))
         IN  /\ page \in Seq(Nat) /\ had \o page \in Seq(Nat)
             /\ Len(had \o page) <= Len(list)
             /\ \A i \in 1..Len(had \o page) : (had \o page)[i] = list[i]
             /\ LastPage(page) => had \o page = list
<1>0. PageSize \in Nat \ {0} /\ Len(had) \in Nat /\ Len(list) \in Nat
  BY ClientAssumption
<1>1. PICK m \in Nat : /\ m = Min({Len(had) + PageSize, Len(list)})
                       /\ Len(had) <= m /\ m <= Len(list)
                       /\ m # Len(list) => m = Len(had) + PageSize
  <2>1. \A a, b \in Nat : a <= b => \A x \in {a, b} : a <= x
    OBVIOUS
  <2>2. \A a, b \in Nat : a <= b \/ b <= a
    OBVIOUS
  <2>3. Len(had) + PageSize \in Nat
    BY <1>0
  <2>4. \E x \in {Len(had) + PageSize, Len(list)} : \A y \in {Len(had) + PageSize, Len(list)} : x <= y
    BY <1>0, <2>1, <2>2, <2>3
  <2>5. LET m == Min({Len(had) + PageSize, Len(list)})
        IN  /\ m \in {Len(had) + PageSize, Len(list)}
            /\ \A y \in {Len(had) + PageSize, Len(list)} : m <= y
    BY <2>4, Zenon DEF Min
  <2> QED
    BY <1>0, <2>3, <2>5
<1>2. PICK page : page = Page(list, Len(had))
  BY Zenon
<1>3. page = SubSeq(list, Len(had) + 1, m)
  BY <1>1, <1>2, Zenon DEF Page
<1>4. /\ page \in Seq(Nat) /\ Len(page) = m - Len(had)
      /\ \A i \in 1..(m - Len(had)) : page[i] = list[Len(had) + i]
  <2>1. Len(had) <= m /\ m <= Len(list)
    BY <1>1, Zenon
  <2>2. /\ SubSeq(list, Len(had) + 1, m) \in Seq(Nat)
        /\ Len(SubSeq(list, Len(had) + 1, m)) = m - Len(had)
        /\ \A i \in 1..(m - Len(had)) : SubSeq(list, Len(had) + 1, m)[i] = list[Len(had) + i]
    BY <1>0, <2>1, SliceFacts
  <2> QED
    BY <1>3, <2>2, Zenon
<1>5. /\ had \o page \in Seq(Nat) /\ Len(had \o page) = m
      /\ \A i \in 1..m : (had \o page)[i] = list[i]
  <2>1. Len(had) <= m /\ m <= Len(list)
    BY <1>1, Zenon
  <2> QED
    BY <1>4, <2>1, SliceJoins
<1>6. ASSUME LastPage(page) PROVE had \o page = list
  <2>1. Len(page) < PageSize
    BY <1>0, <1>6 DEF LastPage
  <2>2. m = Len(list)
    BY <1>0, <1>1, <1>4, <2>1
  <2> QED
    BY <1>5, <2>2, SameSeq, Zenon
<1> QED
  BY <1>1, <1>2, <1>4, <1>5, <1>6, Zenon

\* The views of the elements of a page are views.
LEMMA ItemViewsRead ==
  ASSUME NEW page \in Seq(Nat), NEW each
  PROVE  IsSeq(ItemViews(page, each)) /\ \A i \in 1..Len(ItemViews(page, each)) :
           ItemViews(page, each)[i].do = "read"
<1>1. CASE each = ""
  <2>1. ItemViews(page, each) = <<>>
    BY <1>1, Zenon DEF ItemViews
  <2>2. Len(<<>>) = 0 /\ 1..0 = {}
    OBVIOUS
  <2> QED
    BY <2>1, <2>2, EmptyRest, Zenon
<1>2. CASE each # ""
  <2>1. PICK r : r = Read(each)[1]
    BY Zenon
  <2>2. r.do = "read"
    BY <2>1 DEF Read, Request
  <2>3. ItemViews(page, each) = [i \in 1..Len(page) |-> r]
    BY <1>2, <2>1, Zenon DEF ItemViews
  <2>4. /\ ItemViews(page, each) \in Seq({r})
        /\ \A i \in 1..Len(ItemViews(page, each)) : ItemViews(page, each)[i] = r
    BY <2>3
  <2> QED
    BY <2>2, <2>4, AnySeq, Zenon
<1> QED
  BY <1>1, <1>2, Zenon

\* A list at the pinned height.
LEMMA ListTyped ==
  ASSUME ClientInv, tag # 0, NEW c \in Lists
  PROVE  Current(c) \in Seq(Nat)
<1>1. /\ tag \in 0..Height /\ Height \in 1..MaxBlocks
      /\ \A h \in 1..Height, l \in Lists : blocks[h][l] \in 0..(h - 1)
  BY Zenon DEF ClientInv, ClientTyped
<1>2. MaxBlocks \in Nat /\ Contents \in [Lists -> [0..(MaxBlocks - 1) -> Seq(Nat)]]
  BY ClientAssumption
<1>3. tag \in 1..Height
  BY <1>1, <1>2
<1>4. blocks[tag][c] \in 0..(tag - 1)
  BY <1>1, <1>3, Zenon
<1>5. \A x \in 0..(tag - 1) : x \in 0..(MaxBlocks - 1)
  BY <1>1, <1>2, <1>3
<1>6. Contents[c] \in [0..(MaxBlocks - 1) -> Seq(Nat)]
  BY <1>2, Zenon
<1> QED
  BY <1>4, <1>5, <1>6, Zenon DEF Current

\* The list that the first request names, at the pinned height.
LEMMA NamedList ==
  ASSUME ClientInv, todo # <<>>, Next1.do \in {"pages", "foreach"}
  PROVE  /\ Next1.of \in Lists /\ "pin" \in Seen /\ tag # 0
         /\ Current(Next1.of) \in Seq(Nat)
<1>1. /\ IsSeq(todo) /\ Ordered(Seen, todo) /\ NamesLists(todo)
  BY Zenon DEF ClientInv, ClientTyped, TodoOrdered
<1>2. Needs(Next1) \subseteq Seen /\ "pin" \in Needs(Next1)
  BY <1>1, HeadNeeds, Zenon DEF Next1, Needs
<1>3. tag # 0
  BY <1>2, Zenon DEF Seen
<1>4. 1 \in 1..Len(todo) /\ Next1 = todo[1]
  BY <1>1, TailFacts DEF Next1
<1>5. Next1.of \in Lists
  BY <1>1, <1>4, Zenon DEF NamesLists
<1> QED
  BY <1>2, <1>3, <1>5, ListTyped, Zenon

\* A page is read where the last one ended, and the list is complete after the last.
LEMMA ReadPageKeeps == ClientInv /\ ReadPage => ClientInv'
<1> SUFFICES ASSUME ClientInv, ReadPage PROVE ClientInv'
  OBVIOUS
<1>0. /\ todo # <<>> /\ Next1.do = "pages" /\ info # 0
      /\ UNCHANGED <<blocks, directory, info, tag, resolved, sent>>
  BY Zenon DEF ReadPage, Asks, Verified
<1>1. Next1.of \in Lists /\ "pin" \in Seen /\ tag # 0 /\ Current(Next1.of) \in Seq(Nat)
  BY <1>0, NamedList, Zenon
<1>2. PICK list : list = Current(Next1.of)
  BY Zenon
<1>3. PICK page : page = Page(list, Len(listed))
  BY Zenon
<1>4. IF Len(listed) > Len(list)
      THEN todo' = <<>> /\ outcome' = "failed" /\ UNCHANGED <<answer, listing, listed>>
      ELSE /\ answer' = answer \cup {<<Next1.of, blocks[tag][Next1.of]>>}
           /\ listing' = Next1.of /\ listed' = listed \o page
           /\ todo' = ItemViews(page, Next1.each) \o (IF LastPage(page) THEN Tail(todo) ELSE todo)
           /\ UNCHANGED outcome
  BY <1>2, <1>3, Zenon DEF ReadPage, ViewHeight, Current, Stop
<1>5. IsSeq(todo) /\ PagesApart(todo) /\ NamesLists(todo) /\ Ordered(Seen, todo) /\ listed \in Seq(Nat)
  BY Zenon DEF ClientInv, ClientTyped, TodoOrdered
<1>6. /\ IsSeq(Tail(todo)) /\ PagesApart(Tail(todo)) /\ NamesLists(Tail(todo))
      /\ ListsAhead(todo) = {Next1.of} /\ ListsAhead(Tail(todo)) = {}
  BY <1>0, <1>5, Consumed DEF Next1
<1>7. Len(listed) <= Len(list) /\ \A i \in 1..Len(listed) : listed[i] = list[i]
  <2>1. CASE listing = ""
    <3>1. listed = <<>> /\ list \in Seq(Nat)
      BY <1>1, <1>2, <2>1, Zenon DEF ClientInv, ListExact
    <3> QED
      BY <3>1
  <2>2. CASE listing # ""
    <3>1. listing = Next1.of
      BY <1>6, <2>2, Zenon DEF ClientInv, ListExact
    <3> QED
      BY <1>2, <2>2, <3>1, Zenon DEF ClientInv, ListExact
  <2> QED
    BY <2>1, <2>2, Zenon
<1>8. /\ page \in Seq(Nat) /\ listed \o page \in Seq(Nat)
      /\ Len(listed \o page) <= Len(list)
      /\ \A i \in 1..Len(listed \o page) : (listed \o page)[i] = list[i]
      /\ LastPage(page) => listed \o page = list
  BY <1>1, <1>2, <1>3, <1>5, <1>7, PageExtends, Zenon
<1>9. ~(Len(listed) > Len(list))
  <2>1. Len(listed) \in Nat /\ Len(list) \in Nat
    BY <1>1, <1>2, <1>5
  <2> QED
    BY <1>7, <2>1
<1>10. /\ answer' = answer \cup {<<Next1.of, blocks[tag][Next1.of]>>}
       /\ listing' = Next1.of /\ listed' = listed \o page
       /\ todo' = ItemViews(page, Next1.each) \o (IF LastPage(page) THEN Tail(todo) ELSE todo)
       /\ UNCHANGED outcome
  BY <1>4, <1>9, Zenon
<1>11. /\ Seen' = Seen /\ CanonicalOnce' = CanonicalOnce /\ Height' = Height /\ Newest' = Newest
       /\ \A l : Current(l)' = Current(l)
  BY <1>0, SeenStays, Zenon
<1>12. PICK v : v = ItemViews(page, Next1.each)
  BY Zenon
<1>13. IsSeq(v) /\ \A i \in 1..Len(v) : v[i].do = "read"
  BY <1>8, <1>12, ItemViewsRead, Zenon
<1>14. PICK rest : rest = IF LastPage(page) THEN Tail(todo) ELSE todo
  BY Zenon
<1>15. Gives(Next1) = {}
  BY <1>0, Zenon DEF Gives
<1>16. Ordered(Seen, Tail(todo))
  BY <1>0, <1>5, <1>15, OrderedTail DEF Next1
<1>17. /\ IsSeq(rest) /\ Ordered(Seen, rest) /\ PagesApart(rest) /\ NamesLists(rest)
       /\ ListsAhead(rest) \subseteq {Next1.of} /\ (ListsAhead(rest) = {} => LastPage(page))
  BY <1>5, <1>6, <1>14, <1>16, Zenon
<1>18. todo' = v \o rest
  BY <1>10, <1>12, <1>14, Zenon
<1>19. /\ IsSeq(v \o rest) /\ Ordered(Seen, v \o rest) /\ PagesApart(v \o rest)
       /\ NamesLists(v \o rest) /\ ListsAhead(v \o rest) = ListsAhead(rest)
  BY <1>1, <1>13, <1>17, ViewsFirst, Zenon
<1>20. TodoOrdered'
  BY <1>11, <1>18, <1>19, Zenon DEF TodoOrdered
<1>21. ClientTyped'
  BY <1>0, <1>8, <1>10, <1>11, <1>18, <1>19, Zenon DEF ClientInv, ClientTyped
<1>22. ListExact'
  <2>2. listing' # ""
    BY <1>1, <1>10, Zenon DEF Lists
  <2>3. Current(listing)' = list
    BY <1>0, <1>2, <1>10, Zenon DEF Current
  <2> QED
    BY <1>0, <1>1, <1>8, <1>10, <1>17, <1>18, <1>19, <2>2, <2>3, Zenon DEF ListExact
<1>23. AnswerExact'
  <2>1. PICK x : x = <<Next1.of, blocks[tag][Next1.of]>>
    BY Zenon
  <2>2. x[1] = Next1.of /\ x[2] = blocks[tag][Next1.of]
    BY <2>1
  <2>3. \A a \in answer' : a \in answer \/ a = x
    BY <1>10, <2>1, Zenon
  <2> QED
    BY <1>0, <1>1, <2>2, <2>3, Zenon DEF ClientInv, AnswerExact
<1>24. SentLocated' /\ SuiteKnown'
  BY <1>0, <1>11, Zenon DEF ClientInv, SentLocated, SuiteKnown
<1> QED
  BY <1>20, <1>21, <1>22, <1>23, <1>24, Zenon DEF ClientInv

\* The views of a list that was read in one piece are views of the pinned height.
LEMMA UnrollKeeps == ClientInv /\ Unroll => ClientInv'
<1> SUFFICES ASSUME ClientInv, Unroll PROVE ClientInv'
  OBVIOUS
<1>0. /\ todo # <<>> /\ Next1.do = "foreach"
      /\ UNCHANGED <<blocks, directory, info, tag, answer, listing, listed, resolved, sent, outcome>>
      /\ todo' = ItemViews(Current(Next1.of), Next1.each) \o Tail(todo)
  BY Zenon DEF Unroll, Asks, Current
<1>1. "pin" \in Seen /\ Current(Next1.of) \in Seq(Nat)
  BY <1>0, NamedList, Zenon
<1>2. PICK v : v = ItemViews(Current(Next1.of), Next1.each)
  BY Zenon
<1>3. IsSeq(v) /\ \A i \in 1..Len(v) : v[i].do = "read"
  BY <1>1, <1>2, ItemViewsRead, Zenon
<1>4. IsSeq(todo) /\ PagesApart(todo) /\ NamesLists(todo) /\ Ordered(Seen, todo)
  BY Zenon DEF ClientInv, ClientTyped, TodoOrdered
<1>5. /\ IsSeq(Tail(todo)) /\ PagesApart(Tail(todo)) /\ NamesLists(Tail(todo))
      /\ ListsAhead(Tail(todo)) = ListsAhead(todo)
  BY <1>0, <1>4, Consumed DEF Next1
<1>6. Gives(Next1) = {}
  BY <1>0, Zenon DEF Gives
<1>7. Ordered(Seen, Tail(todo))
  BY <1>0, <1>4, <1>6, OrderedTail DEF Next1
<1>8. PICK rest : rest = Tail(todo)
  BY Zenon
<1>9. /\ IsSeq(v \o rest) /\ Ordered(Seen, v \o rest) /\ PagesApart(v \o rest)
      /\ NamesLists(v \o rest) /\ ListsAhead(v \o rest) = ListsAhead(rest)
  BY <1>1, <1>3, <1>5, <1>7, <1>8, ViewsFirst, Zenon
<1>10. todo' = v \o rest
  BY <1>0, <1>2, <1>8, Zenon
<1>11. /\ Seen' = Seen /\ CanonicalOnce' = CanonicalOnce /\ Height' = Height /\ Newest' = Newest
       /\ \A l : Current(l)' = Current(l)
  BY <1>0, SeenStays, Zenon
<1>12. TodoOrdered'
  BY <1>9, <1>10, <1>11, Zenon DEF TodoOrdered
<1>13. ListExact'
  <2>1. ListsAhead(todo') = ListsAhead(todo)
    BY <1>5, <1>8, <1>9, <1>10, Zenon
  <2> QED
    BY <1>0, <1>11, <2>1, Zenon DEF ClientInv, ListExact
<1>14. ClientTyped' /\ AnswerExact' /\ SentLocated' /\ SuiteKnown'
  BY <1>0, <1>9, <1>10, <1>11, Zenon DEF ClientInv, ClientTyped, AnswerExact, SentLocated, SuiteKnown
<1> QED
  BY <1>12, <1>13, <1>14, Zenon DEF ClientInv

\* Every step of the command and of the chain keeps the invariant.
LEMMA ClientInvNext == ClientInv /\ [ClientNext]_clientVars => ClientInv'
<1>1. ClientInv /\ UNCHANGED clientVars => ClientInv'
  <2> SUFFICES ASSUME ClientInv, UNCHANGED clientVars PROVE ClientInv'
    OBVIOUS
  <2>0. UNCHANGED <<blocks, directory, todo, info, tag, answer, listing, listed, resolved, sent, outcome>>
    BY Zenon DEF clientVars
  <2>1. /\ Seen' = Seen /\ CanonicalOnce' = CanonicalOnce /\ Height' = Height /\ Newest' = Newest
        /\ \A list : Current(list)' = Current(list)
    BY <2>0, SeenStays, Zenon
  <2>2. ClientTyped' /\ TodoOrdered' /\ AnswerExact' /\ SentLocated' /\ SuiteKnown'
    BY <2>0, <2>1, Zenon DEF ClientInv, ClientTyped, TodoOrdered, AnswerExact, SentLocated, SuiteKnown
  <2>3. ListExact'
    BY <2>0, <2>1, Zenon DEF ClientInv, ListExact
  <2> QED
    BY <2>2, <2>3, Zenon DEF ClientInv
<1> QED
  BY <1>1, NewBlockKeeps, ConstructKeeps, EnsureVerifiedKeeps, PinBlockKeeps, ReadViewKeeps,
     ReadLatestKeeps, ReadPageKeeps, UnrollKeeps, RequireCanonicalKeeps, SendTransactionKeeps,
     FailuresKeep, Zenon DEF ClientNext, Client

-----------------------------------------------------------------------------
(* The theorems                                                            *)

\* The invariant of the client.
THEOREM ClientInvariant == ClientSpec => []ClientInv
  BY ClientInvInit, ClientInvNext, PTL DEF ClientSpec

\* What a query of the registry (ListRefs, ListRepos, ResolveRepo...) has read is
\* the state of one block, whatever the other accounts do in between, and a list
\* that was read to its end is complete, for lists and pages of any size.
THEOREM ClientQueriesExact == ClientSpec => []QueriesExact
<1>1. ClientInv => QueriesExact
  <2> SUFFICES ASSUME ClientInv PROVE QueriesExact
    OBVIOUS
  <2>0. tag \in 0..Height /\ listed \in Seq(Nat) /\ Height \in Nat
    BY ClientAssumption DEF ClientInv, ClientTyped
  <2>1. ASSUME answer # {}
        PROVE  \E h \in 1..Height :
                 /\ \A a \in answer : blocks[h][a[1]] = a[2]
                 /\ listing # "" =>
                      LET list == Contents[listing][blocks[h][listing]]
                      IN  \E n \in 0..Len(list) : listed = SubSeq(list, 1, n)
    <3>1. tag # 0 /\ \A a \in answer : blocks[tag][a[1]] = a[2]
      BY <2>1, Zenon DEF ClientInv, AnswerExact
    <3>2. tag \in 1..Height
      BY <2>0, <3>1
    <3>3. ASSUME listing # ""
          PROVE  \E n \in 0..Len(Current(listing)) : listed = SubSeq(Current(listing), 1, n)
      <4>1. PICK list : list = Current(listing)
        BY Zenon
      <4>2. /\ Len(listed) <= Len(list) /\ \A i \in 1..Len(listed) : listed[i] = list[i]
        BY <3>3, <4>1, Zenon DEF ClientInv, ListExact
      <4>3. list \in Seq(Nat)
        BY <3>1, <3>3, <4>1, ListTyped, Zenon DEF ClientInv, ListExact
      <4>4. Len(listed) \in 0..Len(list) /\ listed = SubSeq(list, 1, Len(listed))
        BY <2>0, <4>2, <4>3
      <4> QED
        BY <4>1, <4>4, Zenon
    <3> QED
      BY <3>1, <3>2, <3>3, Zenon DEF Current
  <2>2. listing # "" /\ todo = <<>> /\ outcome = "ok" =>
          listed = Contents[listing][blocks[tag][listing]]
    BY EmptyRest, Zenon DEF ClientInv, ListExact, Current
  <2> QED
    BY <2>1, <2>2, Zenon DEF QueriesExact
<1> QED
  BY <1>1, ClientInvariant, PTL

\* A transaction that names a repository by its locator is sent only if that
\* locator was the current one while the command ran (repoForWrite,
\* requireCanonical), so that an old link never redirects a write.
THEOREM ClientWritesThroughCurrentLocator == ClientSpec => []WritesThroughCurrentLocator
<1>1. ClientInv => WritesThroughCurrentLocator
  <2> SUFFICES ASSUME ClientInv, NEW f \in Range(sent) \ (ThroughAlias \cup Unlocated)
               PROVE  CanonicalOnce
    BY Zenon DEF WritesThroughCurrentLocator, CanonicalOnce
  <2>1. PICK i \in 1..Len(sent) : f = sent[i]
    BY DEF ClientInv, ClientTyped, IsSeq, Range
  <2>2. Located(f)
    BY Zenon DEF Located
  <2> QED
    BY <2>1, <2>2, Zenon DEF ClientInv, SentLocated
<1> QED
  BY <1>1, ClientInvariant, PTL

\* Nothing is read from, or sent to, anything but the active suite of the
\* profile: VerifySuite ran before, and activation is never undone.
THEOREM ClientOnlyTheActiveSuite == ClientSpec => []OnlyTheActiveSuite
<1>1. ClientInv => OnlyTheActiveSuite
  BY Zenon DEF ClientInv, SuiteKnown, OnlyTheActiveSuite
<1> QED
  BY <1>1, ClientInvariant, PTL

-----------------------------------------------------------------------------
(* EVMTransactor                                                           *)

INSTANCE WellFoundedInduction

-----------------------------------------------------------------------------
(* The gas limit.                                                          *)

\* Scaling by tens, as the code does it, is floor(estimated * 1.4).
LEMMA ScaledByTens ==
  ASSUME NEW e \in Nat
  PROVE  /\ (e * 14) \div 10 = (e \div 10) * 14 + ((e % 10) * 14) \div 10
         /\ ((e % 10) * 14) \div 10 \in Nat
         /\ e \div 10 \in Nat
OBVIOUS

\* The first guard of the code refuses exactly the products past the word.
LEMMA ProductFits ==
  ASSUME NEW q \in Nat, NEW max \in Nat
  PROVE  q > max \div 14 <=> q * 14 > max
OBVIOUS

\* AdjustEVMGasLimit is exact for every estimate, headroom and word.
LEMMA AdjustExact ==
  ASSUME NEW e \in 0..MaxUint
  PROVE  LET exact == (e * 14) \div 10 + Headroom IN
         AdjustEVMGasLimit(e, Headroom) = IF exact <= MaxUint THEN exact ELSE Overflow
<1> DEFINE quotient == e \div 10
           extra == ((e % 10) * 14) \div 10
           scaled == quotient * 14
<1>1. e \in Nat /\ MaxUint \in Nat /\ Headroom \in Nat
  BY GasAssumption
<1>2. (e * 14) \div 10 = scaled + extra /\ extra \in Nat /\ quotient \in Nat
  BY <1>1, ScaledByTens, Zenon
<1>3. quotient > MaxUint \div 14 <=> scaled > MaxUint
  BY <1>1, <1>2, ProductFits, Zenon
<1>4. scaled \in Nat
  BY <1>2
<1>5. AdjustEVMGasLimit(e, Headroom) =
        IF \/ quotient > MaxUint \div 14
           \/ scaled > MaxUint - extra
           \/ scaled + extra > MaxUint - Headroom
        THEN Overflow ELSE scaled + extra + Headroom
  BY Zenon DEF AdjustEVMGasLimit
<1> HIDE DEF quotient, extra, scaled
<1> QED
  BY <1>1, <1>2, <1>3, <1>4, <1>5

-----------------------------------------------------------------------------
(* The node's pending nonce.                                               *)

\* A set of natural numbers has a least element.
LEMMA LeastElement ==
  ASSUME NEW T \in SUBSET Nat, T # {}
  PROVE  \E n \in T : \A m \in T : n <= m
<1>1. PICK n \in T : \A m \in T : ~(<<m, n>> \in OpToRel(<, Nat))
  BY NatLessThanWellFounded, WFMin, Zenon
<1>2. \A m \in T : m < n => <<m, n>> \in OpToRel(<, Nat)
  BY Zenon DEF OpToRel
<1>3. \A m \in T : ~(m < n)
  BY <1>1, <1>2, Zenon
<1> QED
  BY <1>3

\* There is a first nonce, from the mined ones on, that the pool does not hold,
\* so the count the node answers with is one: the next in the account's order.
LEMMA PendingNonce ==
  ASSUME mined \in 0..(MaxNonce + 1)
  PROVE  /\ Pending \in mined..(MaxNonce + 1)
         /\ \A k \in mined..(Pending - 1) : pool[k] # NoOp
         /\ Pending <= MaxNonce => pool[Pending] = NoOp
<1> DEFINE Free == {n \in mined..(MaxNonce + 1) : n <= MaxNonce => pool[n] = NoOp}
           First(n) == /\ \A k \in mined..(n - 1) : pool[k] # NoOp
                       /\ n <= MaxNonce => pool[n] = NoOp
<1>1. MaxNonce \in Nat
  BY OpsAssumption, Zenon
<1>2. MaxNonce + 1 \in Free /\ Free \in SUBSET Nat
  BY <1>1
<1>3. PICK n \in Free : \A m \in Free : n <= m
  BY <1>2, LeastElement, Zenon
<1>4. n \in mined..(MaxNonce + 1) /\ (n <= MaxNonce => pool[n] = NoOp)
  BY Zenon
<1>5. ASSUME NEW k \in mined..(n - 1) PROVE pool[k] # NoOp
  <2>1. k \in mined..(MaxNonce + 1) /\ ~(n <= k)
    BY <1>1, <1>4
  <2>2. k \notin Free
    BY <1>3, <2>1, Zenon
  <2> QED
    BY <2>1, <2>2, Zenon
<1>6. First(n)
  BY <1>4, <1>5, Zenon
<1>7. Pending \in mined..(MaxNonce + 1) /\ First(Pending)
  <2> HIDE DEF First
  <2>1. Pending = CHOOSE x \in mined..(MaxNonce + 1) : First(x)
    BY Zenon DEF Pending, First
  <2> QED
    BY <1>4, <1>6, <2>1, Zenon
<1> QED
  BY <1>7, Zenon

-----------------------------------------------------------------------------
(* The inductive invariant.                                                *)

Steps == {"start", "prepare", "broadcast", "wait", "done"}
Outcomes == {"none", "failed", "confirmed", "reverted", "unconfirmed"}
Managers == [valid : BOOLEAN, next : Nat, generation : Nat]
Operations == [step : Steps, nonce : Nonces, generation : Nat,
               attempts : Nat, errors : Nat, outcome : Outcomes]

Typed ==
    /\ manager \in [Processes -> Managers]
    /\ op \in [Ops -> Operations]
    /\ pool \in [Nonces -> Ops \cup {NoOp}]
    /\ mined \in 0..(MaxNonce + 1)
    /\ status \in [Ops -> {"none", "0x0", "0x1"}]

\* A reservation is of an earlier generation than its process's manager, or of
\* the manager's own valid cache, which is past its nonce.
CacheAhead(o) ==
    LET m == manager[ProcessOf[o]] IN
    Reserved(o) =>
        \/ op[o].generation < m.generation
        \/ op[o].generation = m.generation /\ m.valid /\ op[o].nonce < m.next

\* An operation reserves first and reports last.
InOrder(o) ==
    /\ op[o].step = "start" => ~Reserved(o)
    /\ op[o].outcome # "none" => op[o].step = "done"

\* The pool holds an operation at its own nonce, and not before it was sent.
HeldAtNonce ==
    \A n \in Nonces : pool[n] # NoOp =>
        op[pool[n]].nonce = n /\ op[pool[n]].step \notin {"start", "prepare"}

\* Only an operation the node took waits for a receipt.
WaitsInPool(o) == op[o].step = "wait" => pool[op[o].nonce] = o

CacheInv ==
    /\ \A o \in Ops : CacheAhead(o) /\ InOrder(o)
    /\ ReservationsDistinct /\ FailedCacheDiscarded

PoolInv == HeldAtNonce /\ (\A o \in Ops : WaitsInPool(o)) /\ OutcomesTrue

IInv == Typed /\ CacheInv /\ PoolInv

\* A new transactor satisfies the invariant.
LEMMA InitIInv == Init => IInv
<1> SUFFICES ASSUME Init PROVE IInv
  BY Zenon
<1>1. Typed
  BY OpsAssumption DEF Init, Typed, Managers, Operations, Steps, Outcomes, Nonces
<1>2. CacheInv
  BY OpsAssumption DEF Init, CacheInv, CacheAhead, InOrder, Reserved,
     ReservationsDistinct, FailedCacheDiscarded
<1>3. PoolInv
  BY Zenon DEF Init, PoolInv, HeldAtNonce, WaitsInPool, OutcomesTrue
<1> QED
  BY <1>1, <1>2, <1>3, Zenon DEF IInv

-----------------------------------------------------------------------------
(* What the steps of an operation do to it and to its manager.             *)

\* After its reservation an operation keeps its nonce and its generation.
Held(o) ==
    /\ op' \in [Ops -> Operations]
    /\ op'[o].nonce = op[o].nonce /\ op'[o].generation = op[o].generation
    /\ \A q \in Ops \ {o} : op'[q] = op[q]

\* An operation that returns keeps its reservation and leaves the others alone.
LEMMA ReturnHolds ==
  ASSUME Typed, NEW o \in Ops, NEW r \in Outcomes, Return(o, r)
  PROVE  Held(o) /\ op'[o].step = "done" /\ op'[o].outcome = r
<1>1. op' \in [Ops -> Operations]
  <2> DEFINE e == [op[o] EXCEPT !.step = "done", !.outcome = r]
  <2>1. op[o] \in Operations
    BY Zenon DEF Typed
  <2>2. e \in Operations
    BY <2>1, Zenon DEF Operations, Steps
  <2>3. op' = [op EXCEPT ![o] = e]
    BY Zenon DEF Return
  <2> QED
    BY <2>2, <2>3, Zenon DEF Typed
<1>2. /\ op'[o].step = "done" /\ op'[o].outcome = r
      /\ op'[o].nonce = op[o].nonce /\ op'[o].generation = op[o].generation
  BY DEF Typed, Return, Operations
<1>3. \A q \in Ops \ {o} : op'[q] = op[q]
  BY Zenon DEF Typed, Return
<1> QED
  BY <1>1, <1>2, <1>3, Zenon DEF Held

\* So does one that counts an attempt or an error.
LEMMA CounterHolds ==
  ASSUME Typed, NEW o \in Ops, NEW n \in Nat,
         \/ op' = [op EXCEPT ![o].attempts = n]
         \/ op' = [op EXCEPT ![o].errors = n]
  PROVE  Held(o) /\ op'[o].step = op[o].step /\ op'[o].outcome = op[o].outcome
BY DEF Typed, Held, Operations

\* So does one that goes on to its next step.
LEMMA AdvanceHolds ==
  ASSUME Typed, NEW o \in Ops, NEW step \in Steps, op' = [op EXCEPT ![o].step = step]
  PROVE  Held(o) /\ op'[o].step = step /\ op'[o].outcome = op[o].outcome
BY DEF Typed, Held, Operations

\* Invalidate drops the cache of the operation's own generation and leaves a
\* later one; the generation never goes back.
LEMMA InvalidateFacts ==
  ASSUME Typed, NEW o \in Ops, Invalidate(o)
  PROVE  /\ manager' \in [Processes -> Managers]
         /\ \A q \in Processes \ {ProcessOf[o]} : manager'[q] = manager[q]
         /\ LET m == manager[ProcessOf[o]]
                n == manager'[ProcessOf[o]]
            IN /\ ~(n.valid /\ n.generation = op[o].generation)
               /\ n = m \/ (~n.valid /\ n.generation = m.generation + 1)
<1>1. ProcessOf[o] \in Processes
  BY OpsAssumption, Zenon
<1>2. Invalidated(o) \in Managers
  <2> DEFINE m == manager[ProcessOf[o]]
  <2>1. m \in Managers
    BY <1>1, Zenon DEF Typed
  <2>2. m.generation + 1 \in Nat
    BY <2>1 DEF Managers
  <2>3. [m EXCEPT !.valid = FALSE, !.generation = m.generation + 1] \in Managers
    BY <2>1, <2>2, Zenon DEF Managers
  <2> QED
    BY <2>1, <2>2, <2>3, Zenon DEF Invalidated
<1>3. LET m == manager[ProcessOf[o]]
          n == Invalidated(o)
      IN /\ ~(n.valid /\ n.generation = op[o].generation)
         /\ n = m \/ (~n.valid /\ n.generation = m.generation + 1)
  BY <1>1, Zenon DEF Invalidated, Typed, Managers
<1>4. manager' = [manager EXCEPT ![ProcessOf[o]] = Invalidated(o)]
  BY Zenon DEF Invalidate
<1> QED
  BY <1>1, <1>2, <1>3, <1>4, Zenon DEF Typed

\* Nothing changes for the caches, or the operation ends and they are invalidated.
CacheStep(o) ==
    \/ /\ manager' = manager
       /\ op'[o].step = "done" => op'[o].outcome = "confirmed" \/ ~Reserved(o)
    \/ Invalidate(o)

\* A step of an operation that holds its reservation keeps the invariant of the
\* caches.
LEMMA CacheKept ==
  ASSUME Typed, CacheInv, NEW o \in Ops, Held(o), CacheStep(o),
         op'[o].step # "start", op'[o].outcome # "none" => op'[o].step = "done"
  PROVE  manager' \in [Processes -> Managers] /\ CacheInv'
<1> USE DEF Reserved
<1>1. \A q \in Ops : /\ op'[q].nonce = op[q].nonce
                     /\ op'[q].generation = op[q].generation
                     /\ op[q].generation \in Nat
                     /\ ProcessOf[q] \in Processes
  BY OpsAssumption, Zenon DEF Held, Typed, Operations
<1>2. \A q \in Processes : /\ manager[q].generation \in Nat
                           /\ manager'[q] = manager[q]
                              \/ (~manager'[q].valid /\
                                  manager'[q].generation = manager[q].generation + 1)
  BY InvalidateFacts, Zenon DEF CacheStep, Typed, Managers
<1>3. ASSUME NEW q \in Ops PROVE CacheAhead(q)'
  BY <1>1, <1>2, SMTT(30) DEF CacheInv, CacheAhead
<1>4. ASSUME NEW q \in Ops PROVE InOrder(q)'
  BY Zenon DEF CacheInv, InOrder, Held
<1>5. ReservationsDistinct'
  BY <1>1, SMTT(30) DEF CacheInv, ReservationsDistinct
<1>6. ASSUME NEW q \in Ops, q # o, Reserved(q)', op'[q].step = "done", op'[q].outcome # "confirmed"
      PROVE  ~(manager'[ProcessOf[q]].valid /\ manager'[ProcessOf[q]].generation = op'[q].generation)
  <2>1. op'[q] = op[q]
    BY <1>6, Zenon DEF Held
  <2>2. ~(manager[ProcessOf[q]].valid /\ manager[ProcessOf[q]].generation = op[q].generation)
    BY <1>6, <2>1, Zenon DEF CacheInv, FailedCacheDiscarded
  <2> QED
    BY <1>1, <1>2, <2>1, <2>2, Zenon
<1>7. ASSUME Reserved(o)', op'[o].step = "done", op'[o].outcome # "confirmed"
      PROVE  ~(manager'[ProcessOf[o]].valid /\ manager'[ProcessOf[o]].generation = op'[o].generation)
  BY <1>1, <1>7, InvalidateFacts, Zenon DEF CacheStep
<1>8. FailedCacheDiscarded'
  BY <1>6, <1>7, Zenon DEF FailedCacheDiscarded
<1>9. manager' \in [Processes -> Managers]
  BY InvalidateFacts, Zenon DEF CacheStep, Typed
<1> QED
  BY <1>3, <1>4, <1>5, <1>8, <1>9, Zenon DEF CacheInv

\* An operation that reserves a nonce has it, and leaves the others alone.
LEMMA ReservationHolds ==
  ASSUME Typed, NEW o \in Ops, NEW n \in Nonces, NEW g \in Nat,
         op' = [op EXCEPT ![o].step = "prepare", ![o].nonce = n, ![o].generation = g]
  PROVE  /\ op' \in [Ops -> Operations]
         /\ op'[o].step = "prepare" /\ op'[o].outcome = op[o].outcome
         /\ op'[o].nonce = n /\ op'[o].generation = g
         /\ \A q \in Ops \ {o} : op'[q] = op[q]
<1>1. op' \in [Ops -> Operations]
  <2> DEFINE r == [op[o] EXCEPT !.step = "prepare", !.nonce = n, !.generation = g]
  <2>1. op[o] \in Operations
    BY Zenon DEF Typed
  <2>2. r \in Operations
    BY <2>1, Zenon DEF Operations, Steps
  <2>3. op' = [op EXCEPT ![o] = r]
    BY Zenon
  <2> QED
    BY <2>2, <2>3, Zenon DEF Typed
<1>2. /\ op'[o].step = "prepare" /\ op'[o].outcome = op[o].outcome
      /\ op'[o].nonce = n /\ op'[o].generation = g
  BY Zenon DEF Typed, Operations
<1>3. \A q \in Ops \ {o} : op'[q] = op[q]
  BY Zenon DEF Typed
<1> QED
  BY <1>1, <1>2, <1>3, Zenon

\* A step that reserves the next nonce of the cache, or of a new one.
LEMMA ReserveCache ==
  ASSUME Typed, CacheInv, NEW o \in Ops, Reserve(o)
  PROVE  /\ manager' \in [Processes -> Managers]
         /\ op' \in [Ops -> Operations] /\ op'[o].step = "prepare" /\ op'[o].outcome = "none"
         /\ \A q \in Ops \ {o} : op'[q] = op[q]
         /\ CacheInv'
<1> DEFINE m == manager[ProcessOf[o]]
           current == IF m.valid THEN m ELSE FreshManager(m)
           p == ProcessOf[o]
<1>1. p \in Processes /\ m \in Managers /\ op[o] \in Operations
  BY OpsAssumption, Zenon DEF Typed
<1>2. /\ op[o].step = "start" /\ current.next <= MaxNonce
      /\ manager' = [manager EXCEPT ![p] = [current EXCEPT !.next = @ + 1]]
      /\ op' = [op EXCEPT ![o].step = "prepare", ![o].nonce = current.next,
                          ![o].generation = current.generation]
  BY Zenon DEF Reserve
<1>3. /\ current \in Managers /\ current.valid
      /\ current = m \/ current.generation = m.generation + 1
      /\ current.generation > 0 \/ current = m
  <2>1. FreshManager(m) \in Managers
    <3>1. Pending \in Nat /\ m.generation + 1 \in Nat
      BY <1>1, PendingNonce, OpsAssumption DEF Typed, Managers
    <3> QED
      BY <3>1, Zenon DEF FreshManager, Managers
  <2>2. FreshManager(m).valid /\ FreshManager(m).generation = m.generation + 1
    BY Zenon DEF FreshManager
  <2>3. m.generation \in Nat
    BY <1>1, Zenon DEF Managers
  <2>4. CASE m.valid
    BY <2>4, <1>1, Zenon
  <2>5. CASE ~m.valid
    <3>1. current = FreshManager(m)
      BY <2>5, Zenon
    <3> HIDE DEF current
    <3> QED
      BY <2>1, <2>2, <2>3, <3>1
  <2> QED
    BY <2>4, <2>5, Zenon
<1> HIDE DEF current
<1>4. current.next \in Nonces /\ current.generation \in Nat /\ current.next \in Nat
  <2>1. current.generation \in Nat /\ current.next \in Nat
    BY <1>3, Zenon DEF Managers
  <2> QED
    BY <1>2, <2>1, OpsAssumption DEF Nonces
<1>5. /\ op' \in [Ops -> Operations]
      /\ op'[o].step = "prepare" /\ op'[o].outcome = op[o].outcome
      /\ op'[o].nonce = current.next /\ op'[o].generation = current.generation
      /\ \A q \in Ops \ {o} : op'[q] = op[q]
  BY <1>2, <1>4, ReservationHolds, Zenon
<1>6. op[o].outcome = "none" /\ ~Reserved(o)
  BY <1>2, Zenon DEF CacheInv, InOrder
<1> DEFINE n == [current EXCEPT !.next = @ + 1]
<1>7. n \in Managers /\ n.valid = current.valid /\ n.generation = current.generation
        /\ n.next = current.next + 1
  <2>1. current.next + 1 \in Nat
    BY <1>4
  <2>2. n \in Managers
    BY <1>3, <2>1, Zenon DEF Managers
  <2>3. n.valid = current.valid /\ n.generation = current.generation
    BY <1>3, Zenon DEF Managers
  <2>4. n.next = current.next + 1
    BY <1>3, Zenon DEF Managers
  <2> QED
    BY <2>2, <2>3, <2>4, Zenon
<1> HIDE DEF n
<1>8. /\ manager' \in [Processes -> Managers] /\ manager'[p] = n
      /\ \A q \in Processes \ {p} : manager'[q] = manager[q]
  <2>1. manager' = [manager EXCEPT ![p] = n]
    BY <1>2, Zenon DEF n
  <2> HIDE DEF p
  <2> QED
    BY <1>1, <1>7, <2>1, Zenon DEF Typed
<1>9. m.generation \in Nat
  BY <1>1, Zenon DEF Managers
<1>10. \A q \in Ops : op[q].generation \in Nat /\ ProcessOf[q] \in Processes
  BY OpsAssumption, Zenon DEF Typed, Operations
<1>11. ASSUME NEW q \in Ops, q # o, ProcessOf[q] = p, Reserved(q)
       PROVE  \/ op[q].generation < current.generation
              \/ op[q].generation = current.generation /\ op[q].nonce < current.next
  <2>1. CacheAhead(q)
    BY Zenon DEF CacheInv
  <2> QED
    BY <2>1, <1>3, <1>9, <1>10, <1>11 DEF CacheAhead
<1>12. \A q \in Ops : op[q].nonce \in Nat
  BY OpsAssumption DEF Typed, Operations, Nonces
<1>13. ASSUME NEW q \in Ops PROVE CacheAhead(q)'
  <2>1. CASE q = o
    <3>1. op'[o].generation = n.generation /\ n.valid /\ op'[o].nonce < n.next
      BY <1>3, <1>4, <1>5, <1>7
    <3> QED
      BY <2>1, <3>1, <1>8, Zenon DEF CacheAhead
  <2>2. CASE q # o /\ ProcessOf[q] = p
    <3>1. op'[q] = op[q]
      BY <2>2, <1>5, Zenon
    <3> SUFFICES ASSUME Reserved(q)
                 PROVE  \/ op[q].generation < n.generation
                        \/ op[q].generation = n.generation /\ n.valid /\ op[q].nonce < n.next
      BY <3>1, <2>2, <1>8, Zenon DEF CacheAhead, Reserved
    <3> QED
      BY <2>2, <1>3, <1>4, <1>7, <1>11, <1>12
  <2>3. CASE ProcessOf[q] # p
    <3>1. op'[q] = op[q] /\ manager'[ProcessOf[q]] = manager[ProcessOf[q]]
      BY <2>3, <1>5, <1>8, <1>10, Zenon
    <3> QED
      BY <3>1, Zenon DEF CacheInv, CacheAhead, Reserved
  <2> QED
    BY <2>1, <2>2, <2>3, Zenon
<1>14. ASSUME NEW q \in Ops PROVE InOrder(q)'
  BY <1>5, <1>6, Zenon DEF CacheInv, InOrder, Reserved
<1>15. ReservationsDistinct'
  <2>1. \A q \in Ops : q # o /\ ProcessOf[q] = p /\ Reserved(q)
                       /\ op[q].generation = current.generation => op[q].nonce # current.next
    BY <1>4, <1>10, <1>11, <1>12
  <2> QED
    BY <2>1, <1>5 DEF CacheInv, ReservationsDistinct, Reserved
<1>16. ASSUME NEW q \in Ops, Reserved(q)', op'[q].step = "done", op'[q].outcome # "confirmed"
       PROVE  ~(manager'[ProcessOf[q]].valid /\ manager'[ProcessOf[q]].generation = op'[q].generation)
  <2>1. q # o /\ op'[q] = op[q] /\ Reserved(q)
    BY <1>5, <1>16, Zenon DEF Reserved
  <2>2. ~(manager[ProcessOf[q]].valid /\ manager[ProcessOf[q]].generation = op[q].generation)
    BY <1>16, <2>1, Zenon DEF CacheInv, FailedCacheDiscarded
  <2>3. CASE ProcessOf[q] # p
    BY <2>1, <2>2, <2>3, <1>8, <1>10, Zenon
  <2>4. CASE ProcessOf[q] = p /\ current = m
    BY <2>1, <2>2, <2>4, <1>3, <1>7, <1>8, Zenon
  <2>5. CASE ProcessOf[q] = p /\ current.generation = m.generation + 1
    <3>1. op[q].generation <= m.generation
      BY <2>1, <2>5, <1>9, <1>10, SMTT(30) DEF CacheInv, CacheAhead
    <3> QED
      BY <2>1, <2>5, <3>1, <1>7, <1>8, <1>9, <1>10, SMTT(30)
  <2> QED
    BY <2>3, <2>4, <2>5, <1>3, Zenon
<1>17. FailedCacheDiscarded'
  BY <1>16, Zenon DEF FailedCacheDiscarded
<1> QED
  BY <1>5, <1>6, <1>8, <1>13, <1>14, <1>15, <1>17, Zenon DEF CacheInv

-----------------------------------------------------------------------------
(* The pool.                                                               *)

\* The transaction enters the pool at its free nonce, or the pool stays.
PoolStep(o) == pool' = pool \/ (Accepts(o) /\ pool' = [pool EXCEPT ![op[o].nonce] = o])

\* What an operation reports of itself after a step.
Reports(o) ==
    /\ op'[o].step = "wait" => pool'[op[o].nonce] = o
    /\ op'[o].outcome = "confirmed" => status[o] = "0x1"
    /\ op'[o].outcome = "reverted" => status[o] = "0x0"
    /\ op'[o].outcome \in {"confirmed", "reverted", "unconfirmed"} => pool'[op[o].nonce] = o

\* A nonce the pool holds is never given to another operation.
LEMMA PoolGrows ==
  ASSUME Typed, NEW o \in Ops, PoolStep(o)
  PROVE  /\ pool' \in [Nonces -> Ops \cup {NoOp}]
         /\ \A n \in Nonces : pool'[n] = pool[n] \/ (n = op[o].nonce /\ pool'[n] = o /\ pool[n] = NoOp)
BY Zenon DEF Typed, Operations, PoolStep, Accepts

\* What the operations report stays true of the pool when one of them submits.
LEMMA PoolKept ==
  ASSUME Typed, PoolInv, NEW o \in Ops, Held(o), PoolStep(o), Reports(o),
         op'[o].step \notin {"start", "prepare"}, UNCHANGED <<mined, status>>
  PROVE  PoolInv'
<1>1. \A q \in Ops : op[q].nonce \in Nonces /\ op'[q].nonce = op[q].nonce
  BY Zenon DEF Typed, Operations, Held
<1>2. NoOp \notin Ops
  BY OpsAssumption, Zenon
<1>3. HeldAtNonce'
  <2> SUFFICES ASSUME NEW n \in Nonces, pool'[n] # NoOp
               PROVE  op'[pool'[n]].nonce = n /\ op'[pool'[n]].step \notin {"start", "prepare"}
    BY Zenon DEF HeldAtNonce
  <2>1. CASE pool'[n] = o
    <3>1. op[o].nonce = n
      BY <2>1, <1>2, PoolGrows, Zenon DEF PoolInv, HeldAtNonce
    <3> QED
      BY <2>1, <3>1, <1>1, Zenon
  <2>2. CASE pool'[n] # o
    <3>1. pool'[n] = pool[n] /\ pool[n] \in Ops
      BY <2>2, PoolGrows DEF Typed
    <3>2. op'[pool[n]] = op[pool[n]]
      BY <2>2, <3>1, Zenon DEF Held
    <3> QED
      BY <3>1, <3>2, Zenon DEF PoolInv, HeldAtNonce
  <2> QED
    BY <2>1, <2>2, Zenon
<1>4. \A q \in Ops : pool[op[q].nonce] = q => pool'[op'[q].nonce] = q
  BY <1>1, <1>2, PoolGrows
<1>5. ASSUME NEW q \in Ops PROVE WaitsInPool(q)'
  <2>1. CASE q = o
    BY <2>1, <1>1, Zenon DEF WaitsInPool, Reports
  <2>2. CASE q # o
    BY <2>2, <1>4, Zenon DEF PoolInv, WaitsInPool, Held
  <2> QED
    BY <2>1, <2>2, Zenon
<1>6. ASSUME NEW q \in Ops
      PROVE  /\ op'[q].outcome = "confirmed" => status[q] = "0x1"
             /\ op'[q].outcome = "reverted" => status[q] = "0x0"
             /\ op'[q].outcome \in {"confirmed", "reverted", "unconfirmed"} =>
                  pool'[op'[q].nonce] = q
  <2>1. CASE q = o
    BY <2>1, <1>1, Zenon DEF Reports
  <2>2. CASE q # o
    BY <2>2, <1>4 DEF PoolInv, OutcomesTrue, Held
  <2> QED
    BY <2>1, <2>2, Zenon
<1>7. \A q \in Ops : status[q] # "none" => pool'[op'[q].nonce] = q /\ op'[q].nonce < mined
  BY <1>1, <1>4, Zenon DEF PoolInv, OutcomesTrue
<1>8. OutcomesTrue'
  BY <1>6, <1>7, Zenon DEF OutcomesTrue
<1> QED
  BY <1>3, <1>5, <1>8, Zenon DEF PoolInv

\* Mining gives the next nonce's transaction a status it did not have.
LEMMA MineIInv ==
  ASSUME IInv, Mine
  PROVE  IInv'
<1> DEFINE o == pool[mined]
<1>1. mined \in Nonces /\ o \in Ops /\ MaxNonce \in Nat
  BY OpsAssumption DEF IInv, Typed, Mine, Nonces
<1>2. op[o].nonce = mined
  BY <1>1, Zenon DEF IInv, PoolInv, HeldAtNonce, Mine
<1>3. status[o] = "none"
  BY <1>1, <1>2, OpsAssumption DEF IInv, PoolInv, OutcomesTrue, Nonces
<1>4. /\ status' \in [Ops -> {"none", "0x0", "0x1"}]
      /\ \A q \in Ops \ {o} : status'[q] = status[q]
      /\ mined' = mined + 1 /\ UNCHANGED <<manager, op, pool>>
  BY <1>1, Zenon DEF IInv, Typed, Mine
<1>5. Typed'
  BY <1>1, <1>4 DEF IInv, Typed, Mine, Nonces
<1>6. CacheInv'
  <2>1. \A q \in Ops : (CacheAhead(q) <=> CacheAhead(q)') /\ (InOrder(q) <=> InOrder(q)')
    BY <1>4, Zenon DEF CacheAhead, InOrder, Reserved
  <2>2. ReservationsDistinct' /\ FailedCacheDiscarded'
    BY <1>4, Zenon DEF IInv, CacheInv, ReservationsDistinct, FailedCacheDiscarded, Reserved
  <2> QED
    BY <2>1, <2>2, Zenon DEF IInv, CacheInv
<1> HIDE DEF o
<1>7. HeldAtNonce' /\ \A q \in Ops : WaitsInPool(q)'
  BY <1>4, Zenon DEF IInv, PoolInv, HeldAtNonce, WaitsInPool
<1>8. ASSUME NEW q \in Ops
      PROVE  /\ op'[q].outcome = "confirmed" => status'[q] = "0x1"
             /\ op'[q].outcome = "reverted" => status'[q] = "0x0"
             /\ op'[q].outcome \in {"confirmed", "reverted", "unconfirmed"} =>
                  pool'[op'[q].nonce] = q
             /\ status'[q] # "none" => pool'[op'[q].nonce] = q /\ op'[q].nonce < mined'
  <2>1. /\ op[q].outcome = "confirmed" => status[q] = "0x1"
        /\ op[q].outcome = "reverted" => status[q] = "0x0"
        /\ op[q].outcome \in {"confirmed", "reverted", "unconfirmed"} => pool[op[q].nonce] = q
        /\ status[q] # "none" => pool[op[q].nonce] = q /\ op[q].nonce < mined
    BY Zenon DEF IInv, PoolInv, OutcomesTrue
  <2>2. op[q].nonce \in Nat /\ mined \in Nat
    BY <1>1 DEF IInv, Typed, Operations, Nonces
  <2>3. CASE q = o
    <3>1. pool[op[o].nonce] = o /\ op[o].nonce < mined + 1
      BY <1>1, <1>2, <2>2 DEF o
    <3> QED
      BY <2>1, <2>3, <3>1, <1>3, <1>4, Zenon
  <2>4. CASE q # o
    <3>1. status'[q] = status[q]
      BY <2>4, <1>4, Zenon
    <3> QED
      BY <2>1, <2>2, <3>1, <1>4, SMTT(30)
  <2> QED
    BY <2>3, <2>4, Zenon
<1>9. OutcomesTrue'
  BY <1>8, Zenon DEF OutcomesTrue
<1> QED
  BY <1>5, <1>6, <1>7, <1>9, Zenon DEF IInv, PoolInv

-----------------------------------------------------------------------------
(* The steps of an operation.                                              *)

\* Every step after the reservation is one of its caches, of the pool and of
\* what the operation reports.
LEMMA StepIInv ==
  ASSUME IInv, NEW o \in Ops, Held(o), CacheStep(o), PoolStep(o), Reports(o),
         op'[o].step \notin {"start", "prepare"},
         op'[o].outcome # "none" => op'[o].step = "done",
         UNCHANGED <<mined, status>>
  PROVE  IInv'
<1>1. manager' \in [Processes -> Managers] /\ CacheInv'
  BY CacheKept, Zenon DEF IInv
<1>2. PoolInv'
  BY PoolKept, Zenon DEF IInv
<1>3. Typed'
  BY <1>1, PoolGrows, Zenon DEF IInv, Typed, Held
<1> QED
  BY <1>1, <1>2, <1>3, Zenon DEF IInv

\* Reserving a nonce keeps the invariant.
LEMMA ReserveIInv ==
  ASSUME IInv, NEW o \in Ops, Reserve(o)
  PROVE  IInv'
<1>1. Typed /\ CacheInv /\ PoolInv
  BY Zenon DEF IInv
<1>2. /\ manager' \in [Processes -> Managers]
      /\ op' \in [Ops -> Operations] /\ op'[o].step = "prepare" /\ op'[o].outcome = "none"
      /\ \A q \in Ops \ {o} : op'[q] = op[q]
      /\ CacheInv'
  BY <1>1, ReserveCache, Zenon
<1>3. UNCHANGED <<pool, mined, status>> /\ op[o].step = "start"
  BY Zenon DEF Reserve
<1>4. \A n \in Nonces : pool[n] # o
  BY <1>1, <1>3, OpsAssumption, Zenon DEF PoolInv, HeldAtNonce
<1>5. op[o].nonce \in Nonces /\ op'[o].nonce \in Nonces
  BY <1>1, <1>2, Zenon DEF Typed, Operations
<1>6. Typed'
  BY <1>1, <1>2, <1>3, Zenon DEF Typed
<1>7. HeldAtNonce'
  BY <1>1, <1>2, <1>3, <1>4 DEF Typed, PoolInv, HeldAtNonce
<1>8. \A q \in Ops : WaitsInPool(q)'
  BY <1>1, <1>2, <1>3, Zenon DEF PoolInv, WaitsInPool
<1>9. status[o] = "none"
  BY <1>1, <1>4, <1>5, Zenon DEF PoolInv, OutcomesTrue
<1>10. OutcomesTrue'
  BY <1>1, <1>2, <1>3, <1>9, SMTT(30) DEF PoolInv, OutcomesTrue
<1> QED
  BY <1>2, <1>6, <1>7, <1>8, <1>10, Zenon DEF IInv, PoolInv

\* An operation that has not reported yet.
LEMMA NotReported ==
  ASSUME IInv, NEW o \in Ops, op[o].step # "done"
  PROVE  op[o].outcome = "none"
BY Zenon DEF IInv, CacheInv, InOrder

\* So does each later step of an operation.
LEMMA TransactIInv ==
  ASSUME IInv, NEW o \in Ops, Transact(o)
  PROVE  IInv'
<1> USE DEF Outcomes
<1>1. Typed
  BY Zenon DEF IInv
<1>2. op[o].step = "wait" => pool[op[o].nonce] = o
  BY Zenon DEF IInv, PoolInv, WaitsInPool
<1>3. op[o].attempts \in Nat /\ op[o].errors \in Nat
  BY <1>1, Zenon DEF Typed, Operations
<1>4. CASE Reserve(o)
  BY <1>4, ReserveIInv, Zenon
<1>5. CASE ReserveFails(o)
  <2>1. Held(o) /\ op'[o].step = "done" /\ op'[o].outcome = "failed"
    BY <1>1, <1>5, ReturnHolds, Zenon DEF ReserveFails
  <2>2. ~Reserved(o)
    BY <1>5, Zenon DEF ReserveFails, IInv, CacheInv, InOrder
  <2>3. CacheStep(o) /\ PoolStep(o) /\ Reports(o) /\ UNCHANGED <<mined, status>>
    BY <1>5, <2>1, <2>2, Zenon DEF ReserveFails, CacheStep, PoolStep, Reports
  <2> QED
    BY <2>1, <2>3, StepIInv, Zenon
<1>6. CASE Prepare(o)
  <2>1. Held(o) /\ op'[o].step = "broadcast" /\ op'[o].outcome = "none"
    BY <1>1, <1>6, AdvanceHolds, NotReported, Zenon DEF Prepare, Steps
  <2>2. CacheStep(o) /\ PoolStep(o) /\ Reports(o) /\ UNCHANGED <<mined, status>>
    BY <1>6, <2>1, Zenon DEF Prepare, CacheStep, PoolStep, Reports
  <2> QED
    BY <2>1, <2>2, StepIInv, Zenon
<1>7. CASE PrepareFails(o)
  <2>1. Held(o) /\ op'[o].step = "done" /\ op'[o].outcome = "failed"
    BY <1>1, <1>7, ReturnHolds, Zenon DEF PrepareFails
  <2>2. CacheStep(o) /\ PoolStep(o) /\ Reports(o) /\ UNCHANGED <<mined, status>>
    BY <1>7, <2>1, Zenon DEF PrepareFails, CacheStep, PoolStep, Reports
  <2> QED
    BY <2>1, <2>2, StepIInv, Zenon
<1>8. CASE Broadcast(o)
  <2>1. PoolStep(o) /\ UNCHANGED <<mined, status>>
    BY <1>8, Zenon DEF Broadcast, PoolStep, TakenBy
  <2>2. CASE Accepts(o)
    <3>1. Held(o) /\ op'[o].step = "wait" /\ op'[o].outcome = "none" /\ manager' = manager
      BY <1>1, <1>8, <2>2, AdvanceHolds, NotReported, Zenon DEF Broadcast, Steps
    <3>2. pool'[op[o].nonce] = o
      BY <1>1, <1>8, <2>2, Zenon DEF Broadcast, TakenBy, Typed, Operations
    <3>3. CacheStep(o) /\ Reports(o)
      BY <3>1, <3>2, Zenon DEF CacheStep, Reports
    <3> QED
      BY <2>1, <3>1, <3>3, StepIInv, Zenon
  <2>3. CASE ~Accepts(o)
    <3>1. Held(o) /\ op'[o].step = "done" /\ op'[o].outcome = "failed" /\ Invalidate(o)
      BY <1>1, <1>8, <2>3, ReturnHolds, Zenon DEF Broadcast
    <3>2. CacheStep(o) /\ Reports(o)
      BY <3>1, Zenon DEF CacheStep, Reports
    <3> QED
      BY <2>1, <3>1, <3>2, StepIInv, Zenon
  <2> QED
    BY <2>2, <2>3, Zenon
<1>9. CASE BroadcastLost(o)
  <2>1. PoolStep(o) /\ UNCHANGED <<mined, status>> /\ op[o].step = "broadcast"
    BY <1>9, Zenon DEF BroadcastLost, PoolStep, TakenBy
  <2>2. CASE op' = [op EXCEPT ![o].attempts = @ + 1] /\ UNCHANGED manager
    <3>1. Held(o) /\ op'[o].step = "broadcast" /\ op'[o].outcome = "none"
      <4>1. op[o].attempts + 1 \in Nat
        BY <1>3
      <4>2. Held(o) /\ op'[o].step = op[o].step /\ op'[o].outcome = op[o].outcome
        BY <1>1, <2>2, <4>1, CounterHolds, Zenon
      <4> QED
        BY <2>1, <4>2, NotReported, Zenon
    <3>2. CacheStep(o) /\ Reports(o)
      BY <2>2, <3>1, Zenon DEF CacheStep, Reports
    <3> QED
      BY <2>1, <3>1, <3>2, StepIInv, Zenon
  <2>3. CASE Return(o, "failed") /\ Invalidate(o)
    <3>1. Held(o) /\ op'[o].step = "done" /\ op'[o].outcome = "failed"
      BY <1>1, <2>3, ReturnHolds, Zenon
    <3>2. CacheStep(o) /\ Reports(o)
      BY <2>3, <3>1, Zenon DEF CacheStep, Reports
    <3> QED
      BY <2>1, <3>1, <3>2, StepIInv, Zenon
  <2> QED
    BY <1>9, <2>2, <2>3, Zenon DEF BroadcastLost, Retry
<1>10. CASE Receipt(o)
  <2>1. op[o].step = "wait" /\ status[o] # "none" /\ UNCHANGED <<pool, mined, status>>
    BY <1>10, Zenon DEF Receipt
  <2>2. status[o] \in {"0x0", "0x1"}
    BY <1>1, <2>1, Zenon DEF Typed
  <2>3. CASE status[o] = "0x1"
    <3>1. Held(o) /\ op'[o].step = "done" /\ op'[o].outcome = "confirmed" /\ manager' = manager
      BY <1>1, <1>10, <2>3, ReturnHolds, Zenon DEF Receipt
    <3>2. CacheStep(o) /\ PoolStep(o) /\ Reports(o)
      BY <1>2, <2>1, <2>3, <3>1, Zenon DEF CacheStep, PoolStep, Reports
    <3> QED
      BY <2>1, <3>1, <3>2, StepIInv, Zenon
  <2>4. CASE status[o] = "0x0"
    <3>1. Held(o) /\ op'[o].step = "done" /\ op'[o].outcome = "reverted" /\ Invalidate(o)
      BY <1>1, <1>10, <2>4, ReturnHolds, Zenon DEF Receipt
    <3>2. CacheStep(o) /\ PoolStep(o) /\ Reports(o)
      BY <1>2, <2>1, <2>4, <3>1, Zenon DEF CacheStep, PoolStep, Reports
    <3> QED
      BY <2>1, <3>1, <3>2, StepIInv, Zenon
  <2> QED
    BY <2>2, <2>3, <2>4, Zenon
<1>11. ASSUME op[o].step = "wait", Return(o, "unconfirmed"), Invalidate(o),
              UNCHANGED <<pool, mined, status>>
       PROVE  IInv'
  <2>1. Held(o) /\ op'[o].step = "done" /\ op'[o].outcome = "unconfirmed"
    BY <1>1, <1>11, ReturnHolds, Zenon
  <2>2. CacheStep(o) /\ PoolStep(o) /\ Reports(o)
    BY <1>2, <1>11, <2>1, Zenon DEF CacheStep, PoolStep, Reports
  <2> QED
    BY <1>11, <2>1, <2>2, StepIInv, Zenon
<1>12. ASSUME op[o].step = "wait", NEW n \in Nat, op' = [op EXCEPT ![o].errors = n],
              UNCHANGED <<manager, pool, mined, status>>
       PROVE  IInv'
  <2>1. Held(o) /\ op'[o].step = "wait" /\ op'[o].outcome = "none"
    BY <1>1, <1>12, CounterHolds, NotReported, Zenon
  <2>2. CacheStep(o) /\ PoolStep(o) /\ Reports(o)
    BY <1>2, <1>12, <2>1, Zenon DEF CacheStep, PoolStep, Reports
  <2> QED
    BY <1>12, <2>1, <2>2, StepIInv, Zenon
<1>13. CASE PollFails(o)
  <2>1. CASE op' = [op EXCEPT ![o].errors = @ + 1] /\ UNCHANGED manager
    <3>1. op[o].errors + 1 \in Nat
      BY <1>3
    <3> QED
      BY <1>12, <1>13, <2>1, <3>1, Zenon DEF PollFails
  <2>2. CASE Return(o, "unconfirmed") /\ Invalidate(o)
    BY <1>11, <1>13, <2>2, Zenon DEF PollFails
  <2> QED
    BY <1>13, <2>1, <2>2, Zenon DEF PollFails
<1>14. CASE PollPending(o)
  BY <1>12, <1>14, Zenon DEF PollPending
<1>15. CASE Timeout(o)
  BY <1>11, <1>15, Zenon DEF Timeout
<1> QED
  BY <1>4, <1>5, <1>6, <1>7, <1>8, <1>9, <1>10, <1>13, <1>14, <1>15, Zenon DEF Transact

\* Every reachable state satisfies the invariant.
LEMMA Invariance == Spec => []IInv
<1>1. IInv /\ [Next]_vars => IInv'
  <2> SUFFICES ASSUME IInv, [Next]_vars PROVE IInv'
    BY Zenon
  <2>1. CASE Mine
    BY <2>1, MineIInv, Zenon
  <2>2. ASSUME NEW o \in Ops, Transact(o) PROVE IInv'
    BY <2>2, TransactIInv, Zenon
  <2>3. CASE UNCHANGED vars
    <3>1. UNCHANGED <<manager, op, pool, mined, status>>
      BY <2>3, Zenon DEF vars
    <3>2. Typed' /\ CacheInv'
      BY <3>1, Zenon DEF IInv, Typed, CacheInv, CacheAhead, InOrder, Reserved,
         ReservationsDistinct, FailedCacheDiscarded
    <3>3. PoolInv'
      BY <3>1, Zenon DEF IInv, PoolInv, HeldAtNonce, WaitsInPool, OutcomesTrue
    <3> QED
      BY <3>2, <3>3, Zenon DEF IInv
  <2> QED
    BY <2>1, <2>2, <2>3, Zenon DEF Next
<1> QED
  BY <1>1, InitIInv, PTL DEF Spec

-----------------------------------------------------------------------------
(* The theorems.                                                           *)

\* AdjustEVMGasLimit never wraps and never refuses what it could serve, for
\* every estimate, headroom and word size.
THEOREM GasLimitsExact == Spec => []GasLimitExact
<1>1. GasLimitExact
  BY AdjustExact, Zenon DEF GasLimitExact
<1> QED
  BY <1>1, PTL

\* The nonce manager never gives one nonce of a cache to two operations of its
\* process, for any number of operations, processes and failed requests.
THEOREM NoncesDistinct == Spec => []ReservationsDistinct
<1>1. IInv => ReservationsDistinct
  BY Zenon DEF IInv, CacheInv
<1> QED
  BY <1>1, Invariance, PTL

\* Invalidate leaves no cache behind an operation that did not succeed.
THEOREM StaleCachesDropped == Spec => []FailedCacheDiscarded
<1>1. IInv => FailedCacheDiscarded
  BY Zenon DEF IInv, CacheInv
<1> QED
  BY <1>1, Invariance, PTL

\* transact reports the receipt of the operation's own transaction and nothing
\* else, also when another process used the same nonce.
THEOREM ReportsTrue == Spec => []OutcomesTrue
<1>1. IInv => OutcomesTrue
  BY Zenon DEF IInv, PoolInv
<1> QED
  BY <1>1, Invariance, PTL
=============================================================================
