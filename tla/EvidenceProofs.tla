--------------------------- MODULE EvidenceProofs ---------------------------
(***************************************************************************)
(* Redaction does what the code's recursion does, and with it: secrets     *)
(* stay out of what is stored and shown, a recurring finding is recognised *)
(* and different hosts are told apart, for rows of any depth and any       *)
(* length.                                                                 *)
(***************************************************************************)
EXTENDS Evidence, TLAPS

-----------------------------------------------------------------------------
(* Paths and values.                                                       *)

\* A function from paths to nodes that has a root.
IsTree(v) == v = [p \in DOMAIN v |-> v[p]] /\ DOMAIN v \subseteq Seq(Steps)
IsValue(v) == IsTree(v) /\ <<>> \in DOMAIN v

\* The names the code itself uses.
LEMMA CodeNames ==
    {"payload", "value", "uri", "evidence", "note", "title", "kind", "host",
     "detection_name", "rule", "result_id"} \union StableFields \union PlainFields \subseteq Names
  BY NamesAssumption, StableAssumption DEF PlainFields, TitleFields

\* A path with one more step in front.
LEMMA Down ==
    ASSUME NEW s \in Steps, NEW q \in Seq(Steps)
    PROVE  /\ <<s>> \o q \in Seq(Steps) /\ <<s>> \o q # <<>>
           /\ Head(<<s>> \o q) = s /\ Tail(<<s>> \o q) = q
           /\ Len(<<s>> \o q) = Len(q) + 1 /\ Len(q) \in Nat
           /\ (<<s>> \o q)[1] = s
           /\ \A i \in 1..Len(q) : (<<s>> \o q)[i + 1] = q[i]
           /\ <<s>> \o <<>> = <<s>>
  OBVIOUS

\* A path is its first step and the rest.
LEMMA Split ==
    ASSUME NEW p \in Seq(Steps), p # <<>>
    PROVE  /\ Head(p) \in Steps /\ Tail(p) \in Seq(Steps)
           /\ p = <<Head(p)>> \o Tail(p)
  OBVIOUS

\* The empty path.
LEMMA Root == <<>> \in Seq(Steps) /\ Len(<<>>) = 0
  OBVIOUS

\* Functions are equal that agree everywhere.
LEMMA SameFunction ==
    ASSUME NEW f, NEW g, f = [x \in DOMAIN f |-> f[x]], g = [x \in DOMAIN g |-> g[x]],
           \A x : x \in DOMAIN f <=> x \in DOMAIN g, \A x \in DOMAIN f : f[x] = g[x]
    PROVE  f = g
  <1>1. DOMAIN f = DOMAIN g
    OBVIOUS
  <1>2. [x \in DOMAIN f |-> f[x]] = [x \in DOMAIN g |-> g[x]]
    BY <1>1
  <1> QED
    BY <1>2

\* What stands one step down.
LEMMA AtFacts ==
    ASSUME NEW v, IsTree(v), NEW s \in Steps
    PROVE  /\ IsTree(At(v, s))
           /\ \A q \in Seq(Steps) : q \in DOMAIN At(v, s) <=> <<s>> \o q \in DOMAIN v
           /\ \A q \in DOMAIN At(v, s) : q \in Seq(Steps) /\ At(v, s)[q] = v[<<s>> \o q]
           /\ <<>> \in DOMAIN At(v, s) <=> <<s>> \in DOMAIN v
  <1> DEFINE D == {Tail(p) : p \in {p \in DOMAIN v : p # <<>> /\ Head(p) = s}}
  <1>1. At(v, s) = [q \in D |-> v[<<s>> \o q]]
    BY DEF At
  <1>2. DOMAIN At(v, s) = D /\ \A q \in D : At(v, s)[q] = v[<<s>> \o q]
    BY <1>1
  <1>3. \A q \in D : q \in Seq(Steps) /\ <<s>> \o q \in DOMAIN v
    <2> SUFFICES ASSUME NEW p \in DOMAIN v, p # <<>>, Head(p) = s
                 PROVE  Tail(p) \in Seq(Steps) /\ <<s>> \o Tail(p) \in DOMAIN v
      OBVIOUS
    <2>1. p \in Seq(Steps)
      BY DEF IsTree
    <2> QED
      BY <2>1, Split
  <1>4. ASSUME NEW q \in Seq(Steps), <<s>> \o q \in DOMAIN v PROVE q \in D
    BY <1>4, Down
  <1>5. IsTree(At(v, s))
    <2>1. At(v, s) = [q \in DOMAIN At(v, s) |-> At(v, s)[q]]
      BY <1>1
    <2> QED
      BY <1>2, <1>3, <2>1 DEF IsTree
  <1>6. <<>> \in D <=> <<s>> \in DOMAIN v
    BY <1>3, <1>4, Down, Root
  <1> HIDE DEF D
  <1> QED
    BY <1>2, <1>3, <1>4, <1>5, <1>6

\* Values are equal that have the same root and the same values below it.
LEMMA SameBelow ==
    ASSUME NEW v, NEW w, IsValue(v), IsValue(w), v[<<>>] = w[<<>>],
           \A s \in Steps : At(v, s) = At(w, s)
    PROVE  v = w
  <1>1. ASSUME NEW p \in Seq(Steps) PROVE /\ p \in DOMAIN v <=> p \in DOMAIN w
                                          /\ p \in DOMAIN v => v[p] = w[p]
    <2>1. CASE p = <<>>
      BY <2>1 DEF IsValue
    <2>2. CASE p # <<>>
      <3>1. PICK s \in Steps, q \in Seq(Steps) : p = <<s>> \o q
        BY <2>2, Split
      <3>2. At(v, s) = At(w, s)
        OBVIOUS
      <3>3. IsTree(v) /\ IsTree(w)
        BY DEF IsValue
      <3>4. /\ <<s>> \o q \in DOMAIN v <=> q \in DOMAIN At(v, s)
            /\ q \in DOMAIN At(v, s) => v[<<s>> \o q] = At(v, s)[q]
        BY <3>3, AtFacts
      <3>5. /\ <<s>> \o q \in DOMAIN w <=> q \in DOMAIN At(w, s)
            /\ q \in DOMAIN At(w, s) => w[<<s>> \o q] = At(w, s)[q]
        BY <3>3, AtFacts
      <3> QED
        BY <3>1, <3>2, <3>4, <3>5
    <2> QED
      BY <2>1, <2>2
  <1>2. DOMAIN v \subseteq Seq(Steps) /\ DOMAIN w \subseteq Seq(Steps)
    BY DEF IsValue, IsTree
  <1>3. v = [x \in DOMAIN v |-> v[x]] /\ w = [x \in DOMAIN w |-> w[x]]
    BY DEF IsValue, IsTree
  <1> QED
    BY <1>1, <1>2, <1>3, SameFunction

\* A node with values below it is a value, and below it are these values.
LEMMA GrownFacts ==
    ASSUME NEW node, NEW below, DOMAIN below \subseteq Steps, \A s \in DOMAIN below : IsTree(below[s])
    PROVE  /\ IsValue(Grown(node, below))
           /\ Grown(node, below)[<<>>] = node
           /\ \A s \in DOMAIN below : At(Grown(node, below), s) = below[s]
           /\ \A s \in Steps \ DOMAIN below : DOMAIN At(Grown(node, below), s) = {}
  <1> DEFINE v == Grown(node, below)
             D == {<<>>} \union UNION {{<<s>> \o q : q \in DOMAIN below[s]} : s \in DOMAIN below}
  <1>1. v = [p \in D |-> IF p = <<>> THEN node ELSE below[Head(p)][Tail(p)]]
    BY DEF Grown
  <1>2. <<>> \in D
    OBVIOUS
  <1>3. \A s \in DOMAIN below : \A q \in DOMAIN below[s] : s \in Steps /\ q \in Seq(Steps)
    BY DEF IsTree
  <1>4. \A p \in D : p # <<>> => \E s \in DOMAIN below : \E q \in DOMAIN below[s] : p = <<s>> \o q
    OBVIOUS
  <1>5. \A s \in DOMAIN below : \A q \in DOMAIN below[s] : <<s>> \o q \in D
    OBVIOUS
  <1>6. ASSUME NEW p \in D PROVE p \in Seq(Steps)
    <2>1. CASE p # <<>>
      <3>1. PICK s \in DOMAIN below : \E q \in DOMAIN below[s] : p = <<s>> \o q
        BY <1>4, <2>1
      <3>2. PICK q \in DOMAIN below[s] : p = <<s>> \o q
        BY <3>1
      <3> QED
        BY <1>3, <3>2, Down
    <2> QED
      BY <2>1, Root
  <1> HIDE DEF D
  <1>7. /\ v = [p \in DOMAIN v |-> v[p]] /\ DOMAIN v = D /\ v[<<>>] = node
        /\ \A p \in D : p # <<>> => v[p] = below[Head(p)][Tail(p)]
    BY <1>1, <1>2
  <1>8. IsTree(v) /\ IsValue(v)
    BY <1>2, <1>6, <1>7 DEF IsTree, IsValue
  <1> HIDE DEF v
  <1>9. ASSUME NEW s \in Steps
        PROVE  /\ s \in DOMAIN below => At(v, s) = below[s]
               /\ s \notin DOMAIN below => DOMAIN At(v, s) = {}
    <2>1. /\ At(v, s) = [q \in DOMAIN At(v, s) |-> At(v, s)[q]]
          /\ \A q \in DOMAIN At(v, s) : q \in Seq(Steps) /\ <<s>> \o q \in D /\ At(v, s)[q] = v[<<s>> \o q]
          /\ \A q \in Seq(Steps) : <<s>> \o q \in D => q \in DOMAIN At(v, s)
      BY <1>7, <1>8, AtFacts DEF IsTree
    <2>2. ASSUME NEW q \in Seq(Steps), <<s>> \o q \in D
          PROVE  s \in DOMAIN below /\ q \in DOMAIN below[s]
      <3>0. PICK s2 \in DOMAIN below : \E q2 \in DOMAIN below[s2] : <<s>> \o q = <<s2>> \o q2
        BY <1>4, <2>2, Down
      <3>1. PICK q2 \in DOMAIN below[s2] : <<s>> \o q = <<s2>> \o q2
        BY <3>0
      <3>2. Head(<<s>> \o q) = s /\ Tail(<<s>> \o q) = q /\ Head(<<s2>> \o q2) = s2 /\ Tail(<<s2>> \o q2) = q2
        BY <1>3, Down
      <3> QED
        BY <3>1, <3>2
    <2>3. CASE s \in DOMAIN below
      <3>1. below[s] = [q \in DOMAIN below[s] |-> below[s][q]]
        BY <2>3 DEF IsTree
      <3>2. \A q : q \in DOMAIN At(v, s) <=> q \in DOMAIN below[s]
        BY <1>3, <1>5, <2>1, <2>2, <2>3
      <3>3. ASSUME NEW q \in DOMAIN At(v, s) PROVE At(v, s)[q] = below[s][q]
        <4>1. q \in Seq(Steps) /\ <<s>> \o q \in D /\ At(v, s)[q] = v[<<s>> \o q]
          BY <2>1
        <4>2. v[<<s>> \o q] = below[Head(<<s>> \o q)][Tail(<<s>> \o q)]
          BY <1>7, <4>1, Down
        <4> QED
          BY <4>1, <4>2, Down
      <3> QED
        BY <2>1, <2>3, <3>1, <3>2, <3>3, SameFunction
    <2>4. CASE s \notin DOMAIN below
      BY <2>1, <2>2, <2>4
    <2> QED
      BY <2>3, <2>4
  <1> QED
    BY <1>7, <1>8, <1>9 DEF v

\* A dictionary has the names of f, and their values.
LEMMA DictFacts ==
    ASSUME NEW f, DOMAIN f \subseteq Names, \A n \in DOMAIN f : IsValue(f[n])
    PROVE  /\ IsValue(Dict(f))
           /\ Dict(f)[<<>>] = [is |-> "dict"]
           /\ \A n \in DOMAIN f : At(Dict(f), Key(n)) = f[n]
           /\ \A s \in Steps : (\A n \in DOMAIN f : s # Key(n)) => DOMAIN At(Dict(f), s) = {}
  <1> DEFINE below == [s \in {Key(n) : n \in DOMAIN f} |-> f[s[2]]]
             node == [is |-> "dict"]
  <1>1. Dict(f) = Grown(node, below)
    BY DEF Dict
  <1>2. /\ DOMAIN below = {Key(n) : n \in DOMAIN f} /\ DOMAIN below \subseteq Steps
        /\ \A n \in DOMAIN f : below[Key(n)] = f[n]
    BY DEF Key, Steps
  <1> HIDE DEF below, node
  <1>3. \A s \in DOMAIN below : IsTree(below[s])
    BY <1>2 DEF IsValue
  <1>4. /\ IsValue(Dict(f)) /\ Dict(f)[<<>>] = node
        /\ \A s \in DOMAIN below : At(Dict(f), s) = below[s]
        /\ \A s \in Steps \ DOMAIN below : DOMAIN At(Dict(f), s) = {}
    BY <1>1, <1>2, <1>3, GrownFacts
  <1> QED
    BY <1>2, <1>4 DEF node

\* A list has the places of l, and their values.
LEMMA ListFacts ==
    ASSUME NEW l, NEW k \in Nat, DOMAIN l = 1..k, Len(l) = k, \A i \in 1..k : IsValue(l[i])
    PROVE  /\ IsValue(List(l))
           /\ List(l)[<<>>] = [is |-> "list", len |-> k]
           /\ \A i \in 1..k : At(List(l), Place(i)) = l[i]
           /\ \A s \in Steps : (\A i \in 1..k : s # Place(i)) => DOMAIN At(List(l), s) = {}
  <1> DEFINE below == [s \in {Place(i) : i \in DOMAIN l} |-> l[s[2]]]
             node == [is |-> "list", len |-> Len(l)]
  <1>1. List(l) = Grown(node, below)
    BY DEF List
  <1>2. /\ DOMAIN below = {Place(i) : i \in 1..k} /\ DOMAIN below \subseteq Steps
        /\ \A i \in 1..k : below[Place(i)] = l[i]
    BY DEF Place, Steps
  <1>a. node = [is |-> "list", len |-> k]
    OBVIOUS
  <1> HIDE DEF below, node
  <1>3. \A s \in DOMAIN below : IsTree(below[s])
    BY <1>2 DEF IsValue
  <1>4. /\ IsValue(List(l)) /\ List(l)[<<>>] = node
        /\ \A s \in DOMAIN below : At(List(l), s) = below[s]
        /\ \A s \in Steps \ DOMAIN below : DOMAIN At(List(l), s) = {}
    BY <1>1, <1>2, <1>3, GrownFacts
  <1> QED
    BY <1>2, <1>4, <1>a

\* A text is a value without anything below it.
LEMMA TextFacts ==
    ASSUME NEW t
    PROVE  /\ IsValue(Text(t)) /\ DOMAIN Text(t) = {<<>>}
           /\ Text(t)[<<>>] = [is |-> "text", text |-> t]
  <1>1. DOMAIN Text(t) = {<<>>} /\ Text(t)[<<>>] = [is |-> "text", text |-> t]
    BY DEF Text, TextNode
  <1>2. Text(t) = [p \in DOMAIN Text(t) |-> Text(t)[p]]
    BY DEF Text
  <1> QED
    BY <1>1, <1>2, Root DEF IsValue, IsTree

-----------------------------------------------------------------------------
(* Redaction.                                                              *)

\* What Redact keeps, and as what.
LEMMA RedactFacts ==
    ASSUME NEW v, IsTree(v)
    PROVE  /\ IsTree(Redact(v)) /\ DOMAIN Redact(v) \subseteq DOMAIN v
           /\ \A p \in DOMAIN v : p \in DOMAIN Redact(v) <=> \A i \in 1..Len(p) - 1 : ~Hides(p[i])
           /\ \A p \in DOMAIN Redact(v) :
                Redact(v)[p] = IF p # <<>> /\ Hides(p[Len(p)]) THEN Redacted[<<>>] ELSE v[p]
           /\ <<>> \in DOMAIN v => <<>> \in DOMAIN Redact(v) /\ Redact(v)[<<>>] = v[<<>>]
  <1> DEFINE D == {p \in DOMAIN v : \A i \in 1..Len(p) - 1 : ~Hides(p[i])}
  <1>1. Redact(v) = [p \in D |-> IF p # <<>> /\ Hides(p[Len(p)]) THEN Redacted[<<>>] ELSE v[p]]
    BY DEF Redact
  <1>2. D \subseteq DOMAIN v /\ (<<>> \in DOMAIN v => <<>> \in D)
    BY Root
  <1>3. \A p \in DOMAIN v : p \in D <=> \A i \in 1..Len(p) - 1 : ~Hides(p[i])
    OBVIOUS
  <1> HIDE DEF D
  <1>4. /\ DOMAIN Redact(v) = D /\ Redact(v) = [p \in D |-> Redact(v)[p]]
        /\ \A p \in D : Redact(v)[p] = IF p # <<>> /\ Hides(p[Len(p)]) THEN Redacted[<<>>] ELSE v[p]
    BY <1>1
  <1>5. IsTree(Redact(v))
    BY <1>2, <1>4 DEF IsTree
  <1> QED
    BY <1>2, <1>3, <1>4, <1>5

\* Below a name or place that hides nothing Redact goes on; below another it
\* leaves only its mark.
LEMMA RedactAt ==
    ASSUME NEW v, IsTree(v), NEW s \in Steps
    PROVE  /\ ~Hides(s) => At(Redact(v), s) = Redact(At(v, s))
           /\ Hides(s) /\ <<s>> \in DOMAIN v => At(Redact(v), s) = Redacted
           /\ <<s>> \in DOMAIN Redact(v) <=> <<s>> \in DOMAIN v
           /\ Hides(s) /\ <<s>> \notin DOMAIN v => DOMAIN At(Redact(v), s) = {}
  <1> DEFINE r == Redact(v)
             a == At(v, s)
  <1>1. /\ IsTree(r) /\ DOMAIN r \subseteq DOMAIN v
        /\ \A p \in DOMAIN v : p \in DOMAIN r <=> \A i \in 1..Len(p) - 1 : ~Hides(p[i])
        /\ \A p \in DOMAIN r : r[p] = IF p # <<>> /\ Hides(p[Len(p)]) THEN Redacted[<<>>] ELSE v[p]
    BY RedactFacts
  <1> HIDE DEF r
  <1>2. /\ IsTree(At(r, s))
        /\ \A q \in Seq(Steps) : q \in DOMAIN At(r, s) <=> <<s>> \o q \in DOMAIN r
        /\ \A q \in DOMAIN At(r, s) : q \in Seq(Steps) /\ At(r, s)[q] = r[<<s>> \o q]
        /\ <<>> \in DOMAIN At(r, s) <=> <<s>> \in DOMAIN r
    BY <1>1, AtFacts
  <1>3. /\ IsTree(a)
        /\ \A q \in Seq(Steps) : q \in DOMAIN a <=> <<s>> \o q \in DOMAIN v
        /\ \A q \in DOMAIN a : q \in Seq(Steps) /\ a[q] = v[<<s>> \o q]
        /\ <<>> \in DOMAIN a <=> <<s>> \in DOMAIN v
    BY AtFacts
  <1> HIDE DEF a
  <1>4. /\ IsTree(Redact(a)) /\ DOMAIN Redact(a) \subseteq DOMAIN a
        /\ \A q \in DOMAIN a : q \in DOMAIN Redact(a) <=> \A i \in 1..Len(q) - 1 : ~Hides(q[i])
        /\ \A q \in DOMAIN Redact(a) :
            Redact(a)[q] = IF q # <<>> /\ Hides(q[Len(q)]) THEN Redacted[<<>>] ELSE a[q]
    BY <1>3, RedactFacts
  <1>5. \A q \in Seq(Steps) : q # <<>> => Len(q) >= 1
    OBVIOUS
  <1>6. <<s>> \in DOMAIN r <=> <<s>> \in DOMAIN v
    <2>1. Len(<<s>>) = 1
      OBVIOUS
    <2>2. 1..Len(<<s>>) - 1 = {}
      BY <2>1
    <2>3. <<s>> \in DOMAIN v => (<<s>> \in DOMAIN r <=> \A i \in {} : ~Hides(<<s>>[i]))
      BY <1>1, <2>2, Zenon
    <2> QED
      BY <1>1, <2>3, Zenon
  <1>7. ASSUME ~Hides(s) PROVE At(r, s) = Redact(a)
    <2>1. ASSUME NEW q \in Seq(Steps), <<s>> \o q \in DOMAIN v
          PROVE  (\A i \in 1..Len(<<s>> \o q) - 1 : ~Hides((<<s>> \o q)[i]))
                    <=> (\A i \in 1..Len(q) - 1 : ~Hides(q[i]))
      <3>1. /\ Len(<<s>> \o q) = Len(q) + 1 /\ Len(q) \in Nat /\ (<<s>> \o q)[1] = s
            /\ \A i \in 1..Len(q) : (<<s>> \o q)[i + 1] = q[i]
        BY Down
      <3>2. ASSUME \A i \in 1..Len(q) - 1 : ~Hides(q[i]), NEW i \in 1..Len(q)
            PROVE  ~Hides((<<s>> \o q)[i])
        <4>1. CASE i = 1
          BY <1>7, <3>1, <4>1
        <4>2. CASE i # 1
          <5>1. i - 1 \in 1..Len(q) - 1 /\ i = (i - 1) + 1
            BY <3>1, <4>2
          <5>2. i - 1 \in 1..Len(q)
            BY <3>1, <5>1
          <5> QED
            BY <3>1, <3>2, <5>1, <5>2
        <4> QED
          BY <4>1, <4>2
      <3>3. ASSUME \A i \in 1..Len(q) : ~Hides((<<s>> \o q)[i]), NEW i \in 1..Len(q) - 1
            PROVE  ~Hides(q[i])
        <4>1. i + 1 \in 1..Len(q) /\ i \in 1..Len(q)
          BY <3>1
        <4> QED
          BY <3>1, <3>3, <4>1
      <3>4. Len(<<s>> \o q) - 1 = Len(q)
        BY <3>1
      <3> QED
        BY <3>2, <3>3, <3>4
    <2>2. \A q : q \in DOMAIN At(r, s) <=> q \in DOMAIN Redact(a)
      BY <1>1, <1>2, <1>3, <1>4, <2>1
    <2>3. ASSUME NEW q \in DOMAIN At(r, s) PROVE At(r, s)[q] = Redact(a)[q]
      <3>1. q \in Seq(Steps) /\ <<s>> \o q \in DOMAIN r /\ At(r, s)[q] = r[<<s>> \o q]
        BY <1>2
      <3>2. /\ <<s>> \o q # <<>> /\ Len(<<s>> \o q) = Len(q) + 1 /\ Len(q) \in Nat
            /\ (<<s>> \o q)[1] = s
            /\ \A i \in 1..Len(q) : (<<s>> \o q)[i + 1] = q[i]
        BY <3>1, Down
      <3>3. r[<<s>> \o q] = IF Hides((<<s>> \o q)[Len(q) + 1]) THEN Redacted[<<>>] ELSE v[<<s>> \o q]
        BY <1>1, <3>1, <3>2
      <3>4. q \in DOMAIN Redact(a) /\ q \in DOMAIN a /\ a[q] = v[<<s>> \o q]
        BY <1>3, <1>4, <2>2
      <3>5. CASE q = <<>>
        <4>1. Len(q) = 0
          BY <3>5, Root
        <4> QED
          BY <1>4, <1>7, <3>1, <3>2, <3>3, <3>4, <3>5, <4>1
      <3>6. CASE q # <<>>
        <4>1. Len(q) \in 1..Len(q)
          BY <1>5, <3>1, <3>2, <3>6
        <4>2. (<<s>> \o q)[Len(q) + 1] = q[Len(q)]
          BY <3>2, <4>1
        <4> QED
          BY <1>4, <3>1, <3>3, <3>4, <3>6, <4>2
      <3> QED
        BY <3>5, <3>6
    <2>4. /\ At(r, s) = [q \in DOMAIN At(r, s) |-> At(r, s)[q]]
          /\ Redact(a) = [q \in DOMAIN Redact(a) |-> Redact(a)[q]]
      BY <1>2, <1>4 DEF IsTree
    <2> QED
      BY <2>2, <2>3, <2>4, SameFunction
  <1>8. ASSUME Hides(s), NEW q \in DOMAIN At(r, s) PROVE q = <<>> /\ At(r, s)[q] = Redacted[<<>>]
    <2>1. q \in Seq(Steps) /\ <<s>> \o q \in DOMAIN r /\ At(r, s)[q] = r[<<s>> \o q]
      BY <1>2
    <2>2. <<s>> \o q # <<>> /\ Len(<<s>> \o q) = Len(q) + 1 /\ Len(q) \in Nat /\ (<<s>> \o q)[1] = s
      BY <2>1, Down
    <2>3. q = <<>>
      <3>1. ASSUME q # <<>> PROVE 1 \in 1..Len(<<s>> \o q) - 1
        BY <1>5, <2>1, <2>2, <3>1
      <3>2. \A i \in 1..Len(<<s>> \o q) - 1 : ~Hides((<<s>> \o q)[i])
        BY <1>1, <2>1
      <3> QED
        BY <1>8, <2>2, <3>1, <3>2
    <2>4. Len(<<s>> \o q) = 1
      BY <2>2, <2>3, Root
    <2> QED
      BY <1>1, <1>8, <2>1, <2>2, <2>3, <2>4
  <1>9. ASSUME Hides(s), <<s>> \in DOMAIN v PROVE At(r, s) = Redacted
    <2>1. <<>> \in DOMAIN At(r, s)
      BY <1>2, <1>6, <1>9
    <2>2. Redacted = [p \in DOMAIN Redacted |-> Redacted[p]] /\ DOMAIN Redacted = {<<>>}
      BY TextFacts DEF Redacted, IsValue, IsTree
    <2>3. At(r, s) = [q \in DOMAIN At(r, s) |-> At(r, s)[q]]
      BY <1>2 DEF IsTree
    <2> HIDE DEF a
    <2>4. \A q : q \in DOMAIN At(r, s) <=> q \in DOMAIN Redacted
      BY <1>8, <1>9, <2>1, <2>2
    <2> QED
      BY <1>8, <1>9, <2>2, <2>3, <2>4, SameFunction
  <1>10. ASSUME Hides(s), <<s>> \notin DOMAIN v PROVE DOMAIN At(r, s) = {}
    BY <1>2, <1>6, <1>8, <1>10
  <1> QED
    BY <1>6, <1>7, <1>9, <1>10 DEF r, a

\* Redact of a value is a value with the same root.
LEMMA RedactIsValue ==
    ASSUME NEW v, IsValue(v)
    PROVE  IsValue(Redact(v)) /\ Redact(v)[<<>>] = v[<<>>]
  BY RedactFacts DEF IsValue

\* A tree without nodes stays one.
LEMMA RedactEmpty ==
    ASSUME NEW v, IsTree(v), DOMAIN v = {}
    PROVE  DOMAIN Redact(v) = {}
  BY RedactFacts

\* Trees without nodes are equal.
LEMMA EmptyTrees ==
    ASSUME NEW v, NEW w, IsTree(v), IsTree(w), DOMAIN v = {}, DOMAIN w = {}
    PROVE  v = w
  <1>1. v = [p \in DOMAIN v |-> v[p]] /\ w = [p \in DOMAIN w |-> w[p]]
    BY DEF IsTree
  <1> QED
    BY <1>1, SameFunction

\* redact, the case of a dictionary: a sensitive name, in whatever case, gets
\* "[REDACTED]", every other name its redacted value.
THEOREM RedactsDictionaries ==
    ASSUME NEW f, DOMAIN f \subseteq Names, \A n \in DOMAIN f : IsValue(f[n])
    PROVE  Redact(Dict(f)) = Dict([n \in DOMAIN f |-> IF IsSensitive(n) THEN Redacted ELSE Redact(f[n])])
  <1> DEFINE g == [n \in DOMAIN f |-> IF IsSensitive(n) THEN Redacted ELSE Redact(f[n])]
             v == Dict(f)
             w == Dict(g)
  <1>1. IsValue(Redacted)
    BY TextFacts DEF Redacted
  <1>2. /\ DOMAIN g = DOMAIN f
        /\ \A n \in DOMAIN f : g[n] = IF IsSensitive(n) THEN Redacted ELSE Redact(f[n])
    OBVIOUS
  <1> HIDE DEF g
  <1>3. \A n \in DOMAIN g : IsValue(g[n])
    BY <1>1, <1>2, RedactIsValue
  <1>4. /\ IsValue(v) /\ v[<<>>] = [is |-> "dict"]
        /\ \A n \in DOMAIN f : At(v, Key(n)) = f[n]
        /\ \A s \in Steps : (\A n \in DOMAIN f : s # Key(n)) => DOMAIN At(v, s) = {}
    BY DictFacts
  <1>5. /\ IsValue(w) /\ w[<<>>] = [is |-> "dict"]
        /\ \A n \in DOMAIN f : At(w, Key(n)) = g[n]
        /\ \A s \in Steps : (\A n \in DOMAIN f : s # Key(n)) => DOMAIN At(w, s) = {}
    BY <1>2, <1>3, DictFacts
  <1> HIDE DEF v, w
  <1>6. IsTree(v) /\ IsTree(w) /\ IsValue(Redact(v)) /\ IsTree(Redact(v)) /\ Redact(v)[<<>>] = w[<<>>]
    BY <1>4, <1>5, RedactIsValue DEF IsValue
  <1>7. ASSUME NEW s \in Steps PROVE At(Redact(v), s) = At(w, s)
    <2>1. IsTree(At(v, s)) /\ IsTree(At(w, s)) /\ IsTree(At(Redact(v), s))
      BY <1>6, AtFacts
    <2>2. CASE \E n \in DOMAIN f : s = Key(n)
      <3>1. PICK n \in DOMAIN f : s = Key(n)
        BY <2>2
      <3>2. Hides(s) <=> IsSensitive(n)
        BY <3>1 DEF Hides, Key
      <3>3. <<>> \in DOMAIN At(v, s)
        BY <1>4, <3>1 DEF IsValue
      <3>4. <<s>> \in DOMAIN v
        BY <1>6, <3>3, AtFacts
      <3>5. At(Redact(v), s) = IF IsSensitive(n) THEN Redacted ELSE Redact(At(v, s))
        BY <1>6, <3>2, <3>4, RedactAt
      <3> QED
        BY <1>2, <1>4, <1>5, <3>1, <3>5
    <2>3. CASE \A n \in DOMAIN f : s # Key(n)
      <3>1. DOMAIN At(v, s) = {} /\ DOMAIN At(w, s) = {}
        BY <1>4, <1>5, <2>3
      <3>2. <<s>> \notin DOMAIN v
        BY <1>6, <3>1, AtFacts
      <3>3. DOMAIN At(Redact(v), s) = {}
        BY <1>6, <2>1, <3>1, <3>2, RedactAt, RedactEmpty
      <3> QED
        BY <2>1, <3>1, <3>3, EmptyTrees
    <2> QED
      BY <2>2, <2>3
  <1> QED
    BY <1>5, <1>6, <1>7, SameBelow DEF v, w, g

\* redact, the case of a list: every item is redacted.
THEOREM RedactsLists ==
    ASSUME NEW V, NEW l \in Seq(V), \A i \in DOMAIN l : IsValue(l[i])
    PROVE  Redact(List(l)) = List([i \in DOMAIN l |-> Redact(l[i])])
  <1> DEFINE k == Len(l)
             g == [i \in DOMAIN l |-> Redact(l[i])]
             v == List(l)
             w == List(g)
  <1>1. DOMAIN l = 1..k /\ k \in Nat
    OBVIOUS
  <1> HIDE DEF k
  <1>2. DOMAIN g = 1..k /\ Len(g) = k /\ \A i \in 1..k : g[i] = Redact(l[i])
    BY <1>1
  <1> HIDE DEF g
  <1>3. \A i \in 1..k : IsValue(g[i])
    BY <1>1, <1>2, RedactIsValue
  <1>4. /\ IsValue(v) /\ v[<<>>] = [is |-> "list", len |-> k]
        /\ \A i \in 1..k : At(v, Place(i)) = l[i]
        /\ \A s \in Steps : (\A i \in 1..k : s # Place(i)) => DOMAIN At(v, s) = {}
    BY <1>1, ListFacts DEF k
  <1>5. /\ IsValue(w) /\ w[<<>>] = [is |-> "list", len |-> k]
        /\ \A i \in 1..k : At(w, Place(i)) = g[i]
        /\ \A s \in Steps : (\A i \in 1..k : s # Place(i)) => DOMAIN At(w, s) = {}
    BY <1>1, <1>2, <1>3, ListFacts
  <1> HIDE DEF v, w
  <1>6. IsTree(v) /\ IsTree(w) /\ IsValue(Redact(v)) /\ IsTree(Redact(v)) /\ Redact(v)[<<>>] = w[<<>>]
    BY <1>4, <1>5, RedactIsValue DEF IsValue
  <1>7. ASSUME NEW s \in Steps PROVE At(Redact(v), s) = At(w, s)
    <2>1. IsTree(At(v, s)) /\ IsTree(At(w, s)) /\ IsTree(At(Redact(v), s))
      BY <1>6, AtFacts
    <2>2. CASE \E i \in 1..k : s = Place(i)
      <3>1. PICK i \in 1..k : s = Place(i)
        BY <2>2
      <3>2. ~Hides(s)
        BY <3>1 DEF Hides, Place
      <3>3. At(Redact(v), s) = Redact(At(v, s))
        BY <1>6, <3>2, RedactAt
      <3>4. At(v, s) = l[i] /\ At(w, s) = Redact(l[i])
        BY <1>2, <1>4, <1>5, <3>1
      <3> QED
        BY <3>3, <3>4
    <2>3. CASE \A i \in 1..k : s # Place(i)
      <3>1. DOMAIN At(v, s) = {} /\ DOMAIN At(w, s) = {}
        BY <1>4, <1>5, <2>3
      <3>2. <<s>> \notin DOMAIN v
        BY <1>6, <3>1, AtFacts
      <3>3. DOMAIN At(Redact(v), s) = {}
        BY <1>6, <2>1, <3>1, <3>2, RedactAt, RedactEmpty
      <3> QED
        BY <2>1, <3>1, <3>3, EmptyTrees
    <2> QED
      BY <2>2, <2>3
  <1> QED
    BY <1>5, <1>6, <1>7, SameBelow DEF v, w, g

\* redact, any other value: it stays as it is.
THEOREM RedactsTexts ==
    ASSUME NEW t
    PROVE  Redact(Text(t)) = Text(t)
  <1>1. IsValue(Text(t)) /\ DOMAIN Text(t) = {<<>>}
    BY TextFacts
  <1>2. /\ IsTree(Text(t)) /\ IsTree(Redact(Text(t))) /\ DOMAIN Redact(Text(t)) \subseteq {<<>>}
        /\ <<>> \in DOMAIN Redact(Text(t)) /\ Redact(Text(t))[<<>>] = Text(t)[<<>>]
    BY <1>1, RedactFacts DEF IsValue
  <1>3. /\ Text(t) = [p \in DOMAIN Text(t) |-> Text(t)[p]]
        /\ Redact(Text(t)) = [p \in DOMAIN Redact(Text(t)) |-> Redact(Text(t))[p]]
    BY <1>2 DEF IsTree
  <1>4. \A p : p \in DOMAIN Text(t) <=> p \in DOMAIN Redact(Text(t))
    BY <1>1, <1>2
  <1>5. \A p \in DOMAIN Text(t) : Text(t)[p] = Redact(Text(t))[p]
    BY <1>1, <1>2
  <1> QED
    BY <1>3, <1>4, <1>5, SameFunction

-----------------------------------------------------------------------------
(* Fields.                                                                 *)

\* The fields of a value.
LEMMA GetFacts ==
    ASSUME NEW v, IsValue(v), NEW n \in Names
    PROVE  /\ Key(n) \in Steps
           /\ IsValue(Get(v, n))
           /\ Has(v, n) => Get(v, n) = At(v, Key(n)) /\ IsValue(At(v, Key(n)))
           /\ ~Has(v, n) => Get(v, n) = Nothing
  <1>1. Key(n) \in Steps
    BY DEF Key, Steps
  <1>2. IsValue(Nothing)
    BY TextFacts DEF Nothing
  <1>3. Has(v, n) => IsValue(At(v, Key(n)))
    BY <1>1, AtFacts DEF Has, IsValue
  <1> QED
    BY <1>1, <1>2, <1>3 DEF Get

\* The fields of a dictionary.
LEMMA DictFields ==
    ASSUME NEW f, DOMAIN f \subseteq Names, \A n \in DOMAIN f : IsValue(f[n])
    PROVE  /\ IsValue(Dict(f)) /\ Is(Dict(f), "dict")
           /\ \A n \in Names : Has(Dict(f), n) <=> n \in DOMAIN f
           /\ \A n \in DOMAIN f : Get(Dict(f), n) = f[n]
           /\ \A n \in Names \ DOMAIN f : Get(Dict(f), n) = Nothing
  <1> DEFINE v == Dict(f)
  <1>1. /\ IsValue(v) /\ v[<<>>] = [is |-> "dict"]
        /\ \A n \in DOMAIN f : At(v, Key(n)) = f[n]
        /\ \A s \in Steps : (\A n \in DOMAIN f : s # Key(n)) => DOMAIN At(v, s) = {}
    BY DictFacts
  <1> HIDE DEF v
  <1>2. Is(v, "dict") /\ IsTree(v)
    BY <1>1 DEF Is, IsValue
  <1>3. ASSUME NEW n \in Names PROVE /\ Key(n) \in Steps
                                      /\ \A m : Key(n) = Key(m) => n = m
    BY DEF Key, Steps
  <1>4. ASSUME NEW n \in Names PROVE Has(v, n) <=> n \in DOMAIN f
    <2>1. <<Key(n)>> \in DOMAIN v <=> <<>> \in DOMAIN At(v, Key(n))
      BY <1>2, <1>3, AtFacts
    <2>2. n \in DOMAIN f => <<>> \in DOMAIN At(v, Key(n))
      BY <1>1 DEF IsValue
    <2>3. n \notin DOMAIN f => DOMAIN At(v, Key(n)) = {}
      BY <1>1, <1>3
    <2> QED
      BY <1>2, <2>1, <2>2, <2>3 DEF Has
  <1> QED
    BY <1>1, <1>2, <1>4 DEF v, Get

\* The items of a list.
LEMMA ListItems ==
    ASSUME NEW l, NEW k \in Nat, DOMAIN l = 1..k, Len(l) = k, l = [i \in 1..k |-> l[i]],
           \A i \in 1..k : IsValue(l[i])
    PROVE  IsValue(List(l)) /\ Is(List(l), "list") /\ Items(List(l)) = l
  <1>1. /\ IsValue(List(l)) /\ List(l)[<<>>] = [is |-> "list", len |-> k]
        /\ \A i \in 1..k : At(List(l), Place(i)) = l[i]
    BY ListFacts
  <1>2. List(l)[<<>>].is = "list" /\ List(l)[<<>>].len = k
    BY <1>1
  <1>3. Items(List(l)) = [i \in 1..k |-> l[i]]
    BY <1>1, <1>2 DEF Items
  <1> QED
    BY <1>1, <1>2, <1>3 DEF Is

\* The fields of a redacted value.
LEMMA RedactFields ==
    ASSUME NEW v, IsValue(v), NEW n \in Names
    PROVE  /\ IsValue(Redact(v))
           /\ \A t : Is(Redact(v), t) <=> Is(v, t)
           /\ Has(Redact(v), n) <=> Has(v, n)
           /\ Get(Redact(v), n) = IF Has(v, n) THEN IF IsSensitive(n) THEN Redacted ELSE Redact(Get(v, n))
                                               ELSE Nothing
  <1>1. Key(n) \in Steps /\ (Hides(Key(n)) <=> IsSensitive(n))
    BY DEF Key, Steps, Hides
  <1>2. IsValue(Redact(v)) /\ Redact(v)[<<>>] = v[<<>>] /\ IsTree(v)
    BY RedactIsValue DEF IsValue
  <1>3. \A t : Is(Redact(v), t) <=> Is(v, t)
    BY <1>2 DEF Is
  <1>4. <<Key(n)>> \in DOMAIN Redact(v) <=> <<Key(n)>> \in DOMAIN v
    BY <1>1, <1>2, RedactAt
  <1>5. Has(Redact(v), n) <=> Has(v, n)
    BY <1>3, <1>4 DEF Has
  <1>6. ASSUME Has(v, n)
        PROVE  At(Redact(v), Key(n)) = IF IsSensitive(n) THEN Redacted ELSE Redact(At(v, Key(n)))
    BY <1>1, <1>2, <1>6, RedactAt DEF Has
  <1> QED
    BY <1>2, <1>3, <1>5, <1>6 DEF Get

-----------------------------------------------------------------------------
(* Secrets.                                                                *)

Secret(node) == node.is = "text" /\ node.text \in SecretTexts
NoSecret(v) == \A p \in DOMAIN v : ~Secret(v[p])
Guarded(v) == \A p \in DOMAIN v : Secret(v[p]) => \E i \in DOMAIN p : Hides(p[i])

\* NoSecret says what the property says.
LEMMA NoSecretTexts ==
    ASSUME NEW v, NoSecret(v)
    PROVE  TextsIn(v) \intersect SecretTexts = {}
  BY DEF NoSecret, Secret, TextsIn

\* A text that is no secret.
LEMMA HarmlessText ==
    ASSUME NEW t, t \notin SecretTexts
    PROVE  NoSecret(Text(t)) /\ ~Secret(Text(t)[<<>>]) /\ IsValue(Text(t))
  <1>1. IsValue(Text(t)) /\ DOMAIN Text(t) = {<<>>} /\ Text(t)[<<>>] = [is |-> "text", text |-> t]
    BY TextFacts
  <1>2. Text(t)[<<>>].text = t
    BY <1>1
  <1>3. ~Secret(Text(t)[<<>>])
    BY <1>2 DEF Secret
  <1> QED
    BY <1>1, <1>3 DEF NoSecret

\* Redaction removes what is guarded.
LEMMA RedactRemoves ==
    ASSUME NEW v, IsTree(v), Guarded(v)
    PROVE  NoSecret(Redact(v))
  <1>1. /\ DOMAIN Redact(v) \subseteq DOMAIN v
        /\ \A p \in DOMAIN v : p \in DOMAIN Redact(v) <=> \A i \in 1..Len(p) - 1 : ~Hides(p[i])
        /\ \A p \in DOMAIN Redact(v) :
             Redact(v)[p] = IF p # <<>> /\ Hides(p[Len(p)]) THEN Redacted[<<>>] ELSE v[p]
    BY RedactFacts
  <1>2. ~Secret(Redacted[<<>>])
    <2>1. "[REDACTED]" \notin SecretTexts
      BY SecretsAssumption
    <2> QED
      BY <2>1, HarmlessText DEF Redacted
  <1> SUFFICES ASSUME NEW p \in DOMAIN Redact(v), Secret(Redact(v)[p])
               PROVE  FALSE
    BY DEF NoSecret
  <1>3. p \in DOMAIN v /\ p \in Seq(Steps) /\ Len(p) \in Nat /\ DOMAIN p = 1..Len(p)
    BY <1>1 DEF IsTree
  <1>4. ~(p # <<>> /\ Hides(p[Len(p)])) /\ Redact(v)[p] = v[p]
    BY <1>1, <1>2
  <1>5. PICK i \in 1..Len(p) : Hides(p[i])
    BY <1>3, <1>4 DEF Guarded
  <1>6. p # <<>>
    BY <1>3, <1>5, Root
  <1>7. i # Len(p)
    BY <1>4, <1>5, <1>6
  <1>8. i \in 1..Len(p) - 1
    <2>1. \A k \in Nat : \A j \in 1..k : j # k => j \in 1..k - 1
      OBVIOUS
    <2> QED
      BY <1>3, <1>5, <1>7, <2>1
  <1> QED
    BY <1>1, <1>3, <1>5, <1>8

\* Without secrets there is nothing to guard.
LEMMA NothingToGuard ==
    ASSUME NEW v, NoSecret(v)
    PROVE  Guarded(v)
  BY DEF NoSecret, Guarded

\* A part of a value has no other secrets.
LEMMA NoSecretBelow ==
    ASSUME NEW v, IsValue(v), NoSecret(v), NEW n \in Names
    PROVE  NoSecret(Get(v, n))
  <1>1. NoSecret(Nothing)
    BY SecretsAssumption, HarmlessText DEF Nothing
  <1>2. ASSUME Has(v, n) PROVE NoSecret(At(v, Key(n)))
    <2>1. Key(n) \in Steps /\ IsTree(v)
      BY GetFacts DEF IsValue
    <2>2. \A q \in DOMAIN At(v, Key(n)) : <<Key(n)>> \o q \in DOMAIN v /\ At(v, Key(n))[q] = v[<<Key(n)>> \o q]
      BY <2>1, AtFacts
    <2> QED
      BY <2>2 DEF NoSecret
  <1> QED
    BY <1>1, <1>2 DEF Get

\* A value is guarded if its root is harmless and everything below it guarded.
LEMMA GuardedParts ==
    ASSUME NEW v, IsValue(v), ~Secret(v[<<>>]), \A s \in Steps : Guarded(At(v, s))
    PROVE  Guarded(v)
  <1> SUFFICES ASSUME NEW p \in DOMAIN v, Secret(v[p]) PROVE \E i \in DOMAIN p : Hides(p[i])
    BY DEF Guarded
  <1>1. p \in Seq(Steps) /\ p # <<>> /\ IsTree(v)
    BY DEF IsValue, IsTree
  <1>2. PICK s \in Steps, q \in Seq(Steps) : p = <<s>> \o q
    BY <1>1, Split
  <1>3. q \in DOMAIN At(v, s) /\ At(v, s)[q] = v[p]
    BY <1>1, <1>2, AtFacts
  <1>4. PICK i \in DOMAIN q : Hides(q[i])
    BY <1>3 DEF Guarded
  <1>5. i \in 1..Len(q) /\ Len(q) \in Nat
    BY <1>4
  <1>6. p[i + 1] = q[i] /\ Len(p) = Len(q) + 1
    BY <1>2, <1>5, Down
  <1>7. i + 1 \in DOMAIN p
    BY <1>1, <1>5, <1>6
  <1> QED
    BY <1>4, <1>6, <1>7

\* So is a dictionary of guarded values.
LEMMA GuardedDict ==
    ASSUME NEW f, DOMAIN f \subseteq Names, \A n \in DOMAIN f : IsValue(f[n]) /\ Guarded(f[n])
    PROVE  Guarded(Dict(f))
  <1>1. /\ IsValue(Dict(f)) /\ Dict(f)[<<>>] = [is |-> "dict"]
        /\ \A n \in DOMAIN f : At(Dict(f), Key(n)) = f[n]
        /\ \A s \in Steps : (\A n \in DOMAIN f : s # Key(n)) => DOMAIN At(Dict(f), s) = {}
    BY DictFacts
  <1>2. ASSUME NEW s \in Steps PROVE Guarded(At(Dict(f), s))
    <2>1. CASE \E n \in DOMAIN f : s = Key(n)
      BY <1>1, <2>1
    <2>2. CASE \A n \in DOMAIN f : s # Key(n)
      BY <1>1, <2>2 DEF Guarded
    <2> QED
      BY <2>1, <2>2
  <1>3. ~Secret(Dict(f)[<<>>])
    BY <1>1 DEF Secret
  <1> QED
    BY <1>1, <1>2, <1>3, GuardedParts

\* So is a list of them.
LEMMA GuardedList ==
    ASSUME NEW l, NEW k \in Nat, DOMAIN l = 1..k, Len(l) = k,
           \A i \in 1..k : IsValue(l[i]) /\ Guarded(l[i])
    PROVE  Guarded(List(l))
  <1>1. /\ IsValue(List(l)) /\ List(l)[<<>>] = [is |-> "list", len |-> k]
        /\ \A i \in 1..k : At(List(l), Place(i)) = l[i]
        /\ \A s \in Steps : (\A i \in 1..k : s # Place(i)) => DOMAIN At(List(l), s) = {}
    BY ListFacts
  <1>2. ASSUME NEW s \in Steps PROVE Guarded(At(List(l), s))
    <2>1. CASE \E i \in 1..k : s = Place(i)
      BY <1>1, <2>1
    <2>2. CASE \A i \in 1..k : s # Place(i)
      BY <1>1, <2>2 DEF Guarded
    <2> QED
      BY <2>1, <2>2
  <1>3. ~Secret(List(l)[<<>>])
    BY <1>1 DEF Secret
  <1> QED
    BY <1>1, <1>2, <1>3, GuardedParts

\* FirstOf chooses.
LEMMA FirstOfChooses ==
    ASSUME NEW v, NEW w
    PROVE  FirstOf(v, w) \in {v, w}
  BY DEF FirstOf

\* What the code takes for the payload of an item.
PayloadOf(item) == IF Has(item, "payload") THEN Get(item, "payload") ELSE item

\* The item a row becomes before it is normalised, and the evidence that rows
\* become, with Splunk configured (c) or not.
ItemOf(c, row) == IF c THEN SplunkItem(row) ELSE Redact(row)
Collected(c, rows) == NormaliseEvidence([i \in DOMAIN rows |-> ItemOf(c, rows[i])])

\* A row is a value, and its secrets are guarded.
LEMMA RowFacts ==
    ASSUME NEW r \in Rows
    PROVE  IsValue(r) /\ IsTree(r) /\ Guarded(r)
  <1>1. IsValue(r) /\ IsTree(r)
    BY RowsAssumption DEF IsValue, IsTree
  <1>2. \A p \in DOMAIN r : Secret(r[p]) => \E i \in DOMAIN p : p[i][1] = "key" /\ Lower[p[i][2]] \in Sensitive
    BY SecretsAssumption DEF Secret
  <1> QED
    BY <1>1, <1>2 DEF Guarded, Hides, IsSensitive

\* A row that is no dictionary, wrapped.
LEMMA WrappedFacts ==
    ASSUME NEW v, IsValue(v)
    PROVE  LET w == Dict([value |-> v])
               d == Dict([payload |-> w])
           IN  /\ IsValue(w) /\ Is(w, "dict")
               /\ \A n \in Names \ {"value"} : ~Has(w, n)
               /\ IsValue(d) /\ Is(d, "dict") /\ Get(d, "payload") = w
               /\ \A n \in Names : Has(d, n) <=> n = "payload"
               /\ Guarded(v) => Guarded(w)
  <1> DEFINE f == [value |-> v]
             w == Dict(f)
             g == [payload |-> w]
             d == Dict(g)
  <1>1. DOMAIN f = {"value"} /\ DOMAIN f \subseteq Names /\ f["value"] = v
    BY CodeNames
  <1> HIDE DEF f
  <1>2. /\ IsValue(w) /\ Is(w, "dict")
        /\ \A n \in Names : Has(w, n) <=> n = "value"
    BY <1>1, DictFields
  <1>3. Guarded(v) => Guarded(w)
    BY <1>1, GuardedDict
  <1> HIDE DEF w
  <1>4. DOMAIN g = {"payload"} /\ DOMAIN g \subseteq Names /\ g["payload"] = w
    BY CodeNames
  <1> HIDE DEF g
  <1>5. /\ IsValue(d) /\ Is(d, "dict") /\ Get(d, "payload") = w
        /\ \A n \in Names : Has(d, n) <=> n = "payload"
    BY <1>2, <1>4, DictFields
  <1> QED
    BY <1>2, <1>3, <1>5 DEF f, w, g, d

\* What is normalised from an item with guarded payload and harmless kind shows
\* no secret but in its title, and none there when the title is harmless.
LEMMA NormalisedIsHarmless ==
    ASSUME NEW i \in 1..MaxRows, NEW v, IsValue(v),
           Is(v, "dict") => NoSecret(Get(v, "kind")) /\ Guarded(PayloadOf(v)),
           ~Is(v, "dict") => Guarded(v)
    PROVE  LET item == Normalised(i, v)
           IN  /\ NoSecret(item.payload) /\ NoSecret(item.kind)
               /\ (Is(v, "dict") => NoSecret(Get(v, "title"))) => NoSecret(item.title)
  <1> DEFINE x == AsItem(v)
             T == Is(v, "dict") => NoSecret(Get(v, "title"))
  <1>1. /\ IsValue(x) /\ NoSecret(Get(x, "kind"))
        /\ Guarded(PayloadOf(x)) /\ IsValue(PayloadOf(x))
        /\ T => NoSecret(Get(x, "title"))
    <2>1. CASE Is(v, "dict")
      <3>1. x = v
        BY <2>1 DEF AsItem
      <3> QED
        BY <2>1, <3>1, GetFacts, CodeNames DEF PayloadOf
    <2>2. CASE ~Is(v, "dict")
      <3> DEFINE w == Dict([value |-> v])
                 d == Dict([payload |-> w])
      <3>1. x = d
        BY <2>2 DEF AsItem
      <3>2. /\ IsValue(w) /\ IsValue(d) /\ Get(d, "payload") = w /\ Guarded(w)
            /\ \A n \in Names : Has(d, n) <=> n = "payload"
        BY <2>2, WrappedFacts
      <3> HIDE DEF w, d
      <3>3. Get(d, "title") = Nothing /\ Get(d, "kind") = Nothing /\ PayloadOf(d) = w
        BY <3>2, CodeNames DEF Get, PayloadOf
      <3>4. NoSecret(Nothing)
        BY SecretsAssumption, HarmlessText DEF Nothing
      <3> HIDE DEF x
      <3> QED
        BY <3>1, <3>2, <3>3, <3>4
    <2> QED
      BY <2>1, <2>2
  <1>2. /\ Normalised(i, v).payload = Redact(PayloadOf(x))
        /\ Normalised(i, v).title = FirstOf(Get(x, "title"), Text(Numbered(i)))
        /\ Normalised(i, v).kind = FirstOf(Get(x, "kind"), Text("event"))
    BY DEF Normalised, PayloadOf
  <1> HIDE DEF x, T
  <1>3. NoSecret(Text(Numbered(i))) /\ NoSecret(Text("event"))
    BY SecretsAssumption, HarmlessText
  <1>4. NoSecret(Redact(PayloadOf(x)))
    BY <1>1, RedactRemoves DEF IsValue
  <1>5. /\ FirstOf(Get(x, "title"), Text(Numbered(i))) \in {Get(x, "title"), Text(Numbered(i))}
        /\ FirstOf(Get(x, "kind"), Text("event")) \in {Get(x, "kind"), Text("event")}
    BY FirstOfChooses
  <1>6. /\ T => NoSecret(FirstOf(Get(x, "title"), Text(Numbered(i))))
        /\ NoSecret(FirstOf(Get(x, "kind"), Text("event")))
    BY <1>1, <1>3, <1>5
  <1> QED
    BY <1>2, <1>4, <1>6 DEF T

\* A row of Splunk, wrapped.
LEMMA SplunkFacts ==
    ASSUME NEW r, IsValue(r)
    PROVE  LET title == FirstOf(Get(r, "detection_name"), FirstOf(Get(r, "rule"),
                        FirstOf(Get(r, "result_id"), Text("Detection event"))))
           IN  /\ IsValue(SplunkItem(r)) /\ Is(SplunkItem(r), "dict")
               /\ Has(SplunkItem(r), "payload") /\ Get(SplunkItem(r), "payload") = r
               /\ Has(SplunkItem(r), "title") /\ Get(SplunkItem(r), "title") = title
               /\ Has(SplunkItem(r), "kind") /\ Get(SplunkItem(r), "kind") = Text("splunk")
               /\ title \in {Get(r, "detection_name"), Get(r, "rule"), Get(r, "result_id"), Text("Detection event")}
  <1> DEFINE title == FirstOf(Get(r, "detection_name"), FirstOf(Get(r, "rule"),
                      FirstOf(Get(r, "result_id"), Text("Detection event"))))
             f == [kind |-> Text("splunk"), title |-> title, uri |-> Nothing, payload |-> r]
  <1>1. SplunkItem(r) = Dict(f)
    BY DEF SplunkItem
  <1>2. title \in {Get(r, "detection_name"), Get(r, "rule"), Get(r, "result_id"), Text("Detection event")}
    <2> DEFINE c == FirstOf(Get(r, "result_id"), Text("Detection event"))
               b == FirstOf(Get(r, "rule"), c)
    <2>1. c \in {Get(r, "result_id"), Text("Detection event")}
      BY FirstOfChooses
    <2>2. b \in {Get(r, "rule"), c}
      BY FirstOfChooses
    <2>3. title \in {Get(r, "detection_name"), b}
      BY FirstOfChooses
    <2> HIDE DEF title, b, c
    <2> QED
      BY <2>1, <2>2, <2>3
  <1>3. /\ IsValue(Get(r, "detection_name")) /\ IsValue(Get(r, "rule")) /\ IsValue(Get(r, "result_id"))
        /\ IsValue(Text("Detection event")) /\ IsValue(Text("splunk")) /\ IsValue(Nothing)
    BY GetFacts, TextFacts, CodeNames DEF Nothing
  <1> HIDE DEF title
  <1>4. IsValue(title)
    BY <1>2, <1>3
  <1>5. /\ DOMAIN f = {"kind", "title", "uri", "payload"} /\ DOMAIN f \subseteq Names
        /\ f["kind"] = Text("splunk") /\ f["title"] = title /\ f["uri"] = Nothing /\ f["payload"] = r
    BY CodeNames
  <1> HIDE DEF f
  <1>6. \A n \in DOMAIN f : IsValue(f[n])
    BY <1>3, <1>4, <1>5
  <1> QED
    BY <1>1, <1>2, <1>5, <1>6, DictFields, CodeNames DEF title

\* What is collected from a row shows no secret, but for a title from Splunk.
LEMMA CollectedIsHarmless ==
    ASSUME NEW c \in BOOLEAN, NEW r \in Rows, NEW i \in 1..MaxRows
    PROVE  LET item == Normalised(i, ItemOf(c, r))
           IN  NoSecret(item.payload) /\ NoSecret(item.kind) /\ (c \/ NoSecret(item.title))
  <1>1. IsValue(r) /\ IsTree(r) /\ Guarded(r)
    BY RowFacts
  <1>2. CASE c
    <2> DEFINE v == SplunkItem(r)
    <2>1. ItemOf(c, r) = v
      BY <1>2 DEF ItemOf
    <2>2. IsValue(v) /\ Is(v, "dict") /\ PayloadOf(v) = r /\ Get(v, "kind") = Text("splunk")
      BY <1>1, SplunkFacts DEF PayloadOf
    <2> HIDE DEF v
    <2>3. NoSecret(Text("splunk"))
      BY SecretsAssumption, HarmlessText
    <2>4. NoSecret(Get(v, "kind")) /\ Guarded(PayloadOf(v))
      BY <1>1, <2>2, <2>3
    <2> QED
      BY <1>2, <2>1, <2>2, <2>4, NormalisedIsHarmless
  <1>3. CASE ~c
    <2> DEFINE v == Redact(r)
    <2>1. ItemOf(c, r) = v
      BY <1>3 DEF ItemOf
    <2>2. IsValue(v) /\ NoSecret(v)
      BY <1>1, RedactIsValue, RedactRemoves
    <2> HIDE DEF v
    <2>3. NoSecret(Get(v, "title")) /\ NoSecret(Get(v, "kind")) /\ NoSecret(Get(v, "payload"))
      BY <2>2, NoSecretBelow, CodeNames
    <2>4. Guarded(PayloadOf(v)) /\ Guarded(v)
      BY <2>2, <2>3, NothingToGuard DEF PayloadOf
    <2> QED
      BY <2>1, <2>2, <2>3, <2>4, NormalisedIsHarmless
  <1> QED
    BY <1>2, <1>3

-----------------------------------------------------------------------------
(* Rows that recur.                                                        *)

\* No name occurs below a plain field.
IsPlain(v) ==
    \A p \in DOMAIN v : \A i, j \in DOMAIN p :
        i < j /\ p[i] \in {"key"} \X PlainFields => p[j][1] = "item"
Nameless(v) == \A p \in DOMAIN v : \A i \in DOMAIN p : p[i][1] = "item"

\* v and w have the same to say about a name, and about every plain one.
Same(v, w, n) == (Has(v, n) <=> Has(w, n)) /\ Get(v, n) = Get(w, n)
Alike(v, w) == \A n \in PlainFields : Same(v, w, n)

\* The items x and y give the same identity, title and kind.
Kin(x, y) ==
    /\ Is(x, "dict") <=> Is(y, "dict")
    /\ Same(x, y, "title") /\ Same(x, y, "kind")
    /\ Alike(PayloadOf(x), PayloadOf(y))

\* What is kept of a value without its volatile fields.
LEMMA LastingFacts ==
    ASSUME NEW v, IsTree(v)
    PROVE  /\ IsTree(Lasting(v))
           /\ \A p : p \in DOMAIN Lasting(v) <=>
                p \in DOMAIN v /\ \A i \in DOMAIN p : p[i] \notin {"key"} \X Volatile
           /\ \A p \in DOMAIN Lasting(v) : Lasting(v)[p] = v[p]
           /\ <<>> \in DOMAIN v => <<>> \in DOMAIN Lasting(v)
  <1> DEFINE D == {p \in DOMAIN v : \A i \in DOMAIN p : p[i] \notin {"key"} \X Volatile}
  <1>1. Lasting(v) = [p \in D |-> v[p]]
    BY DEF Lasting
  <1>2. DOMAIN Lasting(v) = D /\ \A p \in D : Lasting(v)[p] = v[p]
    BY <1>1
  <1>3. Lasting(v) = [p \in DOMAIN Lasting(v) |-> Lasting(v)[p]] /\ D \subseteq Seq(Steps)
    BY <1>1 DEF IsTree
  <1>4. \A i \in DOMAIN <<>> : FALSE
    OBVIOUS
  <1> QED
    BY <1>2, <1>3, <1>4 DEF IsTree

\* Taking the volatile fields out leaves a lasting name in its place.
LEMMA LastingAt ==
    ASSUME NEW v, IsTree(v), NEW s \in Steps, s \notin {"key"} \X Volatile
    PROVE  At(Lasting(v), s) = Lasting(At(v, s))
  <1> DEFINE l == Lasting(v)
             a == At(v, s)
  <1>1. /\ IsTree(l)
        /\ \A p : p \in DOMAIN l <=> p \in DOMAIN v /\ \A i \in DOMAIN p : p[i] \notin {"key"} \X Volatile
        /\ \A p \in DOMAIN l : l[p] = v[p]
    BY LastingFacts
  <1> HIDE DEF l
  <1>2. /\ IsTree(At(l, s))
        /\ \A q \in Seq(Steps) : q \in DOMAIN At(l, s) <=> <<s>> \o q \in DOMAIN l
        /\ \A q \in DOMAIN At(l, s) : q \in Seq(Steps) /\ At(l, s)[q] = l[<<s>> \o q]
    BY <1>1, AtFacts
  <1>3. /\ IsTree(a)
        /\ \A q \in Seq(Steps) : q \in DOMAIN a <=> <<s>> \o q \in DOMAIN v
        /\ \A q \in DOMAIN a : q \in Seq(Steps) /\ a[q] = v[<<s>> \o q]
    BY AtFacts
  <1> HIDE DEF a
  <1>4. /\ IsTree(Lasting(a))
        /\ \A q : q \in DOMAIN Lasting(a) <=>
                q \in DOMAIN a /\ \A i \in DOMAIN q : q[i] \notin {"key"} \X Volatile
        /\ \A q \in DOMAIN Lasting(a) : Lasting(a)[q] = a[q]
    BY <1>3, LastingFacts
  <1> DEFINE Out(x) == x \notin {"key"} \X Volatile
  <1>5. Out(s)
    OBVIOUS
  <1>6. /\ \A p : p \in DOMAIN l <=> p \in DOMAIN v /\ \A i \in DOMAIN p : Out(p[i])
        /\ \A q : q \in DOMAIN Lasting(a) <=> q \in DOMAIN a /\ \A i \in DOMAIN q : Out(q[i])
    BY <1>1, <1>4
  <1> HIDE DEF Out
  <1>7. ASSUME NEW q \in Seq(Steps)
        PROVE  (\A i \in DOMAIN (<<s>> \o q) : Out((<<s>> \o q)[i])) <=> (\A i \in DOMAIN q : Out(q[i]))
    <2>1. /\ Len(<<s>> \o q) = Len(q) + 1 /\ Len(q) \in Nat /\ (<<s>> \o q)[1] = s
          /\ \A i \in 1..Len(q) : (<<s>> \o q)[i + 1] = q[i]
          /\ DOMAIN q = 1..Len(q) /\ DOMAIN (<<s>> \o q) = 1..Len(q) + 1
      BY Down
    <2>2. ASSUME \A i \in 1..Len(q) : Out(q[i]), NEW i \in 1..Len(q) + 1
          PROVE  Out((<<s>> \o q)[i])
      <3>1. CASE i = 1
        BY <1>5, <2>1, <3>1
      <3>2. CASE i # 1
        <4>1. i - 1 \in 1..Len(q) /\ i = (i - 1) + 1
          BY <2>1, <3>2
        <4> QED
          BY <2>1, <2>2, <4>1
      <3> QED
        BY <3>1, <3>2
    <2>3. ASSUME \A i \in 1..Len(q) + 1 : Out((<<s>> \o q)[i]), NEW i \in 1..Len(q)
          PROVE  Out(q[i])
      <3>1. i + 1 \in 1..Len(q) + 1
        BY <2>1
      <3> QED
        BY <2>1, <2>3, <3>1
    <2> QED
      BY <2>1, <2>2, <2>3
  <1>8. \A q : q \in DOMAIN At(l, s) <=> q \in DOMAIN Lasting(a)
    BY <1>2, <1>3, <1>6, <1>7
  <1>9. \A q \in DOMAIN At(l, s) : At(l, s)[q] = Lasting(a)[q]
    BY <1>1, <1>2, <1>3, <1>4, <1>8
  <1>10. /\ At(l, s) = [q \in DOMAIN At(l, s) |-> At(l, s)[q]]
         /\ Lasting(a) = [q \in DOMAIN Lasting(a) |-> Lasting(a)[q]]
    BY <1>2, <1>4 DEF IsTree
  <1>11. At(l, s) = Lasting(a)
    BY <1>8, <1>9, <1>10, SameFunction
  <1> QED
    BY <1>11 DEF l, a

\* Without names there is nothing volatile and nothing sensitive.
LEMMA NamelessStays ==
    ASSUME NEW v, IsValue(v), Nameless(v)
    PROVE  Lasting(v) = v /\ Redact(v) = v
  <1>1. IsTree(v) /\ v = [p \in DOMAIN v |-> v[p]]
    BY DEF IsValue, IsTree
  <1>2. Lasting(v) = v
    <2>1. \A p \in DOMAIN v : \A i \in DOMAIN p : p[i] \notin {"key"} \X Volatile
      BY DEF Nameless
    <2>2. /\ Lasting(v) = [p \in DOMAIN Lasting(v) |-> Lasting(v)[p]]
          /\ \A p : p \in DOMAIN Lasting(v) <=> p \in DOMAIN v
          /\ \A p \in DOMAIN Lasting(v) : Lasting(v)[p] = v[p]
      BY <1>1, <2>1, LastingFacts DEF IsTree
    <2> QED
      BY <1>1, <2>2, SameFunction
  <1>3. Redact(v) = v
    <2>1. ASSUME NEW p \in DOMAIN v
          PROVE  /\ \A i \in 1..Len(p) - 1 : ~Hides(p[i])
                 /\ p # <<>> => ~Hides(p[Len(p)])
      <3>1. p \in Seq(Steps) /\ Len(p) \in Nat /\ DOMAIN p = 1..Len(p)
        BY <1>1 DEF IsTree
      <3>2. \A i \in 1..Len(p) : ~Hides(p[i])
        BY <3>1 DEF Nameless, Hides
      <3>3. p # <<>> => Len(p) \in 1..Len(p)
        BY <3>1
      <3> QED
        BY <3>1, <3>2, <3>3
    <2>2. /\ Redact(v) = [p \in DOMAIN Redact(v) |-> Redact(v)[p]]
          /\ DOMAIN Redact(v) \subseteq DOMAIN v
          /\ \A p \in DOMAIN v : p \in DOMAIN Redact(v) <=> \A i \in 1..Len(p) - 1 : ~Hides(p[i])
          /\ \A p \in DOMAIN Redact(v) :
               Redact(v)[p] = IF p # <<>> /\ Hides(p[Len(p)]) THEN Redacted[<<>>] ELSE v[p]
      BY <1>1, RedactFacts DEF IsTree
    <2>3. (\A p : p \in DOMAIN Redact(v) <=> p \in DOMAIN v) /\ \A p \in DOMAIN Redact(v) : Redact(v)[p] = v[p]
      BY <2>1, <2>2
    <2> QED
      BY <1>1, <2>2, <2>3, SameFunction
  <1> QED
    BY <1>2, <1>3

\* Below a plain field of a plain value there are no names, and every part of
\* a plain value is plain.
LEMMA PlainBelow ==
    ASSUME NEW v, IsTree(v), IsPlain(v), NEW n \in Names
    PROVE  /\ IsPlain(At(v, Key(n)))
           /\ n \in PlainFields => Nameless(At(v, Key(n)))
  <1> DEFINE s == Key(n)
  <1>1. s \in Steps /\ (n \in PlainFields => s \in {"key"} \X PlainFields)
    BY DEF Key, Steps
  <1> HIDE DEF s
  <1>2. \A q \in DOMAIN At(v, s) : q \in Seq(Steps) /\ <<s>> \o q \in DOMAIN v
    BY <1>1, AtFacts
  <1>3. ASSUME NEW q \in DOMAIN At(v, s), NEW i \in DOMAIN q
        PROVE  /\ i + 1 \in DOMAIN (<<s>> \o q) /\ (<<s>> \o q)[i + 1] = q[i]
               /\ 1 \in DOMAIN (<<s>> \o q) /\ (<<s>> \o q)[1] = s /\ 1 < i + 1 /\ i \in Nat
    <2>1. q \in Seq(Steps) /\ i \in 1..Len(q) /\ Len(q) \in Nat
      BY <1>2
    <2>2. /\ Len(<<s>> \o q) = Len(q) + 1 /\ (<<s>> \o q)[1] = s /\ <<s>> \o q \in Seq(Steps)
          /\ \A k \in 1..Len(q) : (<<s>> \o q)[k + 1] = q[k]
      BY <1>1, <2>1, Down
    <2>3. DOMAIN (<<s>> \o q) = 1..Len(q) + 1
      BY <2>2
    <2> QED
      BY <2>1, <2>2, <2>3
  <1>4. IsPlain(At(v, s))
    <2> SUFFICES ASSUME NEW q \in DOMAIN At(v, s), NEW i \in DOMAIN q, NEW j \in DOMAIN q,
                        i < j, q[i] \in {"key"} \X PlainFields
                 PROVE  q[j][1] = "item"
      BY DEF IsPlain
    <2> DEFINE w == <<s>> \o q
    <2>1. i + 1 < j + 1
      BY <1>3
    <2>2. i + 1 \in DOMAIN w /\ w[i + 1] = q[i] /\ j + 1 \in DOMAIN w /\ w[j + 1] = q[j]
      BY <1>3
    <2>3. w \in DOMAIN v
      BY <1>2
    <2> HIDE DEF w
    <2>4. \A a, b \in DOMAIN w : a < b /\ w[a] \in {"key"} \X PlainFields => w[b][1] = "item"
      BY <2>3, Zenon DEF IsPlain
    <2> QED
      BY <2>1, <2>2, <2>4
  <1>5. ASSUME n \in PlainFields PROVE Nameless(At(v, s))
    <2> SUFFICES ASSUME NEW q \in DOMAIN At(v, s), NEW i \in DOMAIN q PROVE q[i][1] = "item"
      BY DEF Nameless
    <2> DEFINE w == <<s>> \o q
    <2>1. i + 1 \in DOMAIN w /\ w[i + 1] = q[i] /\ 1 \in DOMAIN w /\ w[1] = s /\ 1 < i + 1
      BY <1>3
    <2>2. w \in DOMAIN v
      BY <1>2
    <2> HIDE DEF w
    <2>3. \A a, b \in DOMAIN w : a < b /\ w[a] \in {"key"} \X PlainFields => w[b][1] = "item"
      BY <2>2, Zenon DEF IsPlain
    <2> QED
      BY <1>1, <1>5, <2>1, <2>3
  <1> QED
    BY <1>4, <1>5 DEF s

\* A plain field is the same after redaction, unless it is sensitive.
LEMMA PlainFieldStays ==
    ASSUME NEW v, IsValue(v), IsPlain(v), NEW n \in PlainFields, ~IsSensitive(n)
    PROVE  Get(Redact(v), n) = Get(v, n)
  <1>1. n \in Names /\ IsTree(v)
    BY CodeNames DEF IsValue
  <1>2. CASE Has(v, n)
    <2>1. Get(v, n) = At(v, Key(n)) /\ IsValue(At(v, Key(n)))
      BY <1>1, <1>2, GetFacts
    <2>2. Nameless(At(v, Key(n)))
      BY <1>1, PlainBelow
    <2>3. Redact(Get(v, n)) = Get(v, n)
      BY <2>1, <2>2, NamelessStays
    <2> QED
      BY <1>1, <1>2, <2>3, RedactFields
  <1>3. CASE ~Has(v, n)
    BY <1>1, <1>3, RedactFields, GetFacts
  <1> QED
    BY <1>2, <1>3

\* A redacted value is as plain as it was.
LEMMA RedactIsPlain ==
    ASSUME NEW v, IsTree(v), IsPlain(v)
    PROVE  IsPlain(Redact(v))
  BY RedactFacts DEF IsPlain

\* Values that differ in volatile fields only say the same about a name that is
\* not volatile and has nothing volatile below it.
LEMMA LastingSame ==
    ASSUME NEW v, IsValue(v), IsPlain(v), NEW w, IsValue(w), IsPlain(w), Lasting(v) = Lasting(w)
    PROVE  /\ \A t : Is(v, t) <=> Is(w, t)
           /\ Alike(v, w)
           /\ Has(v, "payload") <=> Has(w, "payload")
           /\ Has(v, "payload") => Lasting(Get(v, "payload")) = Lasting(Get(w, "payload"))
  <1>1. IsTree(v) /\ IsTree(w) /\ <<>> \in DOMAIN v /\ <<>> \in DOMAIN w
    BY DEF IsValue
  <1>2. v[<<>>] = w[<<>>]
    BY <1>1, LastingFacts
  <1>3. \A t : Is(v, t) <=> Is(w, t)
    BY <1>2 DEF Is
  <1>4. ASSUME NEW n \in Names, n \notin Volatile
        PROVE  /\ Has(v, n) <=> Has(w, n)
               /\ Lasting(At(v, Key(n))) = Lasting(At(w, Key(n)))
    <2>1. Key(n) \in Steps /\ Key(n) \notin {"key"} \X Volatile
      BY <1>4 DEF Key, Steps
    <2>2. Lasting(At(v, Key(n))) = Lasting(At(w, Key(n)))
      <3>1. At(Lasting(v), Key(n)) = Lasting(At(v, Key(n)))
        BY <1>1, <2>1, LastingAt
      <3>2. At(Lasting(w), Key(n)) = Lasting(At(w, Key(n)))
        BY <1>1, <2>1, LastingAt
      <3> QED
        BY <3>1, <3>2
    <2>3. <<Key(n)>> \in DOMAIN v <=> <<Key(n)>> \in DOMAIN w
      <3>1. IsTree(At(v, Key(n))) /\ (<<>> \in DOMAIN At(v, Key(n)) <=> <<Key(n)>> \in DOMAIN v)
        BY <1>1, <2>1, AtFacts
      <3>2. IsTree(At(w, Key(n))) /\ (<<>> \in DOMAIN At(w, Key(n)) <=> <<Key(n)>> \in DOMAIN w)
        BY <1>1, <2>1, AtFacts
      <3>3. <<>> \in DOMAIN At(v, Key(n)) <=> <<>> \in DOMAIN Lasting(At(v, Key(n)))
        BY <3>1, LastingFacts
      <3>4. <<>> \in DOMAIN At(w, Key(n)) <=> <<>> \in DOMAIN Lasting(At(w, Key(n)))
        BY <3>2, LastingFacts
      <3> QED
        BY <2>2, <3>1, <3>2, <3>3, <3>4
    <2> QED
      BY <1>3, <2>2, <2>3 DEF Has
  <1>5. ASSUME NEW n \in PlainFields PROVE Same(v, w, n)
    <2>1. n \in Names /\ n \notin Volatile
      BY CodeNames, StableAssumption
    <2>2. CASE Has(v, n)
      <3>1. Has(w, n) /\ Lasting(At(v, Key(n))) = Lasting(At(w, Key(n)))
        BY <1>4, <2>1, <2>2
      <3>2. /\ Get(v, n) = At(v, Key(n)) /\ IsValue(At(v, Key(n)))
            /\ Get(w, n) = At(w, Key(n)) /\ IsValue(At(w, Key(n)))
        BY <2>1, <2>2, <3>1, GetFacts
      <3>3. Nameless(At(v, Key(n))) /\ Nameless(At(w, Key(n)))
        BY <1>1, <2>1, PlainBelow
      <3>4. At(v, Key(n)) = At(w, Key(n))
        BY <3>1, <3>2, <3>3, NamelessStays
      <3> QED
        BY <2>2, <3>1, <3>2, <3>4 DEF Same
    <2>3. CASE ~Has(v, n)
      BY <1>4, <2>1, <2>3, GetFacts DEF Same
    <2> QED
      BY <2>2, <2>3
  <1>6. "payload" \in Names /\ "payload" \notin Volatile
    BY CodeNames, StableAssumption
  <1>7. /\ Has(v, "payload") <=> Has(w, "payload")
        /\ Has(v, "payload") => Lasting(Get(v, "payload")) = Lasting(Get(w, "payload"))
    BY <1>4, <1>6 DEF Get
  <1> QED
    BY <1>3, <1>5, <1>7 DEF Alike

\* Such rows are kin.
LEMMA LastingKin ==
    ASSUME NEW v, IsValue(v), IsPlain(v), NEW w, IsValue(w), IsPlain(w), Lasting(v) = Lasting(w)
    PROVE  Kin(v, w)
  <1>1. /\ \A t : Is(v, t) <=> Is(w, t)
        /\ Alike(v, w)
        /\ Has(v, "payload") <=> Has(w, "payload")
        /\ Has(v, "payload") => Lasting(Get(v, "payload")) = Lasting(Get(w, "payload"))
    BY LastingSame
  <1>2. Same(v, w, "title") /\ Same(v, w, "kind")
    BY <1>1 DEF Alike, PlainFields
  <1>3. CASE Has(v, "payload")
    <2> DEFINE a == Get(v, "payload")
               b == Get(w, "payload")
    <2>1. "payload" \in Names /\ IsTree(v) /\ IsTree(w)
      BY CodeNames DEF IsValue
    <2>2. a = At(v, Key("payload")) /\ b = At(w, Key("payload")) /\ IsValue(a) /\ IsValue(b)
      BY <1>1, <1>3, <2>1, GetFacts
    <2>3. IsPlain(a) /\ IsPlain(b)
      BY <2>1, <2>2, PlainBelow
    <2>4. Lasting(a) = Lasting(b)
      BY <1>1, <1>3
    <2>5. PayloadOf(v) = a /\ PayloadOf(w) = b
      BY <1>1, <1>3 DEF PayloadOf
    <2> HIDE DEF a, b
    <2>6. Alike(a, b)
      BY <2>2, <2>3, <2>4, LastingSame
    <2> QED
      BY <1>1, <1>2, <2>5, <2>6 DEF Kin
  <1>4. CASE ~Has(v, "payload")
    BY <1>1, <1>2, <1>4 DEF Kin, PayloadOf
  <1> QED
    BY <1>3, <1>4

\* Redaction keeps values alike.
LEMMA RedactAlike ==
    ASSUME NEW v, IsValue(v), NEW w, IsValue(w)
    PROVE  /\ \A n \in Names : Same(v, w, n) => Same(Redact(v), Redact(w), n)
           /\ Alike(v, w) => Alike(Redact(v), Redact(w))
  <1>1. ASSUME NEW n \in Names, Same(v, w, n) PROVE Same(Redact(v), Redact(w), n)
    <2>1. /\ Has(Redact(v), n) <=> Has(v, n)
          /\ Get(Redact(v), n) = IF Has(v, n) THEN IF IsSensitive(n) THEN Redacted ELSE Redact(Get(v, n))
                                              ELSE Nothing
      BY RedactFields
    <2>2. /\ Has(Redact(w), n) <=> Has(w, n)
          /\ Get(Redact(w), n) = IF Has(w, n) THEN IF IsSensitive(n) THEN Redacted ELSE Redact(Get(w, n))
                                              ELSE Nothing
      BY RedactFields
    <2> QED
      BY <1>1, <2>1, <2>2 DEF Same
  <1> QED
    BY <1>1, CodeNames DEF Alike

\* The payload of a redacted item is the redacted payload.
LEMMA RedactedPayload ==
    ASSUME NEW v, IsValue(v)
    PROVE  PayloadOf(Redact(v)) = Redact(PayloadOf(v)) /\ IsValue(PayloadOf(v))
  <1>1. "payload" \in Names /\ ~IsSensitive("payload")
    BY CodeNames, StableAssumption DEF IsSensitive
  <1> QED
    BY <1>1, RedactFields, GetFacts DEF PayloadOf

\* Redaction keeps rows kin.
LEMMA RedactKin ==
    ASSUME NEW v, IsValue(v), NEW w, IsValue(w), Kin(v, w)
    PROVE  Kin(Redact(v), Redact(w))
  <1>1. "title" \in Names /\ "kind" \in Names
    BY CodeNames
  <1>2. /\ Same(Redact(v), Redact(w), "title") /\ Same(Redact(v), Redact(w), "kind")
    BY <1>1, RedactAlike DEF Kin
  <1>3. Is(Redact(v), "dict") <=> Is(Redact(w), "dict")
    BY <1>1, RedactFields DEF Kin
  <1>4. Alike(Redact(PayloadOf(v)), Redact(PayloadOf(w)))
    BY RedactedPayload, RedactAlike DEF Kin
  <1> QED
    BY <1>2, <1>3, <1>4, RedactedPayload DEF Kin

\* So does wrapping them.
LEMMA SplunkKin ==
    ASSUME NEW v, IsValue(v), NEW w, IsValue(w), Alike(v, w)
    PROVE  Kin(SplunkItem(v), SplunkItem(w))
  <1> DEFINE Title(r) == FirstOf(Get(r, "detection_name"), FirstOf(Get(r, "rule"),
                         FirstOf(Get(r, "result_id"), Text("Detection event"))))
  <1>1. /\ Get(v, "detection_name") = Get(w, "detection_name")
        /\ Get(v, "rule") = Get(w, "rule") /\ Get(v, "result_id") = Get(w, "result_id")
    BY DEF Alike, Same, PlainFields, TitleFields
  <1>2. Title(v) = Title(w)
    BY <1>1
  <1>3. \A r : IsValue(r) =>
          /\ Is(SplunkItem(r), "dict") /\ PayloadOf(SplunkItem(r)) = r
          /\ Has(SplunkItem(r), "title") /\ Get(SplunkItem(r), "title") = Title(r)
          /\ Has(SplunkItem(r), "kind") /\ Get(SplunkItem(r), "kind") = Text("splunk")
    BY SplunkFacts DEF PayloadOf
  <1> HIDE DEF Title
  <1> QED
    BY <1>2, <1>3 DEF Kin, Same

\* An item that kin items become has the same part in the finding key.
LEMMA KinIdentity ==
    ASSUME NEW i, NEW v, IsValue(v), NEW w, IsValue(w), Kin(v, w)
    PROVE  LET x == Normalised(i, v)
               y == Normalised(i, w)
           IN  x.title = y.title /\ x.kind = y.kind /\ Identity(x) = Identity(y)
  <1> DEFINE x == Normalised(i, v)
             y == Normalised(i, w)
  <1>1. ASSUME NEW a, NEW b, Kin(a, b), x.payload = Redact(PayloadOf(a)), y.payload = Redact(PayloadOf(b)),
               IsValue(PayloadOf(a)), IsValue(PayloadOf(b))
        PROVE  Identity(x) = Identity(y)
    <2>1. Alike(x.payload, y.payload)
      BY <1>1, RedactAlike DEF Kin
    <2> HIDE DEF x, y
    <2>2. \A n \in StableFields : Get(x.payload, n) = Get(y.payload, n)
      BY <2>1 DEF Alike, Same, PlainFields
    <2> QED
      BY <2>2 DEF Identity
  <1>2. /\ x.title = FirstOf(Get(AsItem(v), "title"), Text(Numbered(i)))
        /\ x.kind = FirstOf(Get(AsItem(v), "kind"), Text("event"))
        /\ x.payload = Redact(PayloadOf(AsItem(v)))
    BY DEF Normalised, PayloadOf
  <1>3. /\ y.title = FirstOf(Get(AsItem(w), "title"), Text(Numbered(i)))
        /\ y.kind = FirstOf(Get(AsItem(w), "kind"), Text("event"))
        /\ y.payload = Redact(PayloadOf(AsItem(w)))
    BY DEF Normalised, PayloadOf
  <1>4. CASE Is(v, "dict")
    <2>1. AsItem(v) = v /\ AsItem(w) = w
      BY <1>4 DEF AsItem, Kin
    <2>2. Get(v, "title") = Get(w, "title") /\ Get(v, "kind") = Get(w, "kind")
      BY DEF Kin, Same
    <2>3. IsValue(PayloadOf(v)) /\ IsValue(PayloadOf(w))
      BY RedactedPayload
    <2> HIDE DEF x, y
    <2> QED
      BY <1>1, <1>2, <1>3, <2>1, <2>2, <2>3 DEF x, y
  <1>5. CASE ~Is(v, "dict")
    <2> DEFINE Wrap(r) == Dict([payload |-> Dict([value |-> r])])
    <2>1. AsItem(v) = Wrap(v) /\ AsItem(w) = Wrap(w)
      BY <1>5 DEF AsItem, Kin
    <2>2. ASSUME NEW r, IsValue(r)
          PROVE  /\ ~Has(Wrap(r), "title") /\ ~Has(Wrap(r), "kind")
                 /\ IsValue(PayloadOf(Wrap(r)))
                 /\ \A n \in StableFields : ~Has(PayloadOf(Wrap(r)), n)
      <3> DEFINE z == Dict([value |-> r])
      <3>1. /\ IsValue(z) /\ \A n \in Names \ {"value"} : ~Has(z, n)
            /\ Get(Wrap(r), "payload") = z
            /\ \A n \in Names : Has(Wrap(r), n) <=> n = "payload"
        BY <2>2, WrappedFacts
      <3> HIDE DEF z, Wrap
      <3>2. PayloadOf(Wrap(r)) = z
        BY <3>1, CodeNames DEF PayloadOf
      <3> QED
        BY <3>1, <3>2, CodeNames, StableAssumption
    <2>3. ASSUME NEW r, IsValue(r), NEW n \in StableFields
          PROVE  Get(Redact(PayloadOf(Wrap(r))), n) = Nothing
      BY <2>2, <2>3, RedactFields, CodeNames
    <2>4. /\ Get(Wrap(v), "title") = Nothing /\ Get(Wrap(w), "title") = Nothing
          /\ Get(Wrap(v), "kind") = Nothing /\ Get(Wrap(w), "kind") = Nothing
      BY <2>2 DEF Get
    <2> HIDE DEF Wrap, x, y
    <2>5. \A n \in StableFields : Get(x.payload, n) = Nothing /\ Get(y.payload, n) = Nothing
      BY <1>2, <1>3, <2>1, <2>3
    <2>6. Identity(x) = Identity(y)
      BY <2>5 DEF Identity
    <2> QED
      BY <1>2, <1>3, <2>1, <2>4, <2>6 DEF x, y
  <1> QED
    BY <1>4, <1>5

-----------------------------------------------------------------------------
(* The invariant.                                                          *)

\* What was submitted is stored redacted, and the history has it as it was.
JobInv ==
    /\ job.row_limit \in Nat
    /\ NoSecret(job.summary)
    /\ stage = "claimed" =>
        \/ job.summary = Redact(Dict([evidence |-> List(raw)]))
        \/ job.summary = Redact(Dict([note |-> Text("none")]))

\* The evidence is what the rows of the history become.
CollectedInv ==
    /\ raw \in Runs
    /\ stage = "prompted" => /\ evidence = Collected(configured, raw)
                             /\ prompt = ReviewPrompt(job, evidence)
    /\ stage # "prompted" => prompt = <<>>

\* So is the evidence that was stored, and so are the keys.
StoredInv ==
    /\ \/ latest.evidence = <<>>
       \/ \E rows \in Runs : latest.evidence = Stored(Collected(configured, rows))
    /\ \A a \in reviews : a.rows \in Runs /\ a.key = FindingKey(a, Collected(configured, a.rows))

EvidenceInv == configured \in BOOLEAN /\ JobInv /\ CollectedInv /\ StoredInv

\* A run is a bounded sequence of rows.
LEMMA RunFacts ==
    ASSUME NEW run \in Runs
    PROVE  /\ run \in Seq(Rows) /\ Len(run) \in 0..MaxRows /\ DOMAIN run = 1..Len(run)
           /\ run = [i \in 1..Len(run) |-> run[i]]
           /\ \A i \in DOMAIN run : run[i] \in Rows /\ i \in 1..MaxRows
  <1>1. MaxRows \in Nat
    BY EvidenceAssumption
  <1>2. PICK n \in 0..MaxRows : run \in [1..n -> Rows]
    BY DEF Runs
  <1>3. n \in Nat
    BY <1>1, <1>2
  <1>4. run \in Seq(Rows) /\ Len(run) = n
    BY <1>2, <1>3
  <1> QED
    BY <1>1, <1>2, <1>3, <1>4

\* What is left of it when it is cut.
LEMMA FirstFacts ==
    ASSUME NEW V, NEW l \in Seq(V), NEW k \in Nat
    PROVE  /\ First(k, l) = [i \in 1..Least(k, Len(l)) |-> l[i]]
           /\ Least(k, Len(l)) \in 0..Len(l)
  <1>1. Len(l) \in Nat /\ Least(k, Len(l)) \in 0..Len(l)
    BY DEF Least
  <1> DEFINE m == Least(k, Len(l))
  <1>2. SubSeq(l, 1, m) = [i \in 1..m |-> l[i]]
    BY <1>1
  <1> QED
    BY <1>1, <1>2 DEF First

\* A run that is cut is a run.
LEMMA FirstIsRun ==
    ASSUME NEW run \in Runs, NEW k \in Nat
    PROVE  First(k, run) \in Runs
  <1>1. run \in Seq(Rows) /\ Len(run) \in 0..MaxRows /\ \A i \in 1..Len(run) : run[i] \in Rows
    BY RunFacts
  <1> DEFINE m == Least(k, Len(run))
  <1>2. First(k, run) = [i \in 1..m |-> run[i]] /\ m \in 0..Len(run)
    BY <1>1, FirstFacts
  <1> HIDE DEF m
  <1>3. m \in 0..MaxRows /\ \A i \in 1..m : run[i] \in Rows
    BY <1>1, <1>2, EvidenceAssumption
  <1>4. First(k, run) \in [1..m -> Rows]
    BY <1>2, <1>3
  <1> QED
    BY <1>3, <1>4 DEF Runs

\* What is collected from a run.
LEMMA CollectedRun ==
    ASSUME NEW c \in BOOLEAN, NEW rows \in Runs
    PROVE  /\ Collected(c, rows) = [i \in DOMAIN rows |-> Normalised(i, ItemOf(c, rows[i]))]
           /\ \A i \in DOMAIN rows :
                LET item == Collected(c, rows)[i]
                IN  NoSecret(item.payload) /\ NoSecret(item.kind) /\ (c \/ NoSecret(item.title))
  <1>1. Collected(c, rows) = [i \in DOMAIN rows |-> Normalised(i, ItemOf(c, rows[i]))]
    BY DEF Collected, NormaliseEvidence
  <1>2. ASSUME NEW i \in DOMAIN rows
        PROVE  LET item == Normalised(i, ItemOf(c, rows[i]))
               IN  NoSecret(item.payload) /\ NoSecret(item.kind) /\ (c \/ NoSecret(item.title))
    BY RunFacts, CollectedIsHarmless
  <1> QED
    BY <1>1, <1>2

\* A summary with a run is guarded.
LEMMA SummaryFacts ==
    ASSUME NEW run \in Runs
    PROVE  LET d == Dict([evidence |-> List(run)])
           IN  /\ IsValue(List(run)) /\ Is(List(run), "list") /\ Items(List(run)) = run
               /\ IsValue(d) /\ Guarded(d) /\ Has(d, "evidence") /\ Get(d, "evidence") = List(run)
  <1> DEFINE f == [evidence |-> List(run)]
             d == Dict(f)
             k == Len(run)
  <1>1. /\ k \in Nat /\ DOMAIN run = 1..k /\ run = [i \in 1..k |-> run[i]]
        /\ \A i \in 1..k : run[i] \in Rows
    BY RunFacts, EvidenceAssumption
  <1>2. \A i \in 1..k : IsValue(run[i]) /\ Guarded(run[i])
    BY <1>1, RowFacts
  <1>3. IsValue(List(run)) /\ Is(List(run), "list") /\ Items(List(run)) = run
    BY <1>1, <1>2, ListItems
  <1>4. Guarded(List(run))
    BY <1>1, <1>2, GuardedList
  <1>5. DOMAIN f = {"evidence"} /\ DOMAIN f \subseteq Names /\ f["evidence"] = List(run)
    BY CodeNames
  <1> HIDE DEF f
  <1>6. IsValue(d) /\ Has(d, "evidence") /\ Get(d, "evidence") = List(run)
    BY <1>3, <1>5, DictFields
  <1>7. Guarded(d)
    BY <1>3, <1>4, <1>5, GuardedDict
  <1> QED
    BY <1>3, <1>6, <1>7 DEF f

\* A summary without one has no secret and no evidence.
LEMMA NoteFacts ==
    LET d == Dict([note |-> Text("none")])
    IN  IsValue(d) /\ Guarded(d) /\ ~Has(d, "evidence") /\ Get(d, "evidence") = Nothing
  <1> DEFINE f == [note |-> Text("none")]
             d == Dict(f)
  <1>1. DOMAIN f = {"note"} /\ DOMAIN f \subseteq Names /\ f["note"] = Text("none")
    BY CodeNames
  <1> HIDE DEF f
  <1>2. NoSecret(Text("none")) /\ IsValue(Text("none"))
    BY SecretsAssumption, HarmlessText
  <1>3. IsValue(d) /\ ~Has(d, "evidence") /\ Get(d, "evidence") = Nothing
    BY <1>1, <1>2, DictFields, CodeNames
  <1>4. Guarded(d)
    BY <1>1, <1>2, NothingToGuard, GuardedDict
  <1> QED
    BY <1>3, <1>4 DEF f

\* Neither a text nor nothing is a list.
LEMMA NoLists == ~Is(Nothing, "list") /\ ~Is(Redacted, "list")
  <1>1. ASSUME NEW t PROVE ~Is(Text(t), "list")
    <2>1. Text(t)[<<>>] = [is |-> "text", text |-> t]
      BY TextFacts
    <2>2. Text(t)[<<>>].is = "text"
      BY <2>1
    <2> QED
      BY <2>2 DEF Is
  <1> QED
    BY <1>1 DEF Nothing, Redacted

\* The list found in a stored summary is the run with every row redacted.
LEMMA SuppliedFacts ==
    ASSUME NEW run \in Runs, NEW d, d = Dict([evidence |-> List(run)]),
           Is(Get(Redact(d), "evidence"), "list")
    PROVE  Items(Get(Redact(d), "evidence")) = [i \in DOMAIN run |-> Redact(run[i])]
  <1>1. /\ IsValue(List(run)) /\ IsValue(d) /\ Has(d, "evidence") /\ Get(d, "evidence") = List(run)
    BY SummaryFacts
  <1>2. Get(Redact(d), "evidence") = IF IsSensitive("evidence") THEN Redacted ELSE Redact(List(run))
    BY <1>1, RedactFields, CodeNames
  <1>3. Get(Redact(d), "evidence") = Redact(List(run))
    BY <1>2, NoLists
  <1> DEFINE k == Len(run)
             g == [i \in DOMAIN run |-> Redact(run[i])]
  <1>4. run \in Seq(Rows) /\ k \in Nat /\ DOMAIN run = 1..k /\ \A i \in 1..k : IsValue(run[i])
    BY RunFacts, RowFacts, EvidenceAssumption
  <1>5. Redact(List(run)) = List(g)
    BY <1>4, RedactsLists
  <1>6. /\ DOMAIN g = 1..k /\ Len(g) = k /\ g = [i \in 1..k |-> g[i]]
        /\ \A i \in 1..k : IsValue(g[i])
    BY <1>4, RedactIsValue
  <1> HIDE DEF g, k
  <1>7. Items(List(g)) = g
    BY <1>4, <1>6, ListItems
  <1> QED
    BY <1>3, <1>5, <1>7 DEF g

\* The number of rows asked for is a number after the cap.
LEMMA RowLimitFacts ==
    ASSUME NEW limit \in Limits
    PROVE  RowLimit(limit) \in Nat
  BY EvidenceAssumption DEF RowLimit, Least

\* Nothing has been collected from no rows, and there is no secret in nothing.
LEMMA NoRows ==
    /\ <<>> \in Runs
    /\ NoSecret(Nothing) /\ NoSecret(Dict(<<>>))
  <1>1. <<>> \in [1..0 -> Rows]
    OBVIOUS
  <1>2. 0 \in 0..MaxRows
    BY EvidenceAssumption
  <1>3. <<>> \in Runs
    BY <1>1, <1>2 DEF Runs
  <1>4. NoSecret(Nothing)
    BY SecretsAssumption, HarmlessText DEF Nothing
  <1>5. DOMAIN (<<>>) = {}
    OBVIOUS
  <1>6. NoSecret(Dict(<<>>))
    <2>1. IsValue(Dict(<<>>)) /\ Dict(<<>>)[<<>>] = [is |-> "dict"]
          /\ \A s \in Steps : DOMAIN At(Dict(<<>>), s) = {}
      BY <1>5, DictFacts
    <2>2. ~Secret([is |-> "dict"])
      BY DEF Secret
    <2>3. ASSUME NEW p \in DOMAIN Dict(<<>>) PROVE p = <<>>
      <3>1. p \in Seq(Steps)
        BY <2>1 DEF IsValue, IsTree
      <3>2. ASSUME NEW s \in Steps, NEW q \in Seq(Steps), p = <<s>> \o q PROVE FALSE
        BY <2>1, <3>2, AtFacts DEF IsValue
      <3> QED
        BY <3>1, <3>2, Split
    <2> QED
      BY <2>1, <2>2, <2>3 DEF NoSecret
  <1> QED
    BY <1>3, <1>4, <1>6

\* At the start nothing is stored.
LEMMA InitEvidence == Init => EvidenceInv
  <1> SUFFICES ASSUME Init PROVE EvidenceInv
    OBVIOUS
  <1>1. JobInv
    BY NoRows DEF Init, JobInv, NoJob
  <1>2. CollectedInv
    BY NoRows DEF Init, CollectedInv
  <1>3. StoredInv
    BY DEF Init, StoredInv, NoDecision
  <1> QED
    BY <1>1, <1>2, <1>3 DEF Init, EvidenceInv

\* A submitted summary is one of two kinds; redacted, it holds no secret.
LEMMA SubmitKeeps ==
    ASSUME EvidenceInv, NEW selector, NEW source, NEW limit \in Limits, NEW summary \in Summaries,
           Submit(selector, source, limit, summary)
    PROVE  EvidenceInv'
  <1>1. /\ job'.row_limit = RowLimit(limit) /\ job'.summary = Redact(summary)
        /\ raw' = IF Is(Get(summary, "evidence"), "list") THEN Items(Get(summary, "evidence")) ELSE <<>>
        /\ stage' = "claimed" /\ latest' = NoDecision
        /\ configured' = configured /\ evidence' = evidence /\ prompt' = prompt /\ reviews' = reviews
    BY DEF Submit
  <1>2. (\E run \in Runs : summary = Dict([evidence |-> List(run)])) \/ summary = Dict([note |-> Text("none")])
    BY DEF Summaries
  <1>3. /\ IsValue(summary) /\ Guarded(summary) /\ raw' \in Runs
        /\ summary = Dict([evidence |-> List(raw')]) \/ summary = Dict([note |-> Text("none")])
    <2>1. CASE summary = Dict([note |-> Text("none")])
      BY <1>1, <2>1, NoteFacts, NoLists, NoRows
    <2>2. ASSUME NEW run \in Runs, summary = Dict([evidence |-> List(run)])
          PROVE  IsValue(summary) /\ Guarded(summary) /\ raw' = run
      BY <1>1, <2>2, SummaryFacts
    <2> QED
      BY <1>2, <2>1, <2>2
  <1>4. NoSecret(Redact(summary))
    BY <1>3, RedactRemoves DEF IsValue
  <1>5. JobInv'
    BY <1>1, <1>3, <1>4, RowLimitFacts DEF JobInv
  <1>6. CollectedInv'
    BY <1>1, <1>3 DEF EvidenceInv, CollectedInv, Submit
  <1>7. StoredInv'
    BY <1>1 DEF EvidenceInv, StoredInv, NoDecision
  <1> QED
    BY <1>1, <1>5, <1>6, <1>7 DEF EvidenceInv

\* What is fetched is what rows become that are left of the run.
LEMMA FetchedKeeps ==
    ASSUME EvidenceInv, NEW rows \in Runs, NEW items,
           items = [i \in DOMAIN rows |-> ItemOf(configured, rows[i])], Fetched(rows, items)
    PROVE  EvidenceInv'
  <1>1. /\ raw' = rows /\ evidence' = Collected(configured, rows) /\ prompt' = ReviewPrompt(job, evidence')
        /\ stage' = "prompted"
        /\ configured' = configured /\ job' = job /\ latest' = latest /\ reviews' = reviews
    BY DEF Fetched, Collected
  <1>2. JobInv'
    BY <1>1 DEF EvidenceInv, JobInv
  <1>3. CollectedInv'
    BY <1>1 DEF CollectedInv
  <1>4. StoredInv'
    BY <1>1 DEF EvidenceInv, StoredInv
  <1> QED
    BY <1>1, <1>2, <1>3, <1>4 DEF EvidenceInv

\* The worker goes on with the next job.
LEMMA FreeKeeps ==
    ASSUME EvidenceInv, Free, StoredInv'
    PROVE  EvidenceInv'
  <1>1. /\ stage' = "free" /\ raw' = <<>> /\ job' = NoJob /\ prompt' = <<>> /\ configured' = configured
    BY DEF Free
  <1>2. JobInv'
    BY <1>1, NoRows DEF JobInv, NoJob
  <1>3. CollectedInv'
    BY <1>1, NoRows DEF CollectedInv
  <1> QED
    BY <1>1, <1>2, <1>3 DEF EvidenceInv

\* The supplied evidence was redacted with the summary; it is cut after that.
LEMMA FetchSuppliedKeeps ==
    ASSUME EvidenceInv, FetchSupplied
    PROVE  EvidenceInv'
  <1>1. /\ stage = "claimed" /\ ~configured /\ Is(Supplied, "list")
        /\ Fetched(First(job.row_limit, raw), First(job.row_limit, Items(Supplied)))
    BY DEF FetchSupplied
  <1>2. /\ raw \in Runs /\ job.row_limit \in Nat
        /\ \/ job.summary = Redact(Dict([evidence |-> List(raw)]))
           \/ job.summary = Redact(Dict([note |-> Text("none")]))
    BY <1>1 DEF EvidenceInv, JobInv, CollectedInv
  <1>3. job.summary # Redact(Dict([note |-> Text("none")]))
    <2> DEFINE d == Dict([note |-> Text("none")])
    <2>1. IsValue(d) /\ ~Has(d, "evidence") /\ "evidence" \in Names
      BY NoteFacts, CodeNames
    <2> HIDE DEF d
    <2>2. Get(Redact(d), "evidence") = Nothing
      BY <2>1, RedactFields DEF Get
    <2> QED
      BY <1>1, <2>2, NoLists DEF Supplied, d
  <1> DEFINE k == job.row_limit
             g == [i \in DOMAIN raw |-> Redact(raw[i])]
             rows == First(k, raw)
  <1>4. Items(Supplied) = g
    BY <1>1, <1>2, <1>3, SuppliedFacts DEF Supplied
  <1>5. rows \in Runs
    BY <1>2, FirstIsRun
  <1>6. First(k, g) = [i \in DOMAIN rows |-> ItemOf(configured, rows[i])]
    <2>1. raw \in Seq(Rows) /\ DOMAIN raw = 1..Len(raw) /\ Len(raw) \in Nat
      BY <1>2, RunFacts, EvidenceAssumption
    <2> DEFINE V == {Redact(r) : r \in Rows}
               m == Least(k, Len(raw))
    <2>2. g \in Seq(V) /\ Len(g) = Len(raw) /\ \A i \in 1..Len(raw) : g[i] = Redact(raw[i])
      BY <2>1
    <2>3. rows = [i \in 1..m |-> raw[i]] /\ m \in 0..Len(raw)
      BY <1>2, <2>1, FirstFacts
    <2> HIDE DEF g, V
    <2>4. First(k, g) = [i \in 1..m |-> g[i]]
      BY <1>2, <2>2, FirstFacts
    <2> HIDE DEF rows, m
    <2>5. DOMAIN rows = 1..m /\ \A i \in 1..m : rows[i] = raw[i] /\ g[i] = Redact(raw[i])
      BY <2>1, <2>2, <2>3
    <2>6. \A i \in 1..m : ItemOf(configured, rows[i]) = g[i]
      BY <1>1, <2>5 DEF ItemOf
    <2> QED
      BY <2>4, <2>5, <2>6
  <1> HIDE DEF g, rows
  <1>7. Fetched(rows, First(k, g))
    BY <1>1, <1>4 DEF rows
  <1> QED
    BY <1>5, <1>6, <1>7, FetchedKeeps

\* The rows of Splunk are cut, then wrapped.
LEMMA FetchSplunkKeeps ==
    ASSUME EvidenceInv, NEW run \in Runs, FetchSplunk(run)
    PROVE  EvidenceInv'
  <1> DEFINE rows == First(job.row_limit, run)
             items == [i \in DOMAIN rows |-> SplunkItem(rows[i])]
  <1>1. configured /\ Fetched(rows, items)
    BY DEF FetchSplunk
  <1>2. rows \in Runs
    BY FirstIsRun DEF EvidenceInv, JobInv
  <1> HIDE DEF rows
  <1>3. items = [i \in DOMAIN rows |-> ItemOf(configured, rows[i])]
    BY <1>1 DEF ItemOf
  <1> QED
    BY <1>1, <1>2, <1>3, FetchedKeeps

\* The committed review has the key of the rows it was given.
LEMMA AcceptKeeps ==
    ASSUME EvidenceInv, NEW ids, Accept(ids)
    PROVE  EvidenceInv'
  <1> DEFINE new == [selector_type |-> job.selector_type, source |-> job.source, rows |-> raw,
                     key |-> FindingKey(job, evidence)]
  <1>1. /\ stage = "prompted" /\ reviews' = reviews \union {new} /\ configured' = configured
        /\ latest'.evidence = Stored(evidence) /\ Free
    BY DEF Accept, Free
  <1>2. raw \in Runs /\ evidence = Collected(configured, raw)
    BY <1>1 DEF EvidenceInv, CollectedInv
  <1>3. new.rows = raw /\ new.key = FindingKey(new, evidence)
    BY DEF FindingKey
  <1> HIDE DEF new
  <1>4. ASSUME NEW a \in reviews'
        PROVE  a.rows \in Runs /\ a.key = FindingKey(a, Collected(configured, a.rows))
    BY <1>1, <1>2, <1>3 DEF EvidenceInv, StoredInv
  <1>5. StoredInv'
    BY <1>1, <1>2, <1>4 DEF StoredInv
  <1> QED
    BY <1>1, <1>5, FreeKeeps

\* An attempt that fails leaves what was stored.
LEMMA FailureKeeps ==
    ASSUME EvidenceInv, UNCHANGED <<latest, reviews>>, Free
    PROVE  EvidenceInv'
  <1>1. StoredInv'
    BY DEF EvidenceInv, StoredInv, Free
  <1> QED
    BY <1>1, FreeKeeps

\* Every step of the worker preserves the invariant.
LEMMA EvidenceStep == EvidenceInv /\ [Next]_vars => EvidenceInv'
  <1> SUFFICES ASSUME EvidenceInv, [Next]_vars PROVE EvidenceInv'
    OBVIOUS
  <1>1. ASSUME NEW selector \in Selectors, NEW source \in Sources, NEW limit \in Limits,
               NEW summary \in Summaries, Submit(selector, source, limit, summary)
        PROVE  EvidenceInv'
    BY <1>1, SubmitKeeps
  <1>2. CASE FetchSupplied
    BY <1>2, FetchSuppliedKeeps
  <1>3. CASE FetchNothing
    BY <1>3, FailureKeeps DEF FetchNothing
  <1>4. ASSUME NEW run \in Runs, FetchSplunk(run) PROVE EvidenceInv'
    BY <1>4, FetchSplunkKeeps
  <1>5. ASSUME NEW ids, Accept(ids) PROVE EvidenceInv'
    BY <1>5, AcceptKeeps
  <1>6. ASSUME NEW ids, Reject(ids) PROVE EvidenceInv'
    BY <1>6, FailureKeeps DEF Reject
  <1>7. CASE UNCHANGED vars
    BY <1>7 DEF vars, EvidenceInv, JobInv, CollectedInv, StoredInv
  <1> QED
    BY <1>1, <1>2, <1>3, <1>4, <1>5, <1>6, <1>7 DEF Next

\* Every state of the specification satisfies the invariant: what is stored and
\* shown is what the rows of the history become by redaction and normalisation.
THEOREM StoredIsCollected == Spec => []EvidenceInv
  BY InitEvidence, EvidenceStep, PTL DEF Spec

-----------------------------------------------------------------------------
(* What the invariant is for.                                              *)

\* An item without secrets shows none.
LEMMA ShowsNoSecret ==
    ASSUME NEW item, NoSecret(item.payload), NoSecret(item.kind), configured \/ NoSecret(item.title)
    PROVE  Shown(item) \intersect SecretTexts = {}
  <1>1. /\ TextsIn(item.payload) \intersect SecretTexts = {}
        /\ configured \/ TextsIn(item.title) \intersect SecretTexts = {}
        /\ TextsIn(item.kind) \intersect SecretTexts = {}
    BY NoSecretTexts
  <1> QED
    BY <1>1 DEF Shown

\* What is stored and shown is redacted or written by the code itself, but for a
\* title from Splunk.
LEMMA InvKeepsSecrets == EvidenceInv => SecretsStayOut
  <1> SUFFICES ASSUME EvidenceInv PROVE SecretsStayOut
    OBVIOUS
  <1>1. TextsIn(job.summary) \intersect SecretTexts = {}
    BY NoSecretTexts DEF EvidenceInv, JobInv
  <1>2. ASSUME prompt # <<>>, NEW i \in DOMAIN prompt[2]
        PROVE  Shown(prompt[2][i]) \intersect SecretTexts = {}
    <2>1. /\ raw \in Runs /\ configured \in BOOLEAN /\ evidence = Collected(configured, raw)
          /\ prompt = ReviewPrompt(job, evidence)
      BY <1>2 DEF EvidenceInv, CollectedInv
    <2>2. /\ DOMAIN prompt[2] = DOMAIN evidence /\ prompt[2][i].payload = evidence[i].payload
          /\ prompt[2][i].title = evidence[i].title /\ prompt[2][i].kind = evidence[i].kind
      BY <1>2, <2>1 DEF ReviewPrompt
    <2>3. DOMAIN evidence = DOMAIN raw
      BY <2>1, CollectedRun
    <2>4. /\ NoSecret(evidence[i].payload) /\ NoSecret(evidence[i].kind)
          /\ configured \/ NoSecret(evidence[i].title)
      BY <1>2, <2>1, <2>2, <2>3, CollectedRun
    <2> QED
      BY <2>2, <2>4, ShowsNoSecret
  <1>3. ASSUME NEW i \in DOMAIN latest.evidence
        PROVE  Shown(latest.evidence[i]) \intersect SecretTexts = {}
    <2>1. latest.evidence # <<>>
      BY <1>3
    <2>2. PICK rows \in Runs : latest.evidence = Stored(Collected(configured, rows))
      BY <2>1 DEF EvidenceInv, StoredInv
    <2> DEFINE items == Collected(configured, rows)
    <2>3. DOMAIN items = DOMAIN rows
      BY CollectedRun DEF EvidenceInv
    <2>4. \A j \in DOMAIN rows : /\ NoSecret(items[j].payload) /\ NoSecret(items[j].kind)
                                 /\ configured \/ NoSecret(items[j].title)
      BY CollectedRun DEF EvidenceInv
    <2> HIDE DEF items
    <2>5. /\ DOMAIN latest.evidence = DOMAIN items
          /\ latest.evidence[i].payload = FirstOf(items[i].payload, Dict(<<>>))
          /\ latest.evidence[i].title = items[i].title /\ latest.evidence[i].kind = items[i].kind
      BY <1>3, <2>2 DEF Stored, items
    <2>6. NoSecret(latest.evidence[i].payload)
      BY <1>3, <2>3, <2>4, <2>5, FirstOfChooses, NoRows
    <2> QED
      BY <1>3, <2>3, <2>4, <2>5, <2>6, ShowsNoSecret
  <1> QED
    BY <1>1, <1>2, <1>3 DEF SecretsStayOut

\* The key of a review, row by row.
LEMMA KeyOf ==
    ASSUME EvidenceInv, NEW a \in reviews
    PROVE  LET x(i) == Normalised(i, ItemOf(configured, a.rows[i]))
           IN  /\ a.rows \in Runs
               /\ a.key = [selector_type |-> a.selector_type, source |-> a.source,
                           identities |-> [i \in DOMAIN a.rows |->
                              IF DOMAIN Identity(x(i)) # {} THEN Identity(x(i))
                              ELSE [title |-> x(i).title, kind |-> x(i).kind]]]
  <1> DEFINE x(i) == Normalised(i, ItemOf(configured, a.rows[i]))
             items == Collected(configured, a.rows)
  <1>1. a.rows \in Runs /\ a.key = FindingKey(a, items) /\ configured \in BOOLEAN
    BY DEF EvidenceInv, StoredInv
  <1>2. DOMAIN items = DOMAIN a.rows /\ \A i \in DOMAIN a.rows : items[i] = x(i)
    BY <1>1, CollectedRun
  <1> HIDE DEF items
  <1> QED
    BY <1>1, <1>2 DEF FindingKey

\* Rows are plain: their plain fields are texts or lists of texts.
LEMMA RowIsPlain ==
    ASSUME NEW r \in Rows
    PROVE  IsPlain(r)
  BY StableAssumption DEF IsPlain

\* Rows that differ in volatile fields only become items of one kin.
LEMMA RowsAreKin ==
    ASSUME NEW c \in BOOLEAN, NEW v \in Rows, NEW w \in Rows, Lasting(v) = Lasting(w)
    PROVE  Kin(ItemOf(c, v), ItemOf(c, w)) /\ IsValue(ItemOf(c, v)) /\ IsValue(ItemOf(c, w))
  <1>1. IsValue(v) /\ IsValue(w) /\ IsPlain(v) /\ IsPlain(w)
    BY RowFacts, RowIsPlain
  <1>2. CASE c
    <2>1. Alike(v, w)
      BY <1>1, LastingSame
    <2> QED
      BY <1>1, <1>2, <2>1, SplunkKin, SplunkFacts DEF ItemOf
  <1>3. CASE ~c
    <2>1. Kin(v, w)
      BY <1>1, LastingKin
    <2> QED
      BY <1>1, <1>3, <2>1, RedactKin, RedactIsValue DEF ItemOf
  <1> QED
    BY <1>2, <1>3

\* Equal titles, kinds and identities, row by row, make equal keys.
LEMMA InvRecognisesRecurrence == EvidenceInv => RecurrenceIsRecognised
  <1> SUFFICES ASSUME EvidenceInv, NEW a \in reviews, NEW b \in reviews,
                      a.selector_type = b.selector_type, a.source = b.source,
                      DOMAIN a.rows = DOMAIN b.rows,
                      \A i \in DOMAIN a.rows : Lasting(a.rows[i]) = Lasting(b.rows[i])
               PROVE  a.key = b.key
    BY DEF RecurrenceIsRecognised
  <1> DEFINE x(i) == Normalised(i, ItemOf(configured, a.rows[i]))
             y(i) == Normalised(i, ItemOf(configured, b.rows[i]))
  <1>1. a.rows \in Runs /\ b.rows \in Runs /\ configured \in BOOLEAN
    BY KeyOf DEF EvidenceInv
  <1>2. ASSUME NEW i \in DOMAIN a.rows
        PROVE  x(i).title = y(i).title /\ x(i).kind = y(i).kind /\ Identity(x(i)) = Identity(y(i))
    <2>1. a.rows[i] \in Rows /\ b.rows[i] \in Rows
      BY <1>1, <1>2, RunFacts
    <2>2. Lasting(a.rows[i]) = Lasting(b.rows[i])
      BY <1>2
    <2>3. /\ Kin(ItemOf(configured, a.rows[i]), ItemOf(configured, b.rows[i]))
          /\ IsValue(ItemOf(configured, a.rows[i])) /\ IsValue(ItemOf(configured, b.rows[i]))
      BY <1>1, <2>1, <2>2, RowsAreKin
    <2> QED
      BY <2>3, KinIdentity
  <1>3. a.key = [selector_type |-> a.selector_type, source |-> a.source,
                 identities |-> [i \in DOMAIN a.rows |->
                    IF DOMAIN Identity(x(i)) # {} THEN Identity(x(i))
                    ELSE [title |-> x(i).title, kind |-> x(i).kind]]]
    BY KeyOf
  <1>4. b.key = [selector_type |-> b.selector_type, source |-> b.source,
                 identities |-> [i \in DOMAIN b.rows |->
                    IF DOMAIN Identity(y(i)) # {} THEN Identity(y(i))
                    ELSE [title |-> y(i).title, kind |-> y(i).kind]]]
    BY KeyOf
  <1> HIDE DEF x, y
  <1> QED
    BY <1>2, <1>3, <1>4

\* The host of a row is still there in the payload it becomes.
LEMMA HostIsKept ==
    ASSUME configured \in BOOLEAN, NEW r \in Rows, NEW i
    PROVE  Get(Normalised(i, ItemOf(configured, r)).payload, "host") = HostOf(r)
  <1> DEFINE v == ItemOf(configured, r)
  <1>1. IsValue(r) /\ IsTree(r) /\ IsPlain(r)
    BY RowFacts, RowIsPlain
  <1>2. "host" \in PlainFields /\ "host" \in Names /\ "host" # "value" /\ ~IsSensitive("host")
    BY CodeNames, StableAssumption DEF PlainFields, IsSensitive
  <1>3. Normalised(i, v).payload = Redact(PayloadOf(AsItem(v)))
    BY DEF Normalised, PayloadOf
  <1> HIDE DEF v
  <1>4. CASE configured
    <2>1. v = SplunkItem(r) /\ HostOf(r) = Get(r, "host")
      BY <1>4 DEF v, ItemOf, HostOf
    <2>2. PayloadOf(AsItem(v)) = r
      BY <1>1, <2>1, SplunkFacts DEF AsItem, PayloadOf
    <2> QED
      BY <1>1, <1>2, <1>3, <2>1, <2>2, PlainFieldStays DEF v
  <1>5. CASE ~configured /\ Is(r, "dict")
    <2> DEFINE z == PayloadOf(r)
    <2>1. v = Redact(r) /\ HostOf(r) = Get(z, "host")
      BY <1>5 DEF v, ItemOf, HostOf, PayloadOf
    <2>2. AsItem(v) = v
      BY <1>1, <1>5, <2>1, RedactIsValue DEF AsItem, Is
    <2>3. PayloadOf(v) = Redact(z) /\ IsValue(z)
      BY <1>1, <2>1, RedactedPayload
    <2>4. IsPlain(z)
      BY <1>1, CodeNames, PlainBelow DEF PayloadOf, Get
    <2> HIDE DEF z
    <2>5. Get(Redact(z), "host") = Get(z, "host")
      BY <1>2, <2>3, <2>4, PlainFieldStays
    <2>6. IsValue(Redact(z)) /\ IsPlain(Redact(z))
      BY <2>3, <2>4, RedactIsValue, RedactIsPlain DEF IsValue
    <2>7. Get(Redact(Redact(z)), "host") = Get(Redact(z), "host")
      BY <1>2, <2>6, PlainFieldStays
    <2> QED
      BY <1>3, <2>1, <2>2, <2>3, <2>5, <2>7 DEF v
  <1>6. CASE ~configured /\ ~Is(r, "dict")
    <2>1. v = Redact(r) /\ HostOf(r) = Nothing /\ IsValue(v) /\ ~Is(v, "dict")
      BY <1>1, <1>6, RedactIsValue DEF v, ItemOf, HostOf, Get, Has, Is
    <2> DEFINE w == Dict([value |-> v])
               d == Dict([payload |-> w])
    <2>2. /\ IsValue(w) /\ ~Has(w, "host") /\ Get(d, "payload") = w /\ Has(d, "payload")
      BY <1>2, <2>1, CodeNames, WrappedFacts
    <2>3. AsItem(v) = d
      BY <2>1 DEF AsItem
    <2> HIDE DEF w, d
    <2>4. PayloadOf(AsItem(v)) = w
      BY <2>2, <2>3 DEF PayloadOf
    <2>5. Get(Redact(w), "host") = Nothing
      BY <1>2, <2>2, RedactFields DEF Get
    <2> QED
      BY <1>3, <2>1, <2>4, <2>5 DEF v
  <1> QED
    BY <1>4, <1>5, <1>6

\* A host that is kept is part of the identity and so of the key.
LEMMA InvTellsHostsApart == EvidenceInv => EntitiesAreToldApart
  <1> SUFFICES ASSUME EvidenceInv, NEW a \in reviews, NEW b \in reviews,
                      NEW i \in DOMAIN a.rows \intersect DOMAIN b.rows,
                      HostOf(a.rows[i]) # HostOf(b.rows[i]),
                      HostOf(a.rows[i]) # Nothing, HostOf(b.rows[i]) # Nothing, a.key = b.key
               PROVE  FALSE
    BY DEF EntitiesAreToldApart
  <1> DEFINE x(j) == Normalised(j, ItemOf(configured, a.rows[j]))
             y(j) == Normalised(j, ItemOf(configured, b.rows[j]))
             Entry(item) == IF DOMAIN Identity(item) # {} THEN Identity(item)
                            ELSE [title |-> item.title, kind |-> item.kind]
  <1>1. configured \in BOOLEAN /\ a.rows[i] \in Rows /\ b.rows[i] \in Rows
    BY KeyOf, RunFacts DEF EvidenceInv
  <1>2. Get(x(i).payload, "host") = HostOf(a.rows[i]) /\ Get(y(i).payload, "host") = HostOf(b.rows[i])
    BY <1>1, HostIsKept
  <1> DEFINE f == [j \in DOMAIN a.rows |-> Entry(x(j))]
             g == [j \in DOMAIN b.rows |-> Entry(y(j))]
  <1>3. a.key = [selector_type |-> a.selector_type, source |-> a.source, identities |-> f]
    BY KeyOf
  <1>4. b.key = [selector_type |-> b.selector_type, source |-> b.source, identities |-> g]
    BY KeyOf
  <1> HIDE DEF x, y, Entry
  <1>5. Entry(x(i)) = Entry(y(i))
    <2>1. f[i] = Entry(x(i)) /\ g[i] = Entry(y(i))
      OBVIOUS
    <2> HIDE DEF f, g
    <2>2. a.key.identities = f
      BY <1>3
    <2>3. b.key.identities = g
      BY <1>4
    <2> QED
      BY <2>1, <2>2, <2>3
  <1>6. ASSUME NEW item, Get(item.payload, "host") # Nothing
        PROVE  Entry(item)["host"] = Get(item.payload, "host")
    <2>1. "host" \in StableFields
      BY StableAssumption
    <2>2. "host" \in DOMAIN Identity(item) /\ Identity(item)["host"] = Get(item.payload, "host")
      BY <1>6, <2>1 DEF Identity
    <2> QED
      BY <2>2 DEF Entry
  <1> QED
    BY <1>2, <1>5, <1>6

\* "Sprinter redacts configured keys": whatever rows a runner supplies or Splunk
\* returns, however deep a sensitive field stands and however it is spelt, its text
\* reaches neither the stored job nor the prompt nor the stored evidence, but for
\* the title of a row of Splunk.
THEOREM SecretsAreKeptOut == Spec => []SecretsStayOut
  BY StoredIsCollected, InvKeepsSecrets, PTL

\* Runs of one source whose rows differ in volatile fields only share their finding,
\* for any rows, limits, stable fields and sensitive names.
THEOREM RecurrencesAreRecognised == Spec => []RecurrenceIsRecognised
  BY StoredIsCollected, InvRecognisesRecurrence, PTL

\* Runs that name different hosts in one place are different findings, for any rows.
THEOREM HostsAreToldApart == Spec => []EntitiesAreToldApart
  BY StoredIsCollected, InvTellsHostsApart, PTL

=============================================================================
