-------------------------- MODULE UriParamsProofs --------------------------
(***************************************************************************)
(* What sqlconf_parse_uri makes of a URI, for all words, all URIs one      *)
(* after the other, and all that the memory behind them may hold: proofs   *)
(* of the five properties of UriParamsProps.                               *)
(*                                                                         *)
(* 1. Searches: what Find, FindLast, Before and After return; a text is a  *)
(*    join around its first or last mark (Cuts, CutsLast).                 *)
(* 2. Typed, the type invariant.                                           *)
(* 3. Forms: a form is written as parts grouped to the right, each free of *)
(*    the marks that end the part before it, so every search of the code   *)
(*    stops where the form has the end of the part.  FormInv says which    *)
(*    items are read (Reading), which are taken (Taken), and that the      *)
(*    connection is that of the form (Server): Located.                    *)
(* 4. Tables: the columns between the commas and the clause are those that *)
(*    were written, with the memory behind them if they run on into it.    *)
(*    SettledInv: a form is refused only for a colon there, and each table *)
(*    is set when the code is past it: Settled and Accepted.               *)
(* 5. Texts that no form says: a piece of a text is known by its places in *)
(*    it (Window).  ColumnsInv: the parameters that can be told apart are  *)
(*    read as they stand (Placed), and what is excluded is refused at its  *)
(*    own step: AllColumns.                                                *)
(*                                                                         *)
(* What a recursion over a text would do is done by the least place where  *)
(* a claim fails (LeastOf).                                                *)
(***************************************************************************)
EXTENDS UriParamsProps, SequenceTheorems, FiniteSetTheorems, WellFoundedInduction, TLAPS

-----------------------------------------------------------------------------
(* Where a search ends. *)

(* A set of numbers that is not empty has a least one. *)
LEMMA LeastOf ==
  ASSUME NEW S \in SUBSET Nat, S # {}
  PROVE  /\ Min(S) \in S
         /\ \A y \in S : Min(S) <= y
<1>1. PICK x \in S : \A y \in S : ~(<<y, x>> \in OpToRel(<, Nat))
  BY NatLessThanWellFounded, WFMin
<1>2. ASSUME NEW y \in S, y < x PROVE FALSE
  <2>1. y \in Nat /\ x \in Nat
    OBVIOUS
  <2>2. <<y, x>> \in OpToRel(<, Nat)
    BY <2>1, <1>2, Zenon DEF OpToRel
  <2> QED
    BY <1>1, <2>2
<1>3. \A y \in S : y \in Nat /\ x \in Nat /\ ~(y < x)
  BY <1>2
<1>4. \A y \in S : x <= y
  BY <1>3
<1> QED
  BY <1>4 DEF Min

LEMMA GreatestOf ==
  ASSUME NEW n \in Nat, NEW S \in SUBSET (0..n), S # {}
  PROVE  /\ Max(S) \in S
         /\ \A y \in S : y <= Max(S)
<1> DEFINE T == {m \in 0..n : n - m \in S}
<1>1. PICK x \in S : TRUE
  OBVIOUS
<1>2. n - x \in T
  OBVIOUS
<1>3. Min(T) \in T /\ \A y \in T : Min(T) <= y
  <2>1. T \in SUBSET Nat
    OBVIOUS
  <2>2. T # {}
    BY <1>2, Zenon
  <2> HIDE DEF T
  <2> QED
    BY <2>1, <2>2, LeastOf
<1>4. PICK z \in T : \A y \in T : z <= y
  <2> HIDE DEF T
  <2> QED
    BY <1>3
<1>5. n - z \in S /\ \A y \in S : y <= n - z
  <2>1. \A y \in S : y \in 0..n /\ n - (n - y) = y
    OBVIOUS
  <2>2. \A y \in S : n - y \in T
    BY <2>1
  <2> QED
    BY <1>4, <2>1, <2>2
<1> QED
  BY <1>5 DEF Max

(* Find returns the first place, or 0. *)
LEMMA FindProperties ==
  ASSUME NEW s \in Text, NEW m
  PROVE  /\ Find(s, m) \in 0..Len(s)
         /\ Find(s, m) = 0 <=> \A i \in 1..Len(s) : s[i] # m
         /\ Find(s, m) # 0 => /\ s[Find(s, m)] = m
                              /\ \A i \in 1..(Find(s, m) - 1) : s[i] # m
<1> DEFINE I == {i \in 1..Len(s) : s[i] = m}
<1>1. Len(s) \in Nat
  BY DEF Text
<1>2. Find(s, m) = IF I # {} THEN Min(I) ELSE 0
  BY DEF Find, SelectInSeq
<1>3. CASE I = {}
  BY <1>1, <1>2, <1>3
<1>4. CASE I # {}
  <2>1. Min(I) \in I /\ \A y \in I : Min(I) <= y
    <3>1. I \in SUBSET Nat
      OBVIOUS
    <3> HIDE DEF I
    <3> QED
      BY <1>4, <3>1, LeastOf
  <2>2. PICK f : f = Find(s, m)
    OBVIOUS
  <2>3. f \in 1..Len(s) /\ s[f] = m /\ \A y \in I : f <= y
    BY <1>2, <1>4, <2>1, <2>2
  <2>4. \A i \in 1..(f - 1) : s[i] # m
    BY <1>1, <2>3
  <2> QED
    BY <1>1, <2>2, <2>3, <2>4
<1> QED
  BY <1>3, <1>4
(* FindLast returns the last place, or 0. *)
LEMMA FindLastProperties ==
  ASSUME NEW s \in Text, NEW m
  PROVE  /\ FindLast(s, m) \in 0..Len(s)
         /\ FindLast(s, m) = 0 <=> \A i \in 1..Len(s) : s[i] # m
         /\ FindLast(s, m) # 0 => /\ s[FindLast(s, m)] = m
                                  /\ \A i \in (FindLast(s, m) + 1)..Len(s) : s[i] # m
<1> DEFINE I == {i \in 1..Len(s) : s[i] = m}
<1>1. Len(s) \in Nat
  BY DEF Text
<1>2. FindLast(s, m) = IF I # {} THEN Max(I) ELSE 0
  BY DEF FindLast, SelectLastInSeq
<1>3. CASE I = {}
  BY <1>1, <1>2, <1>3
<1>4. CASE I # {}
  <2>1. Max(I) \in I /\ \A y \in I : y <= Max(I)
    <3>1. I \in SUBSET (0..Len(s))
      BY <1>1
    <3> HIDE DEF I
    <3> QED
      BY <1>1, <1>4, <3>1, GreatestOf
  <2>2. PICK f : f = FindLast(s, m)
    OBVIOUS
  <2>3. f \in 1..Len(s) /\ s[f] = m /\ \A y \in I : y <= f
    BY <1>2, <1>4, <2>1, <2>2
  <2>4. \A i \in (f + 1)..Len(s) : s[i] # m
    BY <1>1, <2>3
  <2> QED
    BY <1>1, <2>2, <2>3, <2>4
<1> QED
  BY <1>3, <1>4

(* A part of a text, which may be empty. *)
LEMMA Piece ==
  ASSUME NEW s \in Text, NEW i \in 1..(Len(s) + 1), NEW j \in (i - 1)..Len(s)
  PROVE  /\ SubSeq(s, i, j) \in Text
         /\ Len(SubSeq(s, i, j)) = j - i + 1
         /\ \A k \in 1..(j - i + 1) : SubSeq(s, i, j)[k] = s[i + k - 1]
<1>1. PICK n : n = Len(s)
  OBVIOUS
<1>2. n \in Nat /\ \A k \in 1..n : s[k] \in Token
  BY <1>1 DEF Text
<1>3. i \in Int /\ j \in Int /\ i >= 1 /\ j <= n /\ i <= j + 1
  BY <1>1, <1>2
<1>4. \A k \in i..j : s[k] \in Token
  BY <1>2, <1>3
<1>5. (IF i <= j THEN j - i + 1 ELSE 0) = j - i + 1
  BY <1>3
<1> HIDE <1>1
<1> QED
  BY <1>3, <1>4, <1>5, SubSeqProperties DEF Text

Free(s, m) == \A i \in 1..Len(s) : s[i] # m

(* The part before a mark, and the part behind it. *)
IsCut(s, m) ==
  /\ Has(s, m) <=> ~Free(s, m)
  /\ Find(s, m) \in 0..Len(s)
  /\ Before(s, m) \in Text
  /\ IF Has(s, m) THEN Len(Before(s, m)) = Find(s, m) - 1 ELSE Before(s, m) = s
  /\ \A i \in 1..Len(Before(s, m)) : Before(s, m)[i] = s[i] /\ s[i] # m
  /\ After(s, m) \in Text
  /\ Len(After(s, m)) = Len(s) - Find(s, m)
  /\ \A i \in 1..(Len(s) - Find(s, m)) : After(s, m)[i] = s[Find(s, m) + i]

LEMMA Parts ==
  ASSUME NEW s \in Text, NEW m
  PROVE  IsCut(s, m)
<1>1. PICK n : n = Len(s)
  OBVIOUS
<1>2. PICK f : f = Find(s, m)
  OBVIOUS
<1>3. n \in Nat /\ \A i \in 1..n : s[i] \in Token
  BY <1>1 DEF Text
<1>4. /\ f \in 0..n
      /\ f = 0 <=> \A i \in 1..n : s[i] # m
      /\ f # 0 => s[f] = m /\ \A i \in 1..(f - 1) : s[i] # m
  BY <1>1, <1>2, FindProperties
<1>5. Has(s, m) <=> ~Free(s, m)
  BY <1>1, <1>2, <1>4 DEF Has, Free
<1>6. PICK t : t = SubSeq(s, f + 1, n)
  OBVIOUS
<1>7. t \in Text /\ Len(t) = n - f /\ \A i \in 1..(n - f) : t[i] = s[f + i]
  <2>1. f + 1 \in 1..(n + 1) /\ n \in ((f + 1) - 1)..n
    BY <1>3, <1>4
  <2>2. n - (f + 1) + 1 = n - f /\ \A i \in 1..(n - f) : (f + 1) + i - 1 = f + i
    BY <1>3, <1>4
  <2> QED
    BY <1>1, <1>6, <2>1, <2>2, Piece
<1>8. CASE ~Has(s, m)
  <2>1. Before(s, m) = s
    BY <1>8 DEF Before
  <2>2. \A i \in 1..n : s[i] # m
    BY <1>1, <1>5, <1>8 DEF Free
  <2> QED
    BY <1>1, <1>2, <1>4, <1>5, <1>6, <1>7, <1>8, <2>1, <2>2 DEF After, IsCut
<1>9. CASE Has(s, m)
  <2>1. f # 0
    BY <1>2, <1>9 DEF Has
  <2>2. PICK b : b = SubSeq(s, 1, f - 1)
    OBVIOUS
  <2>3. 1 \in 1..(n + 1) /\ f - 1 \in (1 - 1)..n
    BY <1>3, <1>4, <2>1
  <2>4. (f - 1) - 1 + 1 = f - 1 /\ \A i \in 1..(f - 1) : 1 + i - 1 = i
    BY <1>4
  <2>5. b \in Text /\ Len(b) = (f - 1) - 1 + 1 /\ \A i \in 1..((f - 1) - 1 + 1) : b[i] = s[1 + i - 1]
    BY <1>1, <2>2, <2>3, Piece
  <2>6. b \in Text /\ Len(b) = f - 1 /\ \A i \in 1..(f - 1) : b[i] = s[i] /\ s[i] # m
    BY <1>4, <2>1, <2>4, <2>5
  <2>7. Before(s, m) = b
    BY <1>2, <1>9, <2>2 DEF Before
  <2> QED
    BY <1>1, <1>2, <1>4, <1>5, <1>6, <1>7, <1>9, <2>6, <2>7 DEF After, IsCut
<1> QED
  BY <1>8, <1>9

(* Where the first one is, when it is seen. *)
LEMMA FoundAt ==
  ASSUME NEW s \in Text, NEW m, NEW i \in 1..Len(s), s[i] = m,
         \A j \in 1..(i - 1) : s[j] # m
  PROVE  Find(s, m) = i
<1>1. PICK f : f = Find(s, m)
  OBVIOUS
<1>2. PICK n : n = Len(s)
  OBVIOUS
<1>3. n \in Nat
  BY <1>2 DEF Text
<1>4. /\ f \in 0..n
      /\ f = 0 <=> \A k \in 1..n : s[k] # m
      /\ f # 0 => s[f] = m /\ \A k \in 1..(f - 1) : s[k] # m
  BY <1>1, <1>2, FindProperties
<1>5. f # 0
  BY <1>2, <1>4
<1>6. ~(f < i) /\ ~(i < f)
  BY <1>2, <1>3, <1>4, <1>5
<1> QED
  BY <1>1, <1>2, <1>3, <1>4, <1>6

LEMMA FoundLastAt ==
  ASSUME NEW s \in Text, NEW m, NEW i \in 1..Len(s), s[i] = m,
         \A j \in (i + 1)..Len(s) : s[j] # m
  PROVE  FindLast(s, m) = i
<1>1. PICK f : f = FindLast(s, m)
  OBVIOUS
<1>2. PICK n : n = Len(s)
  OBVIOUS
<1>3. n \in Nat
  BY <1>2 DEF Text
<1>4. /\ f \in 0..n
      /\ f = 0 <=> \A k \in 1..n : s[k] # m
      /\ f # 0 => s[f] = m /\ \A k \in (f + 1)..n : s[k] # m
  BY <1>1, <1>2, FindLastProperties
<1>5. f # 0
  BY <1>2, <1>4
<1>6. ~(f < i) /\ ~(i < f)
  BY <1>2, <1>3, <1>4, <1>5
<1> QED
  BY <1>1, <1>2, <1>3, <1>4, <1>6

(* Two texts are the same text. *)
LEMMA SameText ==
  ASSUME NEW s \in Text, NEW t \in Text, Len(s) = Len(t), \A i \in 1..Len(s) : s[i] = t[i]
  PROVE  s = t
BY SeqEqual DEF Text

(* Two texts with a mark between them. *)
IsJoin(s, a, m, b) ==
  /\ s \in Text
  /\ Len(s) = Len(a) + 1 + Len(b)
  /\ \A i \in 1..Len(a) : s[i] = a[i]
  /\ s[Len(a) + 1] = m
  /\ \A i \in 1..Len(b) : s[Len(a) + 1 + i] = b[i]

LEMMA Joining ==
  ASSUME NEW a \in Text, NEW b \in Text, NEW m \in Token, NEW s, s = a \o (<< m >> \o b)
  PROVE  IsJoin(s, a, m, b)
<1>1. /\ Len(a) \in Nat /\ Len(b) \in Nat
      /\ << m >> \in Text /\ Len(<< m >>) = 1 /\ << m >>[1] = m
  BY DEF Text
<1>2. PICK t : t = << m >> \o b
  OBVIOUS
<1>3. /\ t \in Text /\ Len(t) = 1 + Len(b)
      /\ \A i \in 1..(1 + Len(b)) : t[i] = IF i <= 1 THEN << m >>[i] ELSE b[i - 1]
  BY <1>1, <1>2, ConcatProperties DEF Text
<1>4. t[1] = m /\ \A i \in 1..Len(b) : t[1 + i] = b[i]
  BY <1>1, <1>3
<1>5. s = a \o t
  BY <1>2
<1>6. /\ s \in Text /\ Len(s) = Len(a) + Len(t)
      /\ \A i \in 1..(Len(a) + Len(t)) : s[i] = IF i <= Len(a) THEN a[i] ELSE t[i - Len(a)]
  BY <1>3, <1>5, ConcatProperties DEF Text
<1>7. /\ Len(s) = Len(a) + 1 + Len(b)
      /\ \A i \in 1..Len(a) : s[i] = a[i]
      /\ s[Len(a) + 1] = m
  BY <1>1, <1>3, <1>4, <1>6
<1>8. ASSUME NEW i \in 1..Len(b) PROVE s[Len(a) + 1 + i] = b[i]
  <2>1. /\ Len(a) + 1 + i \in 1..(Len(a) + Len(t))
        /\ ~(Len(a) + 1 + i <= Len(a))
        /\ (Len(a) + 1 + i) - Len(a) = 1 + i
    BY <1>1, <1>3
  <2> QED
    BY <1>4, <1>6, <2>1
<1> QED
  BY <1>6, <1>7, <1>8 DEF IsJoin

(* A text is cut at its first mark, ... *)
Cuts(s, m, a, b) == Has(s, m) /\ Find(s, m) = Len(a) + 1 /\ Before(s, m) = a /\ After(s, m) = b

LEMMA CutAtFirst ==
  ASSUME NEW a \in Text, NEW b \in Text, NEW m \in Token, Free(a, m),
         NEW s, s = a \o (<< m >> \o b)
  PROVE  Cuts(s, m, a, b)
<1>1. IsJoin(s, a, m, b)
  BY Joining
<1>2. s \in Text
  BY <1>1 DEF IsJoin
<1>3. Len(a) \in Nat /\ Len(b) \in Nat
  BY DEF Text
<1>4. /\ Len(a) + 1 \in 1..Len(s)
      /\ \A j \in 1..((Len(a) + 1) - 1) : s[j] # m
  BY <1>1, <1>3 DEF Free, IsJoin
<1>5. s[Len(a) + 1] = m
  BY <1>1 DEF IsJoin
<1>6. Find(s, m) = Len(a) + 1
  BY <1>2, <1>4, <1>5, FoundAt
<1>7. IsCut(s, m) /\ Has(s, m)
  BY <1>2, <1>3, <1>6, Parts DEF Has
<1>8. Before(s, m) = a
  <2>1. Before(s, m) \in Text /\ Len(Before(s, m)) = Len(a)
    BY <1>3, <1>6, <1>7 DEF IsCut
  <2>2. \A i \in 1..Len(a) : Before(s, m)[i] = s[i] /\ s[i] = a[i]
    BY <1>1, <1>7, <2>1 DEF IsCut, IsJoin
  <2> QED
    BY <2>1, <2>2, SameText
<1>9. After(s, m) = b
  <2>1. Len(s) - Find(s, m) = Len(b)
    BY <1>1, <1>3, <1>6 DEF IsJoin
  <2>2. After(s, m) \in Text /\ Len(After(s, m)) = Len(b)
    BY <1>7, <2>1 DEF IsCut
  <2>3. \A i \in 1..Len(b) : After(s, m)[i] = s[Len(a) + 1 + i] /\ s[Len(a) + 1 + i] = b[i]
    BY <1>1, <1>6, <1>7, <2>1 DEF IsCut, IsJoin
  <2> QED
    BY <2>2, <2>3, SameText
<1> QED
  BY <1>6, <1>7, <1>8, <1>9 DEF Cuts

(* ... and not at all when it has none. *)
LEMMA NoCut ==
  ASSUME NEW s \in Text, NEW m, Free(s, m)
  PROVE  ~Has(s, m) /\ Find(s, m) = 0 /\ Before(s, m) = s
BY FindProperties DEF Free, Has, Before

-----------------------------------------------------------------------------
(* What the parts of the code return. *)

LEMMA OrSome ==
  ASSUME NEW x, NEW d
  PROVE  Or(Some(x), d) = x /\ Or(None, d) = d /\ Some(x) # None
BY DEF Or, Some, None

(* Either nothing, or one value from S. *)
LEMMA OptionCases ==
  ASSUME NEW S, NEW o, IsOption(o, S)
  PROVE  o = None \/ \E x \in S : o = Some(x)
BY DEF IsOption, None, Some

LEMMA OptionSome ==
  ASSUME NEW S, NEW x \in S
  PROVE  IsOption(Some(x), S)
BY DEF IsOption, None, Some

LEMMA OptionNone ==
  ASSUME NEW S
  PROVE  IsOption(None, S)
BY DEF IsOption

LEMMA OrType ==
  ASSUME NEW S, NEW o, IsOption(o, S), NEW d \in S
  PROVE  Or(o, d) \in S
BY OptionCases, OrSome

LEMMA CStrType ==
  ASSUME NEW s \in Text
  PROVE  CStr(s) \in Text
BY Parts DEF CStr, IsCut

LEMMA QueryType ==
  ASSUME NEW u \in Text
  PROVE  IsOption(Query(u), Text)
BY Parts, OptionSome, OptionNone DEF Query, IsCut

LEMMA EmptyText == << >> \in Text /\ Len(<< >>) = 0
BY DEF Text

LEMMA TokenText ==
  ASSUME NEW m \in Token
  PROVE  << m >> \in Text /\ Len(<< m >>) = 1 /\ << m >>[1] = m
BY DEF Text

LEMMA TextPair ==
  ASSUME NEW a \in Text, NEW b \in Text
  PROVE  /\ a \o b \in Text
         /\ Len(a \o b) = Len(a) + Len(b)
         /\ \A i \in 1..(Len(a) + Len(b)) : (a \o b)[i] = IF i <= Len(a) THEN a[i] ELSE b[i - Len(a)]
BY ConcatProperties DEF Text

LEMMA TextTail ==
  ASSUME NEW s \in Text, s # << >>
  PROVE  /\ Len(s) \in Nat \ {0}
         /\ Tail(s) \in Text
         /\ Len(Tail(s)) = Len(s) - 1
         /\ \A i \in 1..(Len(s) - 1) : Tail(s)[i] = s[i + 1]
BY HeadTailProperties, EmptySeq DEF Text

(* The connection has a server. *)
LEMMA LocationType ==
  ASSUME uri \in Uris, HasScheme(uri)
  PROVE  /\ Authority \in Text /\ Authority # << >>
         /\ UserInfo \in Text
         /\ Location \in Text /\ Location # << >>
<1>1. PICK u : u = uri
  OBVIOUS
<1>2. u \in Text /\ Len(u) \in Nat /\ IsCut(u, "?")
  BY <1>1, UriParamsAssumption, Parts DEF Text
<1>3. PICK s : s = Before(u, "?")
  OBVIOUS
<1>4. DOMAIN u = 1..Len(u)
  BY <1>2 DEF Text
<1>5. Has(u, "?") <=> \E i \in DOMAIN u : u[i] = "?"
  BY <1>2, <1>4 DEF IsCut, Free
<1>6. SelectInSeq(u, LAMBDA t : t = "?") = Find(u, "?")
  BY DEF Find
<1>7. LET a == IF Has(u, "?") THEN Find(u, "?") - 1 ELSE Len(u)
      IN  a > 1 /\ u[a] # "@"
  BY <1>1, <1>5, <1>6, UriParamsAssumption
<1>8. PICK a : a = IF Has(u, "?") THEN Find(u, "?") - 1 ELSE Len(u)
  OBVIOUS
<1>9. a > 1 /\ u[a] # "@"
  BY <1>7, <1>8
<1>10. s \in Text /\ Len(s) = a /\ a \in Nat
  BY <1>2, <1>3, <1>8 DEF IsCut, Has
<1>11. s[a] # "@"
  <2>1. a \in 1..Len(s)
    BY <1>9, <1>10
  <2>2. s[a] = u[a]
    BY <1>2, <1>3, <2>1 DEF IsCut
  <2> QED
    BY <1>9, <2>2
<1>12. PICK t : t = Authority
  OBVIOUS
<1>13. /\ t = Tail(s) /\ s # << >>
       /\ t \in Text /\ Len(t) = a - 1
       /\ \A i \in 1..(a - 1) : t[i] = s[i + 1]
  BY <1>1, <1>3, <1>9, <1>10, <1>12, TextTail, EmptyText DEF Authority
<1>14. t # << >> /\ t[a - 1] # "@"
  BY <1>9, <1>10, <1>11, <1>13, EmptyText
<1>15. PICK l : l = FindLast(t, "@")
  OBVIOUS
<1>16. l \in 0..(a - 1) /\ (l # 0 => t[l] = "@")
  BY <1>13, <1>15, FindLastProperties
<1>17. l < a - 1
  BY <1>9, <1>10, <1>14, <1>16
<1>18. Location = SubSeq(t, l + 1, a - 1) /\ UserInfo = SubSeq(t, 1, l - 1)
  BY <1>12, <1>13, <1>15 DEF Location, UserInfo
<1>19. Location \in Text /\ Location # << >>
  <2>1. l + 1 \in 1..(Len(t) + 1) /\ a - 1 \in ((l + 1) - 1)..Len(t)
    BY <1>10, <1>13, <1>16, <1>17
  <2>2. Location \in Text /\ Len(Location) = (a - 1) - (l + 1) + 1
    BY <1>13, <1>18, <2>1, Piece
  <2> QED
    BY <1>10, <1>16, <1>17, <2>2, EmptyText
<1>20. UserInfo \in Text
  <2>1. CASE l = 0
    <3>1. UserInfo = << >>
      BY <1>18, <2>1, SubSeqEmpty
    <3> QED
      BY <3>1, EmptyText
  <2>2. CASE l # 0
    <3>1. 1 \in 1..(Len(t) + 1) /\ l - 1 \in (1 - 1)..Len(t)
      BY <1>10, <1>13, <1>16, <2>2
    <3> QED
      BY <1>13, <1>18, <3>1, Piece
  <2> QED
    BY <2>1, <2>2
<1> QED
  BY <1>12, <1>13, <1>14, <1>19, <1>20

(* The ways to write a host, and what is left behind it. *)
LEMMA HostType ==
  ASSUME uri \in Uris, HasScheme(uri), ~BadLocation
  PROVE  /\ Host \in Text
         /\ IsOption(AfterHost, Text)
<1>1. PICK s : s = Location
  OBVIOUS
<1>2. s \in Text /\ Len(s) \in Nat /\ Len(s) >= 1
  BY <1>1, LocationType, EmptyText DEF Text
<1>3. /\ Find(s, "]") \in 0..Len(s) /\ Find(s, "/") \in 0..Len(s)
      /\ Find(s, "]") # 0 => s[Find(s, "]")] = "]"
      /\ Find(s, "/") # 0 => s[Find(s, "/")] = "/"
  BY <1>2, FindProperties
<1>4. Find(Tail(s), ":") \in 0..(Len(s) - 1)
  <2>1. s # << >>
    BY <1>2, EmptyText
  <2>2. Tail(s) \in Text /\ Len(Tail(s)) = Len(s) - 1
    BY <1>2, <2>1, TextTail
  <2>3. Find(Tail(s), ":") \in 0..Len(Tail(s))
    BY <2>2, FindProperties
  <2> QED
    BY <2>2, <2>3
<1>5. PICK e : e = HostEnd
  OBVIOUS
<1>6. CASE Bracketed
  <2>1. e = Find(s, "]") /\ Find(s, "]") # 0 /\ s[1] = "["
    BY <1>1, <1>5, <1>6 DEF HostEnd, BadLocation, Has, Bracketed
  <2>2. e \in 2..Len(s)
    BY <1>2, <1>3, <2>1
  <2>3. Host = SubSeq(s, 2, e - 1) /\ AfterHost = Some(SubSeq(s, e + 1, Len(s)))
    BY <1>1, <1>2, <1>5, <1>6, <2>2 DEF Host, AfterHost
  <2>4. /\ 2 \in 1..(Len(s) + 1) /\ e - 1 \in (2 - 1)..Len(s)
        /\ e + 1 \in 1..(Len(s) + 1) /\ Len(s) \in ((e + 1) - 1)..Len(s)
    BY <1>2, <2>2
  <2>5. SubSeq(s, 2, e - 1) \in Text /\ SubSeq(s, e + 1, Len(s)) \in Text
    BY <1>2, <2>4, Piece
  <2> QED
    BY <2>3, <2>5, OptionSome, OptionNone
<1>7. CASE ~Bracketed
  <2>1. e \in 2..(Len(s) + 1)
    BY <1>1, <1>2, <1>3, <1>4, <1>5, <1>7 DEF HostEnd, Has
  <2>2. /\ Host = SubSeq(s, 1, e - 1)
        /\ AfterHost = IF e > Len(s) THEN None ELSE Some(SubSeq(s, e, Len(s)))
    BY <1>1, <1>5, <1>7 DEF Host, AfterHost
  <2>3. /\ 1 \in 1..(Len(s) + 1) /\ e - 1 \in (1 - 1)..Len(s)
        /\ e \in 1..(Len(s) + 1) /\ Len(s) \in (e - 1)..Len(s)
    BY <1>2, <2>1
  <2>4. SubSeq(s, 1, e - 1) \in Text /\ SubSeq(s, e, Len(s)) \in Text
    BY <1>2, <2>3, Piece
  <2> QED
    BY <2>2, <2>4, OptionSome, OptionNone
<1> QED
  BY <1>6, <1>7

LEMMA ConnectionType ==
  ASSUME uri \in Uris, HasScheme(uri), ~BadLocation
  PROVE  /\ IsOption(User, Text) /\ IsOption(Password, Text)
         /\ IsOption(Path, Text)
         /\ \A p \in PathName : p \in Text
         /\ HasPort => PortNo \in Ports
<1>1. IsOption(User, Text) /\ IsOption(Password, Text)
  BY LocationType, Parts, OptionSome, OptionNone DEF User, Password, IsCut
<1>2. IsOption(AfterHost, Text)
  BY HostType
<1>3. IsOption(Path, Text)
  <2>1. CASE ~HasPort
    BY <1>2, <2>1 DEF Path
  <2>2. CASE HasPort
    <3>1. PICK r : r = After(Or(AfterHost, <<>>), ":")
      OBVIOUS
    <3>2. r \in Text /\ Len(r) \in Nat
      <4>1. PICK o : o = Or(AfterHost, <<>>)
        OBVIOUS
      <4>2. o \in Text
        BY <1>2, <4>1, OrType, EmptyText
      <4>3. r \in Text
        BY <3>1, <4>1, <4>2, Parts DEF IsCut
      <4> QED
        BY <4>3 DEF Text
    <3>3. Path = IF Has(r, "/") THEN Some(SubSeq(r, Find(r, "/"), Len(r))) ELSE None
      BY <2>2, <3>1 DEF Path
    <3>4. ASSUME Has(r, "/") PROVE SubSeq(r, Find(r, "/"), Len(r)) \in Text
      <4>1. Find(r, "/") \in 1..Len(r)
        BY <3>2, <3>4, FindProperties DEF Has
      <4>2. Find(r, "/") \in 1..(Len(r) + 1) /\ Len(r) \in (Find(r, "/") - 1)..Len(r)
        BY <3>2, <4>1
      <4> QED
        BY <3>2, <4>2, Piece
    <3>5. CASE Has(r, "/")
      BY <3>3, <3>4, <3>5, OptionSome, OptionNone
    <3>6. CASE ~Has(r, "/")
      BY <3>3, <3>6, OptionNone
    <3> QED
      BY <3>5, <3>6
  <2> QED
    BY <2>1, <2>2, Zenon
<1>4. ASSUME NEW p \in PathName PROVE p \in Text
  <2>1. PICK q \in Path : p \in IF q = <<>> THEN {CStr(t) : t \in Tails} ELSE Some(Tail(q))
    BY <1>4 DEF PathName
  <2>2. q \in Text
    BY <1>3, <2>1, OptionCases DEF None, Some
  <2>3. \A t \in Tails : CStr(t) \in Text
    BY UriParamsAssumption, CStrType
  <2> QED
    BY <2>1, <2>2, <2>3, TextTail DEF Some
<1>5. HasPort => PortNo \in Ports
  BY Zenon DEF BadLocation
<1> QED
  BY <1>1, <1>3, <1>4, <1>5, Zenon

-----------------------------------------------------------------------------
(* The parameters of the tables. *)
LEMMA KindWidth ==
  ASSUME NEW kind \in Kind
  PROVE  /\ kind \in DOMAIN Defaults
         /\ Width(kind) \in 2..4
         /\ Defaults[kind].table \in Text
         /\ Defaults[kind].where = None
         /\ Defaults[kind].cols \in Seq(Text) /\ Len(Defaults[kind].cols) = Width(kind)
<1>1. \A w \in Known : << w >> \in Text
  BY UriParamsAssumption, TokenText DEF Token
<1>2. \A w \in {"ctx", "conf", "map", "ftpctx", "ftpconf", "ftpmap", "id", "parent_id", "type",
                "value", "name", "conf_id", "ctx_id"} : << w >> \in Text
  BY <1>1 DEF Known
<1>3. CASE kind = "ctx"
  <2>1. << << "id" >>, << "parent_id" >>, << "type" >>, << "value" >> >> \in Seq(Text)
    BY <1>2
  <2>2. Defaults["ctx"] = [table |-> << "ftpctx" >>, where |-> None, cols |-> << << "id" >>, << "parent_id" >>, << "type" >>, << "value" >> >>]
    BY DEF Defaults
  <2>3. "ctx" \in DOMAIN Defaults
    BY DEF Defaults
  <2>4. Width("ctx") = 4
    BY <2>2 DEF Width
  <2>5. << "ftpctx" >> \in Text
    BY <1>2
  <2> QED
    BY <1>3, <2>1, <2>2, <2>3, <2>4, <2>5
<1>4. CASE kind = "conf"
  <2>1. << << "id" >>, << "name" >>, << "value" >> >> \in Seq(Text)
    BY <1>2
  <2>2. Defaults["conf"] = [table |-> << "ftpconf" >>, where |-> None, cols |-> << << "id" >>, << "name" >>, << "value" >> >>]
    BY DEF Defaults
  <2>3. "conf" \in DOMAIN Defaults
    BY DEF Defaults
  <2>4. Width("conf") = 3
    BY <2>2 DEF Width
  <2>5. << "ftpconf" >> \in Text
    BY <1>2
  <2> QED
    BY <1>4, <2>1, <2>2, <2>3, <2>4, <2>5
<1>5. CASE kind = "map"
  <2>1. << << "conf_id" >>, << "ctx_id" >> >> \in Seq(Text)
    BY <1>2
  <2>2. Defaults["map"] = [table |-> << "ftpmap" >>, where |-> None, cols |-> << << "conf_id" >>, << "ctx_id" >> >>]
    BY DEF Defaults
  <2>3. "map" \in DOMAIN Defaults
    BY DEF Defaults
  <2>4. Width("map") = 2
    BY <2>2 DEF Width
  <2>5. << "ftpmap" >> \in Text
    BY <1>2
  <2> QED
    BY <1>5, <2>1, <2>2, <2>3, <2>4, <2>5
<1> QED
  BY <1>3, <1>4, <1>5 DEF Kind

LEMMA CharType ==
  ASSUME NEW t \in Token
  PROVE  CharOf(t) \in Token
BY UriParamsAssumption DEF CharOf, Token, Mark, Unescaped

LEMMA DecodedType ==
  ASSUME NEW s \in Text
  PROVE  /\ Decoded(s) \in Text
         /\ Len(Decoded(s)) = Len(s)
         /\ \A i \in 1..Len(s) : Decoded(s)[i] = CharOf(s[i])
BY CharType DEF Decoded, Text

LEMMA LessOneType ==
  ASSUME NEW v \in Text, ~IsShort(v)
  PROVE  LessOne(v) \in Text
<1>1. v # << >> /\ Len(v) \in Nat /\ Len(v) >= 1
  BY EmptyText DEF IsShort, Text
<1>2. 1 \in 1..(Len(v) + 1) /\ Len(v) - 1 \in (1 - 1)..Len(v)
  BY <1>1
<1>3. Front(v) \in Text
  BY <1>2, Piece DEF Front
<1>4. Last(v) \in Token
  BY <1>1 DEF Last, Text
<1>5. CASE Last(v) \in OneChar \union Mark
  BY <1>3, <1>5 DEF LessOne
<1>6. CASE Last(v) \notin OneChar \union Mark
  <2>1. Clipped[Last(v)] \in Token
    BY <1>4, <1>6, UriParamsAssumption DEF Token
  <2>2. Append(Front(v), Clipped[Last(v)]) \in Text
    BY <1>3, <2>1, AppendProperties DEF Text
  <2> QED
    BY <1>6, <2>2 DEF LessOne
<1> QED
  BY <1>5, <1>6

LEMMA PartTypes ==
  ASSUME NEW v \in Text
  PROVE  ColPart(v) \in Text /\ WherePart(v) \in Text
<1>1. Before(v, ":") \in Text /\ After(v, ":") \in Text
  BY Parts DEF IsCut
<1>2. Before(After(v, ":"), ":") \in Text /\ After(After(v, ":"), ":") \in Text
  BY <1>1, Parts DEF IsCut
<1> QED
  BY <1>2, CStrType, EmptyText DEF ColPart, WherePart

LEMMA TableNameType ==
  ASSUME NEW v \in Text, ~IsShort(v), NEW kind
  PROVE  TableName(kind, v) \in Text
<1>1. Before(v, ":") \in Text
  BY Parts DEF IsCut
<1>2. PICK t : t = IF Has(v, ":") THEN Before(v, ":") ELSE IF kind = "map" THEN LessOne(v) ELSE v
  OBVIOUS
<1>3. t \in Text
  BY <1>1, <1>2, LessOneType
<1> QED
  BY <1>2, <1>3, CStrType DEF TableName

(* How many commas there are up to a place. *)
LEMMA CommaCount ==
  ASSUME NEW s \in Text
  PROVE  /\ \A i \in 0..Len(s) : Commas(s, i) \in Nat
         /\ Commas(s, 0) = 0
         /\ \A i \in 1..Len(s) : s[i] = "," => Commas(s, i) = Commas(s, i - 1) + 1
         /\ \A i \in 1..Len(s) : s[i] # "," => Commas(s, i) = Commas(s, i - 1)
<1> DEFINE C(i) == {j \in 1..i : s[j] = ","}
<1>1. PICK n : n = Len(s)
  OBVIOUS
<1>2. n \in Nat
  BY <1>1 DEF Text
<1>3. \A i \in 0..n : IsFiniteSet(C(i))
  <2> SUFFICES ASSUME NEW i \in 0..n PROVE IsFiniteSet(C(i))
    OBVIOUS
  <2>1. IsFiniteSet(1..i)
    BY FS_Interval
  <2>2. C(i) \subseteq 1..i
    OBVIOUS
  <2> QED
    BY <2>1, <2>2, FS_Subset
<1>4. \A i \in 0..n : Cardinality(C(i)) \in Nat
  BY <1>3, FS_CardinalityType
<1>5. C(0) = {}
  OBVIOUS
<1>6. ASSUME NEW i \in 1..n
      PROVE  /\ s[i] = "," => Cardinality(C(i)) = Cardinality(C(i - 1)) + 1
             /\ s[i] # "," => Cardinality(C(i)) = Cardinality(C(i - 1))
  <2> \A j : j \in 1..i <=> j \in 1..(i - 1) \/ j = i
    BY <1>2
  <2>1. CASE s[i] = ","
    <3>1. C(i) = C(i - 1) \union {i}
      BY <1>2, <2>1
    <3>2a. i \notin 1..(i - 1)
      BY <1>2
    <3>4. i \notin C(i - 1)
      BY <3>2a, Zenon
    <3>2. i - 1 \in 0..n
      BY <1>2
    <3>3. IsFiniteSet(C(i - 1))
      BY <1>3, <3>2
    <3> QED
      BY <2>1, <3>1, <3>3, <3>4, FS_AddElement
  <2>2. CASE s[i] # ","
    <3>1. C(i) = C(i - 1)
      BY <1>2, <2>2
    <3> QED
      BY <2>2, <3>1
  <2> QED
    BY <2>1, <2>2
<1>7. \A i : Commas(s, i) = Cardinality(C(i))
  BY DEF Commas
<1>8. Cardinality(C(0)) = 0
  BY <1>5, FS_EmptySet
<1> HIDE DEF C
<1> QED
  BY <1>1, <1>4, <1>6, <1>7, <1>8

LEMMA OneMore ==
  ASSUME NEW c \in Nat, NEW n \in Nat, c < n
  PROVE  ~(n <= c) /\ (n <= c + 1 => n = c + 1)
OBVIOUS

(* The n-th comma, if there are as many. *)
LEMMA CommaThere ==
  ASSUME NEW s \in Text, NEW n \in Nat \ {0}, n <= Commas(s, Len(s))
  PROVE  \E i \in 1..Len(s) : s[i] = "," /\ Commas(s, i) = n
<1>1. PICK l : l = Len(s)
  OBVIOUS
<1>2. l \in Nat /\ n \in Nat
  BY <1>1 DEF Text
<1>3. /\ \A i \in 0..l : Commas(s, i) \in Nat
      /\ Commas(s, 0) = 0
      /\ \A i \in 1..l : s[i] = "," => Commas(s, i) = Commas(s, i - 1) + 1
      /\ \A i \in 1..l : s[i] # "," => Commas(s, i) = Commas(s, i - 1)
  BY <1>1, CommaCount
<1> DEFINE I == {i \in 0..l : n <= Commas(s, i)}
<1>4. I \in SUBSET Nat /\ l \in I
  BY <1>1, <1>2
<1>5. PICK i \in I : \A j \in I : i <= j
  <2> HIDE DEF I
  <2> QED
    BY <1>4, LeastOf
<1>6. i \in 1..l
  <2>1. i \in 0..l /\ n <= Commas(s, i)
    BY <1>5
  <2>2. ASSUME i = 0 PROVE FALSE
    <3>1. Commas(s, i) = 0
      BY <1>3, <2>2, Zenon
    <3> QED
      BY <2>1, <3>1
  <2> QED
    BY <1>2, <2>1, <2>2
<1>7. i - 1 \in 0..l /\ i - 1 \notin I
  BY <1>2, <1>5, <1>6
<1>8. Commas(s, i - 1) < n /\ n <= Commas(s, i)
  <2>1. Commas(s, i - 1) \in Nat /\ ~(n <= Commas(s, i - 1))
    BY <1>3, <1>7
  <2> QED
    BY <1>5, <2>1
<1>9. s[i] = "," /\ Commas(s, i) = n
  <2>1. Commas(s, i - 1) \in Nat
    BY <1>3, <1>7
  <2>2. s[i] = "," \/ Commas(s, i) = Commas(s, i - 1)
    BY <1>3, <1>6
  <2>3. s[i] = "," => Commas(s, i) = Commas(s, i - 1) + 1
    BY <1>3, <1>6
  <2> QED
    BY <1>2, <1>8, <2>1, <2>2, <2>3, OneMore, Zenon
<1> QED
  BY <1>1, <1>6, <1>9

LEMMA ColumnsType ==
  ASSUME NEW kind \in Kind, NEW s \in Text, Commas(s, Len(s)) >= Width(kind) - 1
  PROVE  /\ Columns(kind, s) \in Seq(Text)
         /\ Len(Columns(kind, s)) = Width(kind)
<1>1. PICK w : w = Width(kind)
  OBVIOUS
<1>2. w \in 2..4
  BY <1>1, KindWidth
<1>3. PICK l : l = Len(s)
  OBVIOUS
<1>4. l \in Nat /\ (\A i \in 1..l : s[i] \in Token) /\ DOMAIN s = 1..l
  BY <1>3 DEF Text
<1>5. ASSUME NEW n \in 0..w PROVE Cut(s, n, w) \in 0..(l + 1)
  <2>1. CASE n = 0
    BY <1>4, <2>1 DEF Cut
  <2>2. CASE n = w
    BY <1>2, <1>3, <1>4, <2>2 DEF Cut
  <2>3. CASE n # 0 /\ n # w
    <3>1. n \in Nat \ {0} /\ n <= w - 1
      BY <1>2, <2>3
    <3>2. Commas(s, l) \in Nat
      <4>1. \A i \in 0..Len(s) : Commas(s, i) \in Nat
        BY CommaCount
      <4>2. l \in 0..Len(s)
        BY <1>3, <1>4
      <4> QED
        BY <4>1, <4>2
    <3>3. n <= Commas(s, Len(s))
      BY <1>1, <1>2, <1>3, <3>1, <3>2
    <3>4. \E i \in DOMAIN s : s[i] = "," /\ Commas(s, i) = n
      BY <1>3, <1>4, <3>1, <3>3, CommaThere
    <3>5. Cut(s, n, w) = CHOOSE i \in DOMAIN s : s[i] = "," /\ Commas(s, i) = n
      BY <2>3 DEF Cut
    <3>6. Cut(s, n, w) \in DOMAIN s
      BY <3>4, <3>5
    <3> QED
      BY <1>4, <3>6
  <2> QED
    BY <2>1, <2>2, <2>3
<1>6. ASSUME NEW i \in 1..w
      PROVE  CStr(SubSeq(s, Cut(s, i - 1, w) + 1, Cut(s, i, w) - 1)) \in Text
  <2>1. PICK a : a = Cut(s, i - 1, w) + 1
    OBVIOUS
  <2>2. PICK b : b = Cut(s, i, w) - 1
    OBVIOUS
  <2>3. i - 1 \in 0..w /\ i \in 0..w
    BY <1>2
  <2>4. a \in Int /\ b \in Int /\ 1 <= a /\ b <= l
    BY <1>4, <1>5, <2>1, <2>2, <2>3
  <2>5. \A k \in a..b : s[k] \in Token
    BY <1>4, <2>4
  <2>6. SubSeq(s, a, b) \in Text
    BY <2>4, <2>5, SubSeqProperties DEF Text
  <2> QED
    BY <2>1, <2>2, <2>6, CStrType
<1>7. Columns(kind, s) = [i \in 1..w |-> CStr(SubSeq(s, Cut(s, i - 1, w) + 1, Cut(s, i, w) - 1))]
  BY <1>1 DEF Columns
<1> QED
  BY <1>1, <1>2, <1>6, <1>7

-----------------------------------------------------------------------------
(* The types, with what the parts of the URI need: who did not find it bad   *)
(* has seen its scheme.                                                      *)
Typed ==
  /\ TypeOK
  /\ uri \in Uris
  /\ pc # "bad" => HasScheme(uri)
  /\ DOMAIN tabs = Kind

LEMMA StoredType ==
  ASSUME Typed, NEW key \in Text, NEW value \in Text
  PROVE  /\ DOMAIN Stored(key, value) \subseteq Text
         /\ \A k \in DOMAIN Stored(key, value) : Stored(key, value)[k] \in Text
BY DEF Typed, TypeOK, Stored

LEMMA ValueType ==
  ASSUME Typed, NEW key \in Known
  PROVE  IsOption(Value(key), Text) /\ IsOption(String(key), Text)
<1>1. << key >> \in Text
  BY UriParamsAssumption, TokenText DEF Token
<1>2. CASE << key >> \in DOMAIN params
  <2>1. params[<< key >>] \in Text /\ Value(key) = Some(params[<< key >>])
    BY <1>2 DEF Typed, TypeOK, Value
  <2>2. String(key) = Some(CStr(params[<< key >>]))
    BY <2>1 DEF String, Some
  <2> QED
    BY <2>1, <2>2, CStrType, OptionSome
<1>3. CASE << key >> \notin DOMAIN params
  <2>1. Value(key) = None /\ String(key) = None
    BY <1>3 DEF Value, String, None
  <2> QED
    BY <2>1, OptionNone
<1> QED
  BY <1>2, <1>3

(* What a parameter makes of a table. *)
LEMMA NamedType ==
  ASSUME NEW kind \in Kind, NEW v \in Text, IsShort(v) \/ ~BadFormat(kind, v)
  PROVE  /\ Named(kind, Parsed(kind, v)).table \in Text
         /\ Named(kind, Parsed(kind, v)).cols \in Seq(Text)
         /\ Len(Named(kind, Parsed(kind, v)).cols) = Width(kind)
         /\ \A w \in Named(kind, Parsed(kind, v)).where : w \in Text
<1>1. PICK p : p = Parsed(kind, v)
  OBVIOUS
<1>2. PICK t : t = Named(kind, p)
  OBVIOUS
<1>3. /\ t.table = Or(p.table, Reset(kind).table)
      /\ t.cols = Or(p.cols, Reset(kind).cols)
      /\ t.where = IF p.where = None THEN Reset(kind).where ELSE p.where
  BY <1>2 DEF Named
<1>4. Reset(kind) = Defaults[kind]
  BY DEF Reset
<1>5. PICK d : d = Defaults[kind]
  OBVIOUS
<1>6. /\ d.table \in Text /\ d.where = None
      /\ d.cols \in Seq(Text) /\ Len(d.cols) = Width(kind)
  BY <1>5, KindWidth
<1>7. CASE IsShort(v)
  <2>1. p.table = None /\ p.cols = None /\ p.where = None
    BY <1>1, <1>7 DEF Parsed
  <2>2. t.table = d.table /\ t.cols = d.cols /\ t.where = None
    BY <1>3, <1>4, <1>5, <1>6, <2>1, OrSome
  <2> QED
    BY <1>1, <1>2, <1>6, <2>2 DEF None
<1>8. CASE ~IsShort(v)
  <2>1. /\ p.table = Some(TableName(kind, v))
        /\ p.cols = IF ColPart(v) = <<>> THEN None ELSE Some(Columns(kind, ColPart(v)))
        /\ p.where = IF HasWhere(v) THEN Some(Decoded(WherePart(v))) ELSE None
    BY <1>1, <1>8 DEF Parsed
  <2>2. t.table \in Text
    BY <1>3, <1>8, <2>1, OrSome, TableNameType
  <2>3. t.cols \in Seq(Text) /\ Len(t.cols) = Width(kind)
    <3>1. CASE ColPart(v) = <<>>
      BY <1>3, <1>4, <1>5, <1>6, <2>1, <3>1, OrSome
    <3>2. CASE ColPart(v) # <<>>
      <4>1. PICK c : c = ColPart(v)
        OBVIOUS
      <4>2. c \in Text
        BY <4>1, PartTypes
      <4>3. ~(Commas(c, Len(c)) < Width(kind) - 1)
        BY <1>8, <3>2, <4>1 DEF BadFormat
      <4>4. Len(c) \in 0..Len(c)
        BY <4>2 DEF Text
      <4>5. Commas(c, Len(c)) \in Nat
        BY <4>2, <4>4, CommaCount
      <4>6. Commas(c, Len(c)) >= Width(kind) - 1
        BY <4>3, <4>5, KindWidth
      <4>7. Columns(kind, c) \in Seq(Text) /\ Len(Columns(kind, c)) = Width(kind)
        BY <4>2, <4>6, ColumnsType
      <4>8. t.cols = Columns(kind, c)
        BY <1>3, <2>1, <3>2, <4>1, OrSome
      <4> QED
        BY <4>7, <4>8
    <3> QED
      BY <3>1, <3>2
  <2>4. \A w \in t.where : w \in Text
    <3>1. Decoded(WherePart(v)) \in Text
      BY PartTypes, DecodedType
    <3> QED
      BY <1>3, <1>4, <1>5, <1>6, <2>1, <3>1 DEF Some, None
  <2> QED
    BY <1>1, <1>2, <2>2, <2>3, <2>4
<1> QED
  BY <1>7, <1>8

LEMMA BeginTyped ==
  ASSUME NEW u \in Uris, uri = u, rest = Or(Query(u), <<>>), params = <<>>, pc = FirstStep(u)
  PROVE  /\ uri \in Text /\ rest \in Text
         /\ DOMAIN params \subseteq Text /\ \A k \in DOMAIN params : params[k] \in Text
         /\ pc \in {"query", "connect", "bad"}
         /\ pc # "bad" => HasScheme(uri)
<1>1. u \in Text
  BY UriParamsAssumption
<1>2. rest \in Text
  BY <1>1, QueryType, OrType, EmptyText
<1>3. DOMAIN params = {}
  OBVIOUS
<1>4. pc \in {"query", "connect", "bad"} /\ (pc # "bad" => HasScheme(uri))
  BY DEF FirstStep
<1> QED
  BY <1>1, <1>2, <1>3, <1>4

LEMMA InitTyped == Init => Typed
<1> SUFFICES ASSUME Init PROVE Typed
  OBVIOUS
<1>1. /\ uri \in Text /\ rest \in Text
      /\ DOMAIN params \subseteq Text /\ \A k \in DOMAIN params : params[k] \in Text
      /\ pc \in {"query", "connect", "bad"}
      /\ pc # "bad" => HasScheme(uri)
  BY BeginTyped DEF Init
<1>2. /\ db.host = <<>> /\ db.port = 0 /\ db.user = None /\ db.password = None /\ db.database = None
      /\ tabs = Defaults /\ base = None /\ driver = None /\ parses = 1
  BY DEF Init, InitSettings
<1>3. \A o \in {db.user, db.password, db.database, base, driver} : IsOption(o, Text)
  BY <1>2, OptionNone
<1>4. \A kind \in Kind :
        /\ tabs[kind].table \in Text
        /\ tabs[kind].cols \in Seq(Text) /\ Len(tabs[kind].cols) = Width(kind)
        /\ \A w \in tabs[kind].where : w \in Text
  BY <1>2, KindWidth DEF None
<1>5. DOMAIN tabs = Kind
  BY <1>2 DEF Defaults, Kind
<1>6. parses \in 1..MaxParses
  BY <1>2, UriParamsAssumption
<1> QED
  BY <1>1, <1>2, <1>3, <1>4, <1>5, <1>6, EmptyText DEF Typed, TypeOK, Init

(* One step of the parsing of the parameters. *)
LEMMA QueryStepTyped ==
  ASSUME Typed, TakeParam \/ BadParam \/ LastParam \/ BadLastParam \/ StrayParam
  PROVE  Typed'
<1>1. /\ uri' = uri /\ db' = db /\ tabs' = tabs /\ base' = base /\ driver' = driver
      /\ parses' = parses /\ pc = "query"
  BY DEF TakeParam, BadParam, LastParam, BadLastParam, StrayParam, settings
<1>2. pc' \in {"query", "connect", "bad"}
  BY <1>1 DEF TakeParam, BadParam, LastParam, BadLastParam, StrayParam
<1>3. rest \in Text
  BY DEF Typed, TypeOK
<1>4. /\ Before(rest, "=") \in Text /\ After(rest, "=") \in Text
      /\ Before(rest, "&") \in Text /\ After(rest, "&") \in Text
  BY <1>3, Parts DEF IsCut
<1>5. rest' \in Text
  BY <1>3, <1>4 DEF TakeParam, BadParam, LastParam, BadLastParam, StrayParam
<1>6. params' = params \/ \E k \in Text, v \in Text : params' = Stored(k, v)
  <2>1. CASE TakeParam
    <3>1. PICK kv : kv = Before(rest, "&")
      OBVIOUS
    <3>2. Before(kv, "=") \in Text /\ After(kv, "=") \in Text
      BY <1>4, <3>1, Parts DEF IsCut
    <3> QED
      BY <2>1, <3>1, <3>2 DEF TakeParam
  <2>2. CASE LastParam
    <3>1. PICK t \in Tails : params' = Stored(Before(rest, "="),
                        IF Whole THEN After(rest, "=") ELSE After(rest, "=") \o <<NUL>> \o t)
      BY <2>2 DEF LastParam
    <3>2. t \in Text /\ <<NUL>> \in Text
      BY UriParamsAssumption, TokenText DEF Token, Mark
    <3>3. After(rest, "=") \o <<NUL>> \o t \in Text
      BY <1>4, <3>2, TextPair
    <3> QED
      BY <1>4, <3>1, <3>3
  <2>3. CASE StrayParam
    BY <1>3, <2>3, UriParamsAssumption DEF StrayParam
  <2> QED
    BY <2>1, <2>2, <2>3 DEF BadParam, BadLastParam
<1>7. DOMAIN params' \subseteq Text /\ \A k \in DOMAIN params' : params'[k] \in Text
  <2>1. CASE params' = params
    BY <2>1 DEF Typed, TypeOK
  <2>2. ASSUME NEW k \in Text, NEW v \in Text, params' = Stored(k, v)
        PROVE  DOMAIN params' \subseteq Text /\ \A j \in DOMAIN params' : params'[j] \in Text
    BY <2>2, StoredType
  <2> QED
    BY <1>6, <2>1, <2>2
<1> QED
  BY <1>1, <1>2, <1>5, <1>7 DEF Typed, TypeOK

LEMMA CopiesType ==
  ASSUME NEW o, IsOption(o, Text), NEW c \in CopiesOf(o)
  PROVE  IsOption(c, Text)
<1>1. o \union Freed \subseteq Text
  BY UriParamsAssumption, OptionCases DEF None, Some
<1>2. c = None \/ \E x \in o \union Freed : c = Some(x)
  BY DEF CopiesOf
<1> QED
  BY <1>1, <1>2, OptionSome, OptionNone

LEMMA ConnectTyped ==
  ASSUME Typed, BadConnect \/ Connect
  PROVE  Typed'
<1>1. CASE BadConnect
  BY <1>1 DEF Typed, TypeOK, BadConnect, settings
<1>2. CASE Connect
  <2>1. /\ uri \in Uris /\ HasScheme(uri) /\ ~BadLocation
        /\ pc' = "ctx" /\ UNCHANGED <<uri, rest, params, tabs, base, driver, parses>>
    BY <1>2 DEF Typed, Connect
  <2>2. PICK h \in Copies(Host), u \in CopiesOf(User), w \in CopiesOf(Password) :
        \E n \in IF PathName = {} THEN {db.database} ELSE {Some(x) : x \in PathName} :
          db' = [host |-> h, port |-> IF HasPort THEN PortNo ELSE 0, user |-> u, password |-> w,
                 database |-> IF String("database") = None THEN n ELSE String("database")]
    BY <1>2 DEF Connect
  <2>3. PICK n \in IF PathName = {} THEN {db.database} ELSE {Some(x) : x \in PathName} :
          db' = [host |-> h, port |-> IF HasPort THEN PortNo ELSE 0, user |-> u, password |-> w,
                 database |-> IF String("database") = None THEN n ELSE String("database")]
    BY <2>2
  <2>4. h \in Text
    BY <2>1, HostType, UriParamsAssumption DEF Copies
  <2>5. IsOption(u, Text) /\ IsOption(w, Text)
    BY <2>1, ConnectionType, CopiesType
  <2>6. IsOption(n, Text)
    <3>1. IsOption(db.database, Text)
      BY DEF Typed, TypeOK
    <3>2. \A x \in PathName : IsOption(Some(x), Text)
      BY <2>1, ConnectionType, OptionSome
    <3> QED
      BY <3>1, <3>2
  <2>7. IsOption(String("database"), Text)
    BY ValueType DEF Known
  <2>8. PICK p : p = IF HasPort THEN PortNo ELSE 0
    OBVIOUS
  <2>9. p \in {0} \union Ports
    <3>1. HasPort => PortNo \in Ports
      BY <2>1, ConnectionType
    <3>2. CASE HasPort
      BY <2>8, <3>1, <3>2
    <3>3. CASE ~HasPort
      BY <2>8, <3>3
    <3> QED
      BY <3>2, <3>3, Zenon
  <2>10. PICK d : d = IF String("database") = None THEN n ELSE String("database")
    OBVIOUS
  <2>11. IsOption(d, Text)
    BY <2>6, <2>7, <2>10
  <2>12. /\ db'.host = h /\ db'.port = p /\ db'.user = u /\ db'.password = w
         /\ db'.database = d
    BY <2>3, <2>8, <2>10
  <2> QED
    BY <2>1, <2>4, <2>5, <2>9, <2>11, <2>12 DEF Typed, TypeOK
<1> QED
  BY <1>1, <1>2

LEMMA TableTyped ==
  ASSUME Typed, NEW kind \in Kind, NEW next \in {"conf", "map", "base"}, TableParam(kind, next)
  PROVE  Typed'
<1>1. PICK v : v = Or(Value(kind), <<>>)
  OBVIOUS
<1>2. v \in Text
  <2>1. kind \in Known
    BY DEF Kind, Known
  <2> QED
    BY <1>1, <2>1, ValueType, OrType, EmptyText
<1>3. /\ uri' = uri /\ rest' = rest /\ params' = params /\ db' = db /\ base' = base
      /\ driver' = driver /\ parses' = parses /\ pc = kind
  BY DEF TableParam
<1>4. PICK t : /\ tabs' = [tabs EXCEPT ![kind] = t]
               /\ t.table \in Text
               /\ t.cols \in Seq(Text) /\ Len(t.cols) = Width(kind)
               /\ \A w \in t.where : w \in Text
  <2>1. CASE ~IsShort(v) /\ BadFormat(kind, v)
    <3>1. tabs' = [tabs EXCEPT ![kind] = Defaults[kind]]
      BY <1>1, <2>1 DEF TableParam, Reset
    <3> QED
      BY <3>1, KindWidth DEF None
  <2>2. CASE IsShort(v) \/ ~BadFormat(kind, v)
    <3>1. tabs' = [tabs EXCEPT ![kind] = Named(kind, Parsed(kind, v))]
      BY <1>1, <2>2 DEF TableParam
    <3> QED
      BY <1>2, <2>2, <3>1, NamedType
  <2> QED
    BY <2>1, <2>2
<1>5. pc' \in {"conf", "map", "base", "bad"} /\ (pc' # "bad" => pc # "bad")
  BY <1>1, <1>3 DEF TableParam, Kind
<1>6. DOMAIN tabs' = Kind
  BY <1>4 DEF Typed
<1>7. \A k \in Kind : k # kind => tabs'[k] = tabs[k]
  BY <1>4 DEF Typed
<1>8. tabs'[kind] = t
  BY <1>4 DEF Typed
<1>9. ASSUME NEW k \in Kind
      PROVE  /\ tabs'[k].table \in Text
             /\ tabs'[k].cols \in Seq(Text) /\ Len(tabs'[k].cols) = Width(k)
             /\ \A w \in tabs'[k].where : w \in Text
  <2>1. CASE k = kind
    BY <1>4, <1>8, <2>1
  <2>2. CASE k # kind
    BY <1>7, <2>2 DEF Typed, TypeOK
  <2> QED
    BY <2>1, <2>2
<1> QED
  BY <1>3, <1>5, <1>6, <1>9 DEF Typed, TypeOK

LEMMA EndTyped ==
  ASSUME Typed, BaseParam \/ Again
  PROVE  Typed'
<1>1. CASE BaseParam
  <2>1. IsOption(String("base_id"), Text) /\ IsOption(String("driver"), Text)
    BY ValueType DEF Known
  <2>2. IsOption(base', Text) /\ IsOption(driver', Text)
    BY <1>1, <2>1 DEF BaseParam, Typed, TypeOK
  <2> QED
    BY <1>1, <2>2 DEF BaseParam, Typed, TypeOK
<1>2. CASE Again
  <2>1. PICK u \in Uris : Begin(u)
    BY <1>2 DEF Again
  <2>2. /\ uri' = u /\ rest' = Or(Query(u), <<>>) /\ params' = <<>> /\ pc' = FirstStep(u)
        /\ parses' = parses + 1
    BY <2>1 DEF Begin
  <2>3. u \in Text /\ rest' \in Text
    BY <2>2, UriParamsAssumption, QueryType, OrType, EmptyText
  <2>4. DOMAIN params' = {}
    BY <2>2
  <2>5. pc' \in {"query", "connect", "bad"} /\ (pc' # "bad" => HasScheme(uri'))
    BY <2>2 DEF FirstStep
  <2>6. parses' \in 1..MaxParses
    <3>1. parses \in 1..MaxParses /\ parses < MaxParses
      BY <1>2 DEF Again, Typed, TypeOK
    <3> QED
      BY <2>2, <3>1, UriParamsAssumption
  <2>7. driver' = None /\ db' = db /\ tabs' = tabs /\ base' = base
    BY <1>2 DEF Again
  <2> QED
    BY <2>2, <2>3, <2>4, <2>5, <2>6, <2>7, OptionNone DEF Typed, TypeOK
<1> QED
  BY <1>1, <1>2

LEMMA StepTyped == Typed /\ [Next]_vars => Typed'
<1> SUFFICES ASSUME Typed, [Next]_vars PROVE Typed'
  OBVIOUS
<1>1. CASE TakeParam \/ BadParam \/ LastParam \/ BadLastParam \/ StrayParam
  BY <1>1, QueryStepTyped
<1>2. CASE BadConnect \/ Connect
  BY <1>2, ConnectTyped
<1>3. CASE CtxParam
  BY <1>3, TableTyped DEF CtxParam, Kind
<1>4. CASE ConfParam
  BY <1>4, TableTyped DEF ConfParam, Kind
<1>5. CASE MapParam
  BY <1>5, TableTyped DEF MapParam, Kind
<1>6. CASE BaseParam \/ Again
  BY <1>6, EndTyped
<1>7. CASE UNCHANGED vars
  BY <1>7 DEF vars, Typed, TypeOK
<1> QED
  BY <1>1, <1>2, <1>3, <1>4, <1>5, <1>6, <1>7 DEF Next, Step

(* Every variable of the parsing always holds what the code may put there:   *)
(* a list of columns is never shorter than the table is wide, and a port is  *)
(* one that can be connected to.                                             *)
THEOREM UriTypeCorrect == Spec => []TypeOK
<1>1. Typed => TypeOK
  BY DEF Typed
<1> QED
  BY <1>1, InitTyped, StepTyped, PTL DEF Spec

-----------------------------------------------------------------------------
(* Texts that are put together, and what they are free of. *)
LEMMA FreePair ==
  ASSUME NEW a \in Text, NEW b \in Text, NEW m, Free(a, m), Free(b, m)
  PROVE  Free(a \o b, m)
<1>1. Len(a) \in Nat /\ Len(b) \in Nat
  BY DEF Text
<1>2. ASSUME NEW i \in 1..(Len(a) + Len(b)) PROVE (a \o b)[i] # m
  <2>1. (a \o b)[i] = IF i <= Len(a) THEN a[i] ELSE b[i - Len(a)]
    BY TextPair
  <2>2. CASE i <= Len(a)
    <3>1. i \in 1..Len(a)
      BY <1>1, <2>2
    <3> QED
      BY <2>1, <2>2, <3>1 DEF Free
  <2>3. CASE ~(i <= Len(a))
    <3>1. i - Len(a) \in 1..Len(b)
      BY <1>1, <2>3
    <3> QED
      BY <2>1, <2>3, <3>1 DEF Free
  <2> QED
    BY <2>2, <2>3
<1> QED
  BY <1>2, TextPair DEF Free

LEMMA FreeToken ==
  ASSUME NEW x \in Token, NEW m, x # m
  PROVE  Free(<< x >>, m)
BY DEF Free

LEMMA FreeEmpty ==
  ASSUME NEW m
  PROVE  Free(<< >>, m)
BY DEF Free

LEMMA FreeOf ==
  ASSUME NEW S \in SUBSET Token, NEW s \in Seq(S)
  PROVE  s \in Text /\ \A m : m \notin S => Free(s, m)
BY DEF Text, Free

(* A text can be put together from its left or from its right. *)
LEMMA Regroup ==
  ASSUME NEW a \in Text, NEW b \in Text, NEW c \in Text
  PROVE  (a \o b) \o c = a \o (b \o c)
BY ConcatAssociative DEF Text

LEMMA GoesOn ==
  ASSUME NEW a \in Text, NEW b \in Text, NEW e \in Text
  PROVE  a \o b \in Text /\ b \o e \in Text /\ (a \o b) \o e = a \o (b \o e)
<1>1. a \o b \in Text /\ b \o e \in Text
  BY TextPair
<1>2. (a \o b) \o e = a \o (b \o e)
  BY Regroup
<1> QED
  BY <1>1, <1>2

LEMMA WithEmpty ==
  ASSUME NEW a \in Text
  PROVE  a \o << >> = a /\ << >> \o a = a
BY ConcatEmptySeq DEF Text

LEMMA TailOf ==
  ASSUME NEW x \in Token, NEW b \in Text
  PROVE  << x >> \o b # << >> /\ Tail(<< x >> \o b) = b /\ (<< x >> \o b)[1] = x
<1>1. PICK s : s = << x >> \o b
  OBVIOUS
<1>2. Len(b) \in Nat
  BY DEF Text
<1>3. << x >> \in Text /\ Len(<< x >>) = 1 /\ << x >>[1] = x
  BY TokenText
<1>4. s \in Text /\ Len(s) = 1 + Len(b)
  BY <1>1, <1>3, TextPair
<1>5. \A i \in 1..(1 + Len(b)) : s[i] = IF i <= 1 THEN << x >>[i] ELSE b[i - 1]
  BY <1>1, <1>3, TextPair
<1>6. s[1] = x /\ \A i \in 1..Len(b) : s[i + 1] = b[i]
  BY <1>2, <1>3, <1>5
<1>7. s # << >>
  BY <1>2, <1>4, EmptyText
<1>8. Tail(s) \in Text /\ Len(Tail(s)) = Len(b) /\ \A i \in 1..Len(b) : Tail(s)[i] = s[i + 1]
  BY <1>2, <1>4, <1>7, TextTail
<1>9. Tail(s) = b
  BY <1>6, <1>8, SameText
<1> QED
  BY <1>1, <1>6, <1>7, <1>9

(* The two halves of a text. *)
LEMMA Halves ==
  ASSUME NEW a \in Text, NEW b \in Text, NEW s, s = a \o b
  PROVE  /\ s \in Text /\ Len(s) = Len(a) + Len(b)
         /\ SubSeq(s, 1, Len(a)) = a
         /\ SubSeq(s, Len(a) + 1, Len(s)) = b
<1>1. Len(a) \in Nat /\ Len(b) \in Nat
  BY DEF Text
<1>2. s \in Text /\ Len(s) = Len(a) + Len(b)
  BY TextPair
<1>3. \A i \in 1..(Len(a) + Len(b)) : s[i] = IF i <= Len(a) THEN a[i] ELSE b[i - Len(a)]
  BY TextPair
<1>4. SubSeq(s, 1, Len(a)) = a
  <2>1. PICK t : t = SubSeq(s, 1, Len(a))
    OBVIOUS
  <2>2. 1 \in 1..(Len(s) + 1) /\ Len(a) \in (1 - 1)..Len(s)
    BY <1>1, <1>2
  <2>3. t \in Text /\ Len(t) = Len(a) - 1 + 1 /\ \A k \in 1..(Len(a) - 1 + 1) : t[k] = s[1 + k - 1]
    BY <1>2, <2>1, <2>2, Piece
  <2>4. t \in Text /\ Len(t) = Len(a) /\ \A k \in 1..Len(a) : t[k] = a[k]
    BY <1>1, <1>3, <2>3
  <2> QED
    BY <2>1, <2>4, SameText
<1>5. SubSeq(s, Len(a) + 1, Len(s)) = b
  <2>1. PICK t : t = SubSeq(s, Len(a) + 1, Len(s))
    OBVIOUS
  <2>2. Len(a) + 1 \in 1..(Len(s) + 1) /\ Len(s) \in ((Len(a) + 1) - 1)..Len(s)
    BY <1>1, <1>2
  <2>3. /\ t \in Text /\ Len(t) = Len(s) - (Len(a) + 1) + 1
        /\ \A k \in 1..(Len(s) - (Len(a) + 1) + 1) : t[k] = s[(Len(a) + 1) + k - 1]
    BY <1>2, <2>1, <2>2, Piece
  <2>4. t \in Text /\ Len(t) = Len(b)
    BY <1>1, <1>2, <2>3
  <2>5. ASSUME NEW k \in 1..Len(b) PROVE t[k] = b[k]
    <3>1. /\ k \in 1..(Len(s) - (Len(a) + 1) + 1)
          /\ (Len(a) + 1) + k - 1 = Len(a) + k
          /\ Len(a) + k \in 1..(Len(a) + Len(b))
          /\ ~(Len(a) + k <= Len(a)) /\ (Len(a) + k) - Len(a) = k
      BY <1>1, <1>2
    <3>2. t[k] = s[Len(a) + k]
      BY <2>3, <3>1
    <3> QED
      BY <1>3, <3>1, <3>2
  <2> QED
    BY <2>1, <2>4, <2>5, SameText
<1> QED
  BY <1>2, <1>4, <1>5

(* A text is cut at its last mark. *)
CutsLast(s, m, a, b) ==
  /\ FindLast(s, m) = Len(a) + 1
  /\ SubSeq(s, 1, FindLast(s, m) - 1) = a
  /\ SubSeq(s, FindLast(s, m) + 1, Len(s)) = b

LEMMA CutAtLast ==
  ASSUME NEW a \in Text, NEW b \in Text, NEW m \in Token, Free(b, m),
         NEW s, s = a \o (<< m >> \o b)
  PROVE  CutsLast(s, m, a, b)
<1>1. IsJoin(s, a, m, b)
  BY Joining
<1>2. Len(a) \in Nat /\ Len(b) \in Nat /\ s \in Text
  BY <1>1 DEF Text, IsJoin
<1>3. << m >> \in Text /\ Len(<< m >>) = 1
  BY TokenText
<1>4. FindLast(s, m) = Len(a) + 1
  <2>1. Len(a) + 1 \in 1..Len(s) /\ s[Len(a) + 1] = m
    BY <1>1, <1>2 DEF IsJoin
  <2>2. ASSUME NEW j \in ((Len(a) + 1) + 1)..Len(s) PROVE s[j] # m
    <3>1. j - (Len(a) + 1) \in 1..Len(b) /\ Len(a) + 1 + (j - (Len(a) + 1)) = j
      BY <1>1, <1>2 DEF IsJoin
    <3>2. s[Len(a) + 1 + (j - (Len(a) + 1))] = b[j - (Len(a) + 1)]
      BY <1>1, <3>1 DEF IsJoin
    <3> QED
      BY <3>1, <3>2 DEF Free
  <2> QED
    BY <1>2, <2>1, <2>2, FoundLastAt
<1>5. << m >> \o b \in Text
  BY <1>3, TextPair
<1>6. SubSeq(s, 1, Len(a)) = a
  BY <1>5, Halves
<1>7. SubSeq(s, Len(a) + 1 + 1, Len(s)) = b
  <2>1. PICK c : c = a \o << m >>
    OBVIOUS
  <2>2. c \in Text /\ Len(c) = Len(a) + 1
    BY <1>2, <1>3, <2>1, TextPair
  <2>3. s = c \o b
    BY <1>3, <2>1, Regroup
  <2>4. c \in Text /\ b \in Text /\ s = c \o b
    BY <2>2, <2>3
  <2>5. SubSeq(s, Len(c) + 1, Len(s)) = b
    BY ONLY <2>4, Halves
  <2> QED
    BY <2>2, <2>5
<1>8. (Len(a) + 1) - 1 = Len(a)
  BY <1>2
<1> QED
  BY <1>4, <1>6, <1>7, <1>8 DEF CutsLast

LEMMA Middle ==
  ASSUME NEW a \in Text, NEW b \in Text, NEW c \in Text, NEW s, s = a \o (b \o c)
  PROVE  SubSeq(s, Len(a) + 1, Len(a) + Len(b)) = b
<1>1. Len(a) \in Nat /\ Len(b) \in Nat /\ Len(c) \in Nat
  BY DEF Text
<1>2. PICK d : d = b \o c
  OBVIOUS
<1>3. /\ d \in Text /\ Len(d) = Len(b) + Len(c)
      /\ \A i \in 1..(Len(b) + Len(c)) : d[i] = IF i <= Len(b) THEN b[i] ELSE c[i - Len(b)]
  BY <1>2, TextPair
<1>4. /\ s \in Text /\ Len(s) = Len(a) + Len(d)
      /\ \A i \in 1..(Len(a) + Len(d)) : s[i] = IF i <= Len(a) THEN a[i] ELSE d[i - Len(a)]
  <2>1. s = a \o d
    BY <1>2
  <2> QED
    BY ONLY <1>3, <2>1, TextPair, a \in Text
<1>5. \A i \in 1..Len(b) : s[Len(a) + i] = b[i]
  <2> SUFFICES ASSUME NEW i \in 1..Len(b) PROVE s[Len(a) + i] = b[i]
    OBVIOUS
  <2>1. /\ Len(a) + i \in 1..(Len(a) + Len(d)) /\ ~(Len(a) + i <= Len(a)) /\ (Len(a) + i) - Len(a) = i
        /\ i \in 1..(Len(b) + Len(c)) /\ i <= Len(b)
    BY <1>1, <1>3
  <2>2. s[Len(a) + i] = d[i]
    BY <1>4, <2>1
  <2> QED
    BY <1>3, <2>1, <2>2
<1>6. PICK t : t = SubSeq(s, Len(a) + 1, Len(a) + Len(b))
  OBVIOUS
<1>7. Len(a) + 1 \in 1..(Len(s) + 1) /\ Len(a) + Len(b) \in ((Len(a) + 1) - 1)..Len(s)
  BY <1>1, <1>3, <1>4
<1>8. /\ t \in Text /\ Len(t) = (Len(a) + Len(b)) - (Len(a) + 1) + 1
      /\ \A k \in 1..((Len(a) + Len(b)) - (Len(a) + 1) + 1) : t[k] = s[(Len(a) + 1) + k - 1]
  BY <1>4, <1>6, <1>7, Piece
<1>9. t \in Text /\ Len(t) = Len(b)
  BY <1>1, <1>8
<1>10. ASSUME NEW k \in 1..Len(b) PROVE t[k] = b[k]
  <2>1. k \in 1..((Len(a) + Len(b)) - (Len(a) + 1) + 1) /\ (Len(a) + 1) + k - 1 = Len(a) + k
    BY <1>1
  <2>2. t[k] = s[Len(a) + k]
    BY <1>8, <2>1
  <2> QED
    BY <1>5, <2>2
<1> QED
  BY <1>6, <1>9, <1>10, SameText

-----------------------------------------------------------------------------
(* The connection of a form, as it is written and as it is read. *)
LEMMA MarkToken ==
  /\ Word \subseteq Token /\ Mark \subseteq Token
  /\ \A m \in Mark : m \notin Word
  /\ {":", "/", "@", "?", "&", "=", ",", "[", "]", NUL} \subseteq Mark
BY UriParamsAssumption DEF Token, Mark

LEMMA NameText ==
  ASSUME NEW s \in Name
  PROVE  s \in Text /\ \A m \in Mark : Free(s, m)
BY FreeOf, MarkToken DEF Name

LEMMA HostForm ==
  ASSUME NEW l, IsLocation(l)
  PROVE  /\ l.host \in Text
         /\ HostText(l.host) \in Text /\ HostText(l.host) # << >>
         /\ Free(HostText(l.host), "?") /\ Free(HostText(l.host), "@")
<1>1. PICK h : h = l.host
  OBVIOUS
<1>2. CASE h \in Name \ {<<>>}
  <2>1. h \in Text /\ Free(h, ":") /\ Free(h, "?") /\ Free(h, "@")
    BY <1>2, NameText, MarkToken
  <2>2. HostText(h) = h
    BY <2>1, NoCut DEF HostText
  <2> QED
    BY <1>1, <1>2, <2>1, <2>2
<1>3. CASE h \in Seq(Word \union {":"}) /\ Has(h, ":")
  <2>1. Word \union {":"} \in SUBSET Token
    BY MarkToken
  <2>2. "?" \notin Word \union {":"} /\ "@" \notin Word \union {":"}
    BY MarkToken
  <2>3. h \in Text /\ Free(h, "?") /\ Free(h, "@")
    BY <1>3, <2>1, <2>2, FreeOf
  <2>4. "[" \in Token /\ "]" \in Token
    BY MarkToken
  <2>5. << "]" >> \in Text /\ Free(<< "]" >>, "?") /\ Free(<< "]" >>, "@")
    BY <2>4, TokenText, FreeToken
  <2>6. << "[" >> \in Text /\ Free(<< "[" >>, "?") /\ Free(<< "[" >>, "@")
    BY <2>4, TokenText, FreeToken
  <2>7. PICK b : b = h \o << "]" >>
    OBVIOUS
  <2>8. b \in Text /\ Free(b, "?") /\ Free(b, "@")
    BY <2>3, <2>5, <2>7, TextPair, FreePair
  <2>9. HostText(h) = << "[" >> \o b
    BY <1>3, <2>7 DEF HostText
  <2>10. HostText(h) \in Text /\ Free(HostText(h), "?") /\ Free(HostText(h), "@")
    BY <2>6, <2>8, <2>9, TextPair, FreePair
  <2>11. HostText(h) # << >>
    BY <2>4, <2>8, <2>9, TailOf
  <2> QED
    BY <1>1, <2>3, <2>10, <2>11
<1>4. CASE h \in Seq(Word \union {"/"}) \ {<<>>}
  <2>1. Word \union {"/"} \in SUBSET Token
    BY MarkToken
  <2>2. "?" \notin Word \union {"/"} /\ "@" \notin Word \union {"/"} /\ ":" \notin Word \union {"/"}
    BY MarkToken
  <2>3. h \in Text /\ Free(h, "?") /\ Free(h, "@") /\ Free(h, ":")
    BY <1>4, <2>1, <2>2, FreeOf
  <2>4. HostText(h) = h
    BY <2>3, NoCut DEF HostText
  <2> QED
    BY <1>1, <1>4, <2>3, <2>4
<1> QED
  BY <1>1, <1>2, <1>3, <1>4 DEF IsLocation

(* The port is the only part behind the host with a colon. *)
LEMMA PortForm ==
  ASSUME NEW l, IsLocation(l)
  PROVE  /\ PortText(l) \in Text /\ Free(PortText(l), "?") /\ Free(PortText(l), "@")
         /\ l.port = None => PortText(l) = << >>
         /\ \A p : l.port = Some(p) =>
              /\ p \in Word /\ p \in DOMAIN PortOf /\ PortOf[p] \in Ports
              /\ PortText(l) = << ":" >> \o << p >>
<1>1. CASE l.port = None
  BY <1>1, EmptyText, FreeEmpty, OrSome DEF PortText
<1>2. CASE l.port # None
  <2>1. PICK p : l.port = Some(p) /\ p \in DOMAIN PortOf /\ PortOf[p] \in Ports
    BY <1>2, OptionCases DEF IsLocation
  <2>2. p \in Word /\ p \in Token /\ ":" \in Token /\ p # "?" /\ p # "@"
    BY <2>1, UriParamsAssumption, MarkToken
  <2>3. PortText(l) = << ":", p >>
    BY <2>1, OrSome DEF PortText
  <2>4. << ":", p >> = << ":" >> \o << p >>
    OBVIOUS
  <2>5. /\ << ":" >> \in Text /\ << p >> \in Text
        /\ Free(<< ":" >>, "?") /\ Free(<< ":" >>, "@") /\ Free(<< p >>, "?") /\ Free(<< p >>, "@")
    BY <2>2, TokenText, FreeToken
  <2>6. << ":" >> \o << p >> \in Text /\ Free(<< ":" >> \o << p >>, "?") /\ Free(<< ":" >> \o << p >>, "@")
    BY <2>5, TextPair, FreePair
  <2>7. \A q : l.port = Some(q) => q = p
    BY <2>1 DEF Some
  <2> QED
    BY <1>2, <2>1, <2>2, <2>3, <2>4, <2>6, <2>7
<1> QED
  BY <1>1, <1>2

LEMMA PathForm ==
  ASSUME NEW l, IsLocation(l)
  PROVE  /\ PathText(l) \in Text
         /\ Free(PathText(l), "?") /\ Free(PathText(l), "@") /\ Free(PathText(l), ":")
         /\ l.path = None => PathText(l) = << >>
         /\ \A p : l.path = Some(p) => p \in Text /\ PathText(l) = << "/" >> \o p
<1>1. CASE l.path = None
  BY <1>1, EmptyText, FreeEmpty, OrSome DEF PathText
<1>2. CASE l.path # None
  <2>1. PICK p : l.path = Some(p) /\ p \in Seq(Word \union {"/"})
    BY <1>2, OptionCases DEF IsLocation
  <2>2. Word \union {"/"} \in SUBSET Token
    BY MarkToken
  <2>3. "?" \notin Word \union {"/"} /\ "@" \notin Word \union {"/"} /\ ":" \notin Word \union {"/"}
    BY MarkToken
  <2>4. p \in Text /\ Free(p, "?") /\ Free(p, "@") /\ Free(p, ":")
    BY <2>1, <2>2, <2>3, FreeOf
  <2>5. PathText(l) = << "/" >> \o p
    BY <2>1, OrSome DEF PathText
  <2>6. << "/" >> \in Text /\ Free(<< "/" >>, "?") /\ Free(<< "/" >>, "@") /\ Free(<< "/" >>, ":")
    BY MarkToken, TokenText, FreeToken
  <2>7. << "/" >> \o p \in Text /\ Free(<< "/" >> \o p, "?") /\ Free(<< "/" >> \o p, "@")
        /\ Free(<< "/" >> \o p, ":")
    BY <2>4, <2>6, TextPair, FreePair
  <2>8. \A q : l.path = Some(q) => q = p
    BY <2>1 DEF Some
  <2> QED
    BY <1>2, <2>4, <2>5, <2>7, <2>8
<1> QED
  BY <1>1, <1>2

LEMMA UserForm ==
  ASSUME NEW l, IsLocation(l)
  PROVE  /\ UserText(l) \in Text /\ Free(UserText(l), "?")
         /\ l.user = None => UserText(l) = << >> /\ l.password = None
         /\ l.user # None => \E u, w \in Text :
              /\ l.user = Some(u) /\ l.password = Some(w)
              /\ Free(u, ":")
              /\ UserText(l) = u \o (<< ":" >> \o (w \o << "@" >>))
<1>1. CASE l.user = None
  BY <1>1, EmptyText, FreeEmpty, OrSome DEF UserText, IsLocation
<1>2. CASE l.user # None
  <2>1. PICK u : l.user = Some(u) /\ u \in Seq(Token \ {":", "?", NUL})
    BY <1>2, OptionCases DEF IsLocation
  <2>2. PICK w : l.password = Some(w) /\ w \in Seq(Token \ {"?", NUL})
    BY <1>2, OptionCases DEF IsLocation
  <2>3. Token \ {":", "?", NUL} \in SUBSET Token /\ Token \ {"?", NUL} \in SUBSET Token
    OBVIOUS
  <2>4. u \in Text /\ Free(u, ":") /\ Free(u, "?")
    BY <2>1, <2>3, FreeOf
  <2>5. w \in Text /\ Free(w, "?")
    BY <2>2, <2>3, FreeOf
  <2>6. << ":" >> \in Text /\ << "@" >> \in Text /\ Free(<< ":" >>, "?") /\ Free(<< "@" >>, "?")
    BY MarkToken, TokenText, FreeToken
  <2>7. PICK b : b = w \o << "@" >>
    OBVIOUS
  <2>8. b \in Text /\ Free(b, "?")
    BY <2>5, <2>6, <2>7, TextPair, FreePair
  <2>9. PICK c : c = << ":" >> \o b
    OBVIOUS
  <2>10. c \in Text /\ Free(c, "?")
    BY <2>6, <2>8, <2>9, TextPair, FreePair
  <2>11. u \o c \in Text /\ Free(u \o c, "?")
    BY <2>4, <2>10, TextPair, FreePair
  <2>12. UserText(l) = u \o c /\ c = << ":" >> \o (w \o << "@" >>)
    BY <1>2, <2>1, <2>2, <2>7, <2>9, OrSome DEF UserText
  <2> QED
    BY <1>2, <2>1, <2>2, <2>4, <2>5, <2>11, <2>12
<1> QED
  BY <1>1, <1>2

-----------------------------------------------------------------------------
(* The parameters of a form. *)
Columnar(s) == s \in Text /\ \A m \in Mark : m # "," => Free(s, m)

LEMMA ColumnarPair ==
  ASSUME NEW a, NEW b, Columnar(a), Columnar(b)
  PROVE  Columnar(a \o b)
<1> SUFFICES ASSUME NEW m \in Mark, m # "," PROVE a \o b \in Text /\ Free(a \o b, m)
  BY TextPair DEF Columnar
<1>1. a \in Text /\ b \in Text /\ Free(a, m) /\ Free(b, m)
  BY DEF Columnar
<1> QED
  BY <1>1, TextPair, FreePair

LEMMA ColumnForm ==
  ASSUME NEW c \in Seq(Name), NEW n \in Nat \ {0}
  PROVE  Columnar(AndColumn(c, n))
<1>1. CASE n > Len(c)
  BY <1>1, EmptyText, FreeEmpty DEF AndColumn, Columnar
<1>2. CASE ~(n > Len(c))
  <2>1. c[n] \in Name
    BY <1>2
  <2>2. Columnar(c[n])
    BY <2>1, NameText DEF Columnar
  <2>3. Columnar(<< "," >>)
    BY MarkToken, TokenText, FreeToken DEF Columnar
  <2>4. AndColumn(c, n) = << "," >> \o c[n]
    BY <1>2 DEF AndColumn
  <2> QED
    BY <2>2, <2>3, <2>4, ColumnarPair
<1> QED
  BY <1>1, <1>2

LEMMA ListedForm ==
  ASSUME NEW c \in Seq(Name), Len(c) \in 2..4
  PROVE  Columnar(Listed(c))
<1>1. Columnar(c[1])
  <2>1. c[1] \in Name
    OBVIOUS
  <2> QED
    BY <2>1, NameText DEF Columnar
<1>2. Columnar(AndColumn(c, 2)) /\ Columnar(AndColumn(c, 3)) /\ Columnar(AndColumn(c, 4))
  BY ColumnForm
<1>3. Columnar(AndColumn(c, 3) \o AndColumn(c, 4))
  BY <1>2, ColumnarPair
<1>4. Columnar(AndColumn(c, 2) \o (AndColumn(c, 3) \o AndColumn(c, 4)))
  BY <1>2, <1>3, ColumnarPair
<1> QED
  BY <1>1, <1>4, ColumnarPair DEF Listed

LEMMA EscapedForm ==
  ASSUME NEW s \in Seq(Token \ (Escapes \union {NUL}))
  PROVE  /\ Escaped(s) \in Text /\ Free(Escaped(s), "&") /\ Free(Escaped(s), NUL)
         /\ Decoded(Escaped(s)) = s
<1>1. PICK e : e = Escaped(s)
  OBVIOUS
<1>2. s \in Text /\ Len(s) \in Nat /\ \A i \in 1..Len(s) : s[i] \in Token /\ s[i] # NUL /\ s[i] \notin Escapes
  BY DEF Text
<1>3. e = [i \in 1..Len(s) |-> IF s[i] = "&" THEN "%26" ELSE s[i]]
  BY <1>1 DEF Escaped
<1>4. "%26" \in Token /\ "%26" # NUL /\ "%26" # "&"
  BY UriParamsAssumption DEF Token, Escapes, NUL
<1>5. e \in Text /\ Len(e) = Len(s)
  BY <1>2, <1>3, <1>4 DEF Text
<1>6. \A i \in 1..Len(s) : e[i] # "&" /\ e[i] # NUL
  BY <1>2, <1>3, <1>4
<1>7. \A i \in 1..Len(s) : CharOf(e[i]) = s[i]
  <2> SUFFICES ASSUME NEW i \in 1..Len(s) PROVE CharOf(e[i]) = s[i]
    OBVIOUS
  <2>1. CASE s[i] = "&"
    BY <1>3, <2>1 DEF CharOf
  <2>2. CASE s[i] # "&"
    <3>1. e[i] = s[i] /\ s[i] \notin Escapes
      BY <1>2, <1>3, <2>2
    <3> QED
      BY <3>1 DEF CharOf, Escapes
  <2> QED
    BY <2>1, <2>2
<1>8. Decoded(e) \in Text /\ Len(Decoded(e)) = Len(s) /\ \A i \in 1..Len(s) : Decoded(e)[i] = s[i]
  BY <1>5, <1>7, DecodedType
<1>9. Decoded(e) = s
  BY <1>2, <1>8, SameText
<1> QED
  BY <1>1, <1>5, <1>6, <1>9 DEF Free

LEMMA ClauseForm ==
  ASSUME NEW kind \in Kind, NEW t, IsTable(kind, t)
  PROVE  /\ AndClause(t) \in Text /\ Free(AndClause(t), "&") /\ Free(AndClause(t), NUL)
         /\ t.where = None => AndClause(t) = << >>
         /\ \A w : t.where = Some(w) =>
              /\ w \in Seq(Token \ (Escapes \union {NUL}))
              /\ AndClause(t) = << ":" >> \o (<< "where", "=" >> \o Escaped(w))
<1>1. CASE t.where = None
  BY <1>1, EmptyText, FreeEmpty, OrSome DEF AndClause
<1>2. CASE t.where # None
  <2>1. PICK w : t.where = Some(w) /\ w \in Seq(Token \ (Escapes \union {NUL}))
    BY <1>2, OptionCases DEF IsTable
  <2>2. PICK e : e = Escaped(w)
    OBVIOUS
  <2>3. e \in Text /\ Free(e, "&") /\ Free(e, NUL)
    BY <2>1, <2>2, EscapedForm
  <2>4. "where" \in Token /\ "where" # "&" /\ "where" # NUL /\ "=" \in Token /\ "=" # NUL /\ ":" \in Token /\ ":" # NUL
    BY UriParamsAssumption DEF Where, Token, Mark, NUL
  <2>5. << "where", "=" >> \in Text /\ Free(<< "where", "=" >>, "&") /\ Free(<< "where", "=" >>, NUL)
    BY <2>4 DEF Text, Free
  <2>6. PICK b : b = << "where", "=" >> \o e
    OBVIOUS
  <2>7. b \in Text /\ Free(b, "&") /\ Free(b, NUL)
    BY <2>3, <2>5, <2>6, TextPair, FreePair
  <2>8. << ":" >> \in Text /\ Free(<< ":" >>, "&") /\ Free(<< ":" >>, NUL)
    BY <2>4, TokenText, FreeToken
  <2>9. << ":" >> \o b \in Text /\ Free(<< ":" >> \o b, "&") /\ Free(<< ":" >> \o b, NUL)
    BY <2>7, <2>8, TextPair, FreePair
  <2>10. AndClause(t) = << ":" >> \o b
    BY <1>2, <2>1, <2>2, <2>6, OrSome DEF AndClause
  <2>11. \A x : t.where = Some(x) => x = w
    BY <2>1 DEF Some
  <2> QED
    BY <1>2, <2>1, <2>2, <2>6, <2>9, <2>10, <2>11
<1> QED
  BY <1>1, <1>2

LEMMA ListedColsForm ==
  ASSUME NEW kind \in Kind, NEW t, IsTable(kind, t)
  PROVE  /\ Columnar(ListedCols(t))
         /\ t.cols = None => ListedCols(t) = << >>
         /\ \A c : t.cols = Some(c) => /\ c \in Seq(Name) /\ Len(c) = Width(kind)
                                       /\ ListedCols(t) = Listed(c)
<1>1. CASE t.cols = None
  BY <1>1, EmptyText, FreeEmpty, OrSome DEF ListedCols, Columnar
<1>2. CASE t.cols # None
  <2>1. PICK c : t.cols = Some(c) /\ c \in Seq(Name) /\ Len(c) = Width(kind)
    BY <1>2, OptionCases DEF IsTable
  <2>2. Len(c) \in 2..4
    BY <2>1, KindWidth
  <2>3. ListedCols(t) = Listed(c)
    BY <1>2, <2>1, OrSome DEF ListedCols
  <2>4. \A x : t.cols = Some(x) => x = c
    BY <2>1 DEF Some
  <2> QED
    BY <1>2, <2>1, <2>2, <2>3, <2>4, ListedForm
<1> QED
  BY <1>1, <1>2

LEMMA WrittenForm ==
  ASSUME NEW kind \in Kind, NEW t, IsTable(kind, t)
  PROVE  Written(t) \in Text /\ Free(Written(t), "&") /\ Free(Written(t), NUL)
<1>1. t.table \in Word /\ t.table \in Token /\ t.table # "&" /\ t.table # NUL
  BY MarkToken DEF IsTable
<1>2. << t.table >> \in Text /\ Free(<< t.table >>, "&") /\ Free(<< t.table >>, NUL)
  BY <1>1, TokenText, FreeToken
<1>3. PICK l : l = ListedCols(t)
  OBVIOUS
<1>4. PICK a : a = AndClause(t)
  OBVIOUS
<1>5. "&" # "," /\ NUL # "," /\ "&" \in Mark /\ NUL \in Mark /\ ":" \in Token /\ ":" # "&" /\ ":" # NUL
  BY MarkToken DEF NUL
<1>6. l \in Text /\ Free(l, "&") /\ Free(l, NUL)
  BY <1>3, <1>5, ListedColsForm DEF Columnar
<1>7. a \in Text /\ Free(a, "&") /\ Free(a, NUL)
  BY <1>4, ClauseForm
<1>8. l \o a \in Text /\ Free(l \o a, "&") /\ Free(l \o a, NUL)
  BY <1>6, <1>7, TextPair, FreePair
<1>9. << ":" >> \in Text /\ Free(<< ":" >>, "&") /\ Free(<< ":" >>, NUL)
  BY <1>5, TokenText, FreeToken
<1>10. PICK b : b = << ":" >> \o (l \o a)
  OBVIOUS
<1>11. b \in Text /\ Free(b, "&") /\ Free(b, NUL)
  BY <1>8, <1>9, <1>10, TextPair, FreePair
<1>12. PICK c : c = IF t.cols = None /\ t.where = None THEN <<>> ELSE b
  OBVIOUS
<1>13. c \in Text /\ Free(c, "&") /\ Free(c, NUL)
  BY <1>11, <1>12, EmptyText, FreeEmpty
<1>14. Written(t) = << t.table >> \o c
  BY <1>3, <1>4, <1>10, <1>12 DEF Written
<1> QED
  BY <1>2, <1>13, <1>14, TextPair, FreePair

Key == {"database", "ctx", "conf", "map", "base_id"}

(* The value of a parameter ends where the next one begins. *)
LEMMA ItemForm ==
  ASSUME NEW f \in Forms, NEW key \in Key
  PROVE  \/ Item(f, key) = None
         \/ \E v \in Text : Item(f, key) = Some(v) /\ Free(v, "&") /\ Free(v, NUL)
<1>1. IsForm(f)
  BY FormsAssumption
<1>2. \A v \in Name : v \in Text /\ Free(v, "&") /\ Free(v, NUL)
  BY NameText, MarkToken
<1>3. CASE key = "database" \/ key = "base_id"
  <2>1. IsOption(Item(f, key), Name)
    BY <1>1, <1>3 DEF Item, IsForm
  <2> QED
    BY <1>2, <2>1, OptionCases
<1>4. CASE key \in Kind
  <2>1. Item(f, key) = {Written(t) : t \in f[key]}
    BY <1>4 DEF Item, Kind
  <2>2. f[key] = None \/ \E t \in f[key] : f[key] = {t} /\ IsTable(key, t)
    BY <1>1, <1>4 DEF IsForm
  <2>3. CASE f[key] = None
    BY <2>1, <2>3 DEF None
  <2>4. ASSUME NEW t, f[key] = {t}, IsTable(key, t)
        PROVE  \E v \in Text : Item(f, key) = Some(v) /\ Free(v, "&") /\ Free(v, NUL)
    <3>1. Item(f, key) = Some(Written(t))
      BY <2>1, <2>4 DEF Some
    <3> QED
      BY <1>4, <2>4, <3>1, WrittenForm
  <2> QED
    BY <2>2, <2>3, <2>4
<1> QED
  BY <1>3, <1>4 DEF Key, Kind

(* What is left of the parameters from one on. *)
From(f, i) ==
  IF i = 1 THEN Params(f)
  ELSE IF i = 2 THEN AndParam(f, "ctx") \o (AndParam(f, "conf") \o (AndParam(f, "map") \o AndParam(f, "base_id")))
  ELSE IF i = 3 THEN AndParam(f, "conf") \o (AndParam(f, "map") \o AndParam(f, "base_id"))
  ELSE IF i = 4 THEN AndParam(f, "map") \o AndParam(f, "base_id")
  ELSE IF i = 5 THEN AndParam(f, "base_id")
  ELSE <<>>

LEMMA KeyFacts ==
  /\ \A i \in 1..5 : KeyNo[i] \in Key
  /\ \A i, j \in 1..5 : KeyNo[i] = KeyNo[j] => i = j
  /\ \A key \in Key : \E i \in 1..5 : KeyNo[i] = key
  /\ \A key \in Key : key \in Word /\ key \in Token /\ key # "=" /\ key # "&"
<1>1. Key \subseteq Word
  BY UriParamsAssumption DEF Key, Known
<1>2. \A key \in Key : key \in Word /\ key \in Token /\ key # "=" /\ key # "&"
  BY <1>1, MarkToken
<1>3. \A i \in 1..5 : i = 1 \/ i = 2 \/ i = 3 \/ i = 4 \/ i = 5
  OBVIOUS
<1>4. KeyNo[1] = "database" /\ KeyNo[2] = "ctx" /\ KeyNo[3] = "conf" /\ KeyNo[4] = "map" /\ KeyNo[5] = "base_id"
  BY DEF KeyNo
<1>5. \A i \in 1..5 : KeyNo[i] \in Key
  BY <1>3, <1>4 DEF Key
<1>6. \A i, j \in 1..5 : KeyNo[i] = KeyNo[j] => i = j
  BY <1>3, <1>4
<1>7. \A key \in Key : \E i \in 1..5 : KeyNo[i] = key
  BY <1>4 DEF Key
<1> QED
  BY <1>2, <1>5, <1>6, <1>7

LEMMA AndParamForm ==
  ASSUME NEW f \in Forms, NEW key \in Key
  PROVE  /\ AndParam(f, key) \in Text
         /\ Item(f, key) = None => AndParam(f, key) = << >>
         /\ \A v \in Text : Item(f, key) = Some(v) =>
              AndParam(f, key) = << "&" >> \o (<< key >> \o (<< "=" >> \o v))
<1>1. CASE Item(f, key) = None
  BY <1>1, EmptyText, OrSome DEF AndParam
<1>2. CASE Item(f, key) # None
  <2>1. PICK v \in Text : Item(f, key) = Some(v)
    BY <1>2, ItemForm
  <2>2. << key >> \in Text /\ << "=" >> \in Text /\ << "&" >> \in Text
    BY KeyFacts, MarkToken, TokenText
  <2>3. << key, "=" >> = << key >> \o << "=" >>
    OBVIOUS
  <2>4. << key, "=" >> \o v = << key >> \o (<< "=" >> \o v)
    BY <2>2, <2>3, Regroup
  <2>5. AndParam(f, key) = << "&" >> \o (<< key, "=" >> \o v)
    BY <1>2, <2>1, OrSome DEF AndParam
  <2>6. << "&" >> \o (<< key >> \o (<< "=" >> \o v)) \in Text
    BY <2>2, TextPair
  <2>7. \A x \in Text : Item(f, key) = Some(x) => x = v
    BY <2>1 DEF Some
  <2> QED
    BY <1>2, <2>4, <2>5, <2>6, <2>7
<1> QED
  BY <1>1, <1>2

LEMMA FromForm ==
  ASSUME NEW f \in Forms
  PROVE  /\ \A i \in 1..6 : From(f, i) \in Text
         /\ \A i \in 1..5 : From(f, i) = AndParam(f, KeyNo[i]) \o From(f, i + 1)
         /\ From(f, 1) = Params(f) /\ From(f, 6) = << >>
<1>1. /\ AndParam(f, "database") \in Text /\ AndParam(f, "ctx") \in Text /\ AndParam(f, "conf") \in Text
      /\ AndParam(f, "map") \in Text /\ AndParam(f, "base_id") \in Text
  BY AndParamForm DEF Key
<1>2. KeyNo[1] = "database" /\ KeyNo[2] = "ctx" /\ KeyNo[3] = "conf" /\ KeyNo[4] = "map" /\ KeyNo[5] = "base_id"
  BY DEF KeyNo
<1>3. From(f, 6) = << >>
  BY DEF From
<1>4. From(f, 5) = AndParam(f, "base_id") \o From(f, 6) /\ From(f, 5) \in Text
  BY <1>1, <1>3, WithEmpty DEF From
<1>5. From(f, 4) = AndParam(f, "map") \o From(f, 5) /\ From(f, 4) \in Text
  <2>1. From(f, 4) = AndParam(f, "map") \o From(f, 5)
    BY DEF From
  <2> QED
    BY ONLY <1>1, <1>4, <2>1, TextPair
<1>6. From(f, 3) = AndParam(f, "conf") \o From(f, 4) /\ From(f, 3) \in Text
  <2>1. From(f, 3) = AndParam(f, "conf") \o From(f, 4)
    BY DEF From
  <2> QED
    BY ONLY <1>1, <1>5, <2>1, TextPair
<1>7. From(f, 2) = AndParam(f, "ctx") \o From(f, 3) /\ From(f, 2) \in Text
  <2>1. From(f, 2) = AndParam(f, "ctx") \o From(f, 3)
    BY DEF From
  <2> QED
    BY ONLY <1>1, <1>6, <2>1, TextPair
<1>8. From(f, 1) = AndParam(f, "database") \o From(f, 2) /\ From(f, 1) \in Text
  <2>1. From(f, 1) = AndParam(f, "database") \o From(f, 2)
    BY DEF From, Params
  <2>2. AndParam(f, "database") \o From(f, 2) \in Text
    BY ONLY <1>1, <1>7, TextPair
  <2> QED
    BY ONLY <2>1, <2>2
<1>9. From(f, 1) = Params(f)
  BY DEF From
<1>10. \A i \in 1..6 : i = 1 \/ i = 2 \/ i = 3 \/ i = 4 \/ i = 5 \/ i = 6
  OBVIOUS
<1>11. \A i \in 1..6 : From(f, i) \in Text
  BY <1>3, <1>4, <1>5, <1>6, <1>7, <1>8, <1>10, EmptyText
<1>12. \A i \in 1..5 : i = 1 \/ i = 2 \/ i = 3 \/ i = 4 \/ i = 5
  OBVIOUS
<1>13. ASSUME NEW i \in 1..5 PROVE From(f, i) = AndParam(f, KeyNo[i]) \o From(f, i + 1)
  <2>1. CASE i = 1
    <3>1. i + 1 = 2
      BY <2>1
    <3> QED
      BY <1>2, <1>8, <2>1, <3>1
  <2>2. CASE i = 2
    <3>1. i + 1 = 3
      BY <2>2
    <3> QED
      BY <1>2, <1>7, <2>2, <3>1
  <2>3. CASE i = 3
    <3>1. i + 1 = 4
      BY <2>3
    <3> QED
      BY <1>2, <1>6, <2>3, <3>1
  <2>4. CASE i = 4
    <3>1. i + 1 = 5
      BY <2>4
    <3> QED
      BY <1>2, <1>5, <2>4, <3>1
  <2>5. CASE i = 5
    <3>1. i + 1 = 6
      BY <2>5
    <3> QED
      BY <1>2, <1>4, <2>5, <3>1
  <2> QED
    BY <1>12, <2>1, <2>2, <2>3, <2>4, <2>5
<1> QED
  BY <1>3, <1>9, <1>11, <1>13

(* The first parameter of those from i on. *)
NextIs(f, i) ==
  \/ From(f, i) = << >> /\ \A j \in i..5 : Item(f, KeyNo[j]) = None
  \/ \E j \in i..5 : /\ Item(f, KeyNo[j]) # None /\ From(f, i) = From(f, j)
                     /\ \A k \in i..(j - 1) : Item(f, KeyNo[k]) = None

LEMMA NextOne ==
  ASSUME NEW f \in Forms, NEW i \in 1..5, NextIs(f, i + 1)
  PROVE  NextIs(f, i)
<1>1. From(f, i) = AndParam(f, KeyNo[i]) \o From(f, i + 1) /\ From(f, i + 1) \in Text
  <2>1. i + 1 \in 1..6
    OBVIOUS
  <2> QED
    BY <2>1, FromForm
<1>2. CASE Item(f, KeyNo[i]) # None
  <2>1. i \in i..5 /\ \A k \in i..(i - 1) : FALSE
    OBVIOUS
  <2> QED
    BY <1>2, <2>1 DEF NextIs
<1>3. CASE Item(f, KeyNo[i]) = None
  <2>1. From(f, i) = From(f, i + 1)
    BY <1>1, <1>3, AndParamForm, KeyFacts, WithEmpty
  <2>2. \A k \in i..5 : k = i \/ k \in (i + 1)..5
    OBVIOUS
  <2>3. CASE From(f, i + 1) = << >> /\ \A j \in (i + 1)..5 : Item(f, KeyNo[j]) = None
    BY <1>3, <2>1, <2>2, <2>3 DEF NextIs
  <2>4. ASSUME NEW j \in (i + 1)..5, Item(f, KeyNo[j]) # None, From(f, i + 1) = From(f, j),
               \A k \in (i + 1)..(j - 1) : Item(f, KeyNo[k]) = None
        PROVE  NextIs(f, i)
    <3>1. j \in i..5 /\ \A k \in i..(j - 1) : k = i \/ k \in (i + 1)..(j - 1)
      OBVIOUS
    <3>2. \A k \in i..(j - 1) : Item(f, KeyNo[k]) = None
      BY <1>3, <2>4, <3>1
    <3> QED
      BY <2>1, <2>4, <3>1, <3>2 DEF NextIs
  <2> QED
    BY <2>3, <2>4 DEF NextIs
<1> QED
  BY <1>2, <1>3

LEMMA NextItem ==
  ASSUME NEW f \in Forms, NEW i \in 1..6
  PROVE  NextIs(f, i)
<1>6. NextIs(f, 6)
  BY FromForm DEF NextIs
<1>5. NextIs(f, 5)
  BY <1>6, NextOne
<1>4. NextIs(f, 4)
  BY <1>5, NextOne
<1>3. NextIs(f, 3)
  BY <1>4, NextOne
<1>2. NextIs(f, 2)
  BY <1>3, NextOne
<1>1. NextIs(f, 1)
  BY <1>2, NextOne
<1>7. i = 1 \/ i = 2 \/ i = 3 \/ i = 4 \/ i = 5 \/ i = 6
  OBVIOUS
<1> QED
  BY <1>1, <1>2, <1>3, <1>4, <1>5, <1>6, <1>7

(* There is something left when one of the parameters is. *)
LEMMA FromItem ==
  ASSUME NEW f \in Forms, NEW j \in 1..5, NEW v \in Text, Item(f, KeyNo[j]) = Some(v)
  PROVE  From(f, j) # << >>
<1>1. PICK b : b = << KeyNo[j] >> \o (<< "=" >> \o v)
  OBVIOUS
<1>2. << KeyNo[j] >> \in Text /\ << "=" >> \in Text /\ << "&" >> \in Text /\ "&" \in Token
  BY KeyFacts, MarkToken, TokenText
<1>3. b \in Text
  BY <1>1, <1>2, TextPair
<1>4. AndParam(f, KeyNo[j]) = << "&" >> \o b
  BY <1>1, AndParamForm, KeyFacts
<1>5. PICK n : n = From(f, j + 1)
  OBVIOUS
<1>6. n \in Text /\ From(f, j) = AndParam(f, KeyNo[j]) \o n
  <2>1. j + 1 \in 1..6
    OBVIOUS
  <2> QED
    BY <1>5, <2>1, FromForm
<1>7. From(f, j) = << "&" >> \o (b \o n) /\ b \o n \in Text
  <2>1. (<< "&" >> \o b) \o n = << "&" >> \o (b \o n)
    BY <1>2, <1>3, <1>6, Regroup
  <2> QED
    BY <1>3, <1>4, <1>6, <2>1, TextPair
<1> QED
  BY <1>2, <1>7, TailOf

(* What the loop sees of the parameters from i on, one of which is there. *)
LEMMA RestForm ==
  ASSUME NEW f \in Forms, NEW i \in 1..5, NEW v \in Text, Item(f, KeyNo[i]) = Some(v)
  PROVE  \E kv \in Text :
           /\ Before(kv, "=") = << KeyNo[i] >> /\ After(kv, "=") = v /\ Has(kv, "=")
           /\ IF From(f, i + 1) = << >>
              THEN Tail(From(f, i)) = kv /\ ~Has(kv, "&")
              ELSE /\ Has(Tail(From(f, i)), "&")
                   /\ Before(Tail(From(f, i)), "&") = kv
                   /\ After(Tail(From(f, i)), "&") = Tail(From(f, i + 1))
<1>1. PICK key : key = KeyNo[i]
  OBVIOUS
<1>2. key \in Key /\ key \in Token /\ key # "=" /\ key # "&"
  BY <1>1, KeyFacts
<1>3. Free(v, "&")
  <2>1. PICK x \in Text : Item(f, key) = Some(x) /\ Free(x, "&")
    BY <1>1, <1>2, ItemForm, OrSome
  <2>2. x = v
    BY <1>1, <2>1 DEF Some
  <2> QED
    BY <2>1, <2>2
<1>4. PICK kv : kv = << key >> \o (<< "=" >> \o v)
  OBVIOUS
<1>5. << key >> \in Text /\ Free(<< key >>, "=") /\ Free(<< key >>, "&")
  BY <1>2, TokenText, FreeToken
<1>6. "=" \in Token /\ "&" \in Token /\ "=" # "&"
  BY MarkToken
<1>7. << "=" >> \in Text /\ Free(<< "=" >>, "&")
  BY <1>6, TokenText, FreeToken
<1>8. << "=" >> \o v \in Text /\ Free(<< "=" >> \o v, "&")
  BY <1>3, <1>7, TextPair, FreePair
<1>9. kv \in Text /\ Free(kv, "&")
  BY <1>4, <1>5, <1>8, TextPair, FreePair
<1>10. Has(kv, "=") /\ Before(kv, "=") = << key >> /\ After(kv, "=") = v
  <2>1. PICK a : a = << key >>
    OBVIOUS
  <2>2. Cuts(kv, "=", a, v)
    BY <1>4, <1>5, <1>6, <2>1, CutAtFirst
  <2> QED
    BY <2>1, <2>2 DEF Cuts
<1>11. PICK n : n = From(f, i + 1)
  OBVIOUS
<1>12. n \in Text /\ From(f, i) = AndParam(f, key) \o n
  <2>1. i + 1 \in 1..6
    OBVIOUS
  <2> QED
    BY <1>1, <1>11, <2>1, FromForm
<1>13. AndParam(f, key) = << "&" >> \o kv
  BY <1>1, <1>2, <1>4, AndParamForm
<1>14. << "&" >> \in Text
  BY <1>6, TokenText
<1>15. From(f, i) = << "&" >> \o (kv \o n)
  BY <1>9, <1>12, <1>13, <1>14, Regroup
<1>16. kv \o n \in Text
  BY <1>9, <1>12, TextPair
<1>17. Tail(From(f, i)) = kv \o n
  BY <1>6, <1>15, <1>16, TailOf
<1>18. CASE n = << >>
  <2>1. Tail(From(f, i)) = kv
    BY <1>9, <1>17, <1>18, WithEmpty
  <2>2. ~Has(kv, "&")
    BY <1>9, NoCut
  <2> QED
    BY <1>1, <1>9, <1>10, <1>11, <1>18, <2>1, <2>2
<1>19. CASE n # << >>
  <2>1. PICK j \in (i + 1)..5 : Item(f, KeyNo[j]) # None /\ n = From(f, j)
    <3>1. i + 1 \in 1..6
      OBVIOUS
    <3>2. NextIs(f, i + 1)
      BY <3>1, NextItem
    <3> QED
      BY <1>11, <1>19, <3>2 DEF NextIs
  <2>2. j \in 1..5
    BY <2>1
  <2>3. PICK x \in Text : Item(f, KeyNo[j]) = Some(x)
    BY <2>1, <2>2, ItemForm, KeyFacts
  <2>4. PICK y : y = << KeyNo[j] >> \o (<< "=" >> \o x)
    OBVIOUS
  <2>5. y \in Text
    <3>1. << KeyNo[j] >> \in Text
      BY <2>2, KeyFacts, TokenText
    <3> QED
      BY <1>7, <2>4, <3>1, TextPair
  <2>6. AndParam(f, KeyNo[j]) = << "&" >> \o y
    BY <2>2, <2>3, <2>4, AndParamForm, KeyFacts
  <2>7. PICK z : z = From(f, j + 1)
    OBVIOUS
  <2>8. z \in Text /\ n = AndParam(f, KeyNo[j]) \o z
    <3>1. j + 1 \in 1..6
      BY <2>2
    <3> QED
      BY <2>1, <2>2, <2>7, <3>1, FromForm
  <2>b. PICK b : b = y \o z
    OBVIOUS
  <2>9. n = << "&" >> \o b /\ b \in Text
    <3>1. n = (<< "&" >> \o y) \o z
      BY <2>6, <2>8
    <3>2. (<< "&" >> \o y) \o z = << "&" >> \o (y \o z)
      BY <1>14, <2>5, <2>8, Regroup
    <3> QED
      BY <2>5, <2>8, <2>b, <3>1, <3>2, TextPair
  <2>10. Tail(n) = b
    BY <1>6, <2>9, TailOf
  <2>11. PICK s : s = Tail(From(f, i))
    OBVIOUS
  <2>12. s = kv \o (<< "&" >> \o b)
    BY <1>17, <2>9, <2>11
  <2>13. Cuts(s, "&", kv, b)
    BY <1>6, <1>9, <2>9, <2>12, CutAtFirst
  <2> QED
    BY <1>1, <1>9, <1>10, <1>11, <1>19, <2>10, <2>11, <2>13 DEF Cuts
<1> QED
  BY <1>18, <1>19

-----------------------------------------------------------------------------
(* How the code takes the URI of a form apart. *)
LEMMA LocationForm ==
  ASSUME NEW l, IsLocation(l)
  PROVE  LocationText(l) \in Text /\ Free(LocationText(l), "?")
<1>1. PICK u : u = UserText(l)
  OBVIOUS
<1>2. PICK h : h = HostText(l.host)
  OBVIOUS
<1>3. PICK p : p = PortText(l)
  OBVIOUS
<1>4. PICK d : d = PathText(l)
  OBVIOUS
<1>5. u \in Text /\ h \in Text /\ p \in Text /\ d \in Text
  BY <1>1, <1>2, <1>3, <1>4, UserForm, HostForm, PortForm, PathForm
<1>6. Free(u, "?") /\ Free(h, "?") /\ Free(p, "?") /\ Free(d, "?")
  BY <1>1, <1>2, <1>3, <1>4, UserForm, HostForm, PortForm, PathForm
<1>7. p \o d \in Text /\ Free(p \o d, "?")
  BY <1>5, <1>6, TextPair, FreePair
<1>8. h \o (p \o d) \in Text /\ Free(h \o (p \o d), "?")
  BY <1>5, <1>6, <1>7, TextPair, FreePair
<1>9. u \o (h \o (p \o d)) \in Text /\ Free(u \o (h \o (p \o d)), "?")
  BY <1>5, <1>6, <1>8, TextPair, FreePair
<1> QED
  BY <1>1, <1>2, <1>3, <1>4, <1>9 DEF LocationText

LEMMA SchemeForm ==
  "sql://" \in Token /\ "sql://" # "?" /\ << "sql://" >> \in Text /\ Free(<< "sql://" >>, "?")
<1>1. "sql://" \in Word
  BY UriParamsAssumption DEF Known
<1>2. "sql://" \in Token /\ "sql://" # "?"
  BY <1>1, MarkToken
<1> QED
  BY <1>2, TokenText, FreeToken

LEMMA UriForm ==
  ASSUME NEW f \in Forms, NEW u, u = Render(f)
  PROVE  /\ u \in Text /\ u[1] = "sql://"
         /\ Tail(Before(u, "?")) = LocationText(f.loc)
         /\ Query(u) = IF Params(f) = << >> THEN None ELSE Some(Tail(Params(f)))
<1>1. PICK l : l = LocationText(f.loc)
  OBVIOUS
<1>2. l \in Text /\ Free(l, "?")
  BY <1>1, LocationForm, FormsAssumption DEF IsForm
<1>3. PICK sl : sl = << "sql://" >> \o l
  OBVIOUS
<1>4. sl \in Text /\ Free(sl, "?")
  BY <1>2, <1>3, SchemeForm, TextPair, FreePair
<1>5. Tail(sl) = l /\ sl[1] = "sql://" /\ sl # << >>
  BY <1>2, <1>3, SchemeForm, TailOf
<1>6. Params(f) \in Text
  <2>1. 1 \in 1..6
    OBVIOUS
  <2> QED
    BY <2>1, FromForm
<1>7. CASE Params(f) = << >>
  <2>1. u = sl
    BY <1>1, <1>2, <1>3, <1>7, WithEmpty DEF Render
  <2>2. ~Has(u, "?") /\ Before(u, "?") = u
    BY <1>4, <2>1, NoCut
  <2> QED
    BY <1>1, <1>4, <1>5, <1>7, <2>1, <2>2 DEF Query
<1>8. CASE Params(f) # << >>
  <2>1. PICK q : q = Tail(Params(f))
    OBVIOUS
  <2>2. q \in Text
    BY <1>6, <1>8, <2>1, TextTail
  <2>3. "?" \in Token /\ << "?" >> \in Text
    BY MarkToken, TokenText
  <2>4. << "?" >> \o q \in Text
    BY <2>2, <2>3, TextPair
  <2>5. u = << "sql://" >> \o (l \o (<< "?" >> \o q))
    BY <1>1, <1>8, <2>1 DEF Render
  <2>6. u = sl \o (<< "?" >> \o q)
    BY <1>2, <1>3, <2>4, <2>5, SchemeForm, Regroup
  <2>7. Cuts(u, "?", sl, q)
    BY ONLY <1>4, <2>2, <2>3, <2>6, CutAtFirst
  <2>8. u \in Text /\ u[1] = "sql://"
    <3>1. l \o (<< "?" >> \o q) \in Text
      BY <1>2, <2>4, TextPair
    <3>2. (<< "sql://" >> \o (l \o (<< "?" >> \o q)))[1] = "sql://"
      BY <3>1, SchemeForm, TailOf
    <3>3. << "sql://" >> \o (l \o (<< "?" >> \o q)) \in Text
      BY <3>1, SchemeForm, TextPair
    <3> QED
      BY <2>5, <3>2, <3>3
  <2>9. Has(u, "?") /\ Before(u, "?") = sl /\ After(u, "?") = q
    BY <2>7 DEF Cuts
  <2> QED
    BY <1>1, <1>5, <1>8, <2>1, <2>8, <2>9 DEF Query
<1> QED
  BY <1>7, <1>8

(* What lies behind the host. *)
BehindHost(l) == PortText(l) \o PathText(l)

LEMMA BehindForm ==
  ASSUME NEW l, IsLocation(l)
  PROVE  BehindHost(l) \in Text /\ Free(BehindHost(l), "@") /\ Free(BehindHost(l), "?")
BY PortForm, PathForm, TextPair, FreePair DEF BehindHost

LEMMA UserRead ==
  ASSUME NEW f \in Forms, uri = Render(f)
  PROVE  /\ User = f.loc.user /\ Password = f.loc.password
         /\ Location = HostText(f.loc.host) \o BehindHost(f.loc)
<1>1. PICK l : l = f.loc
  OBVIOUS
<1>2. IsLocation(l)
  BY <1>1, FormsAssumption DEF IsForm
<1>3. PICK t : t = Authority
  OBVIOUS
<1>4. t = LocationText(l)
  BY <1>1, <1>3, UriForm DEF Authority
<1>5. PICK s : s = HostText(l.host) \o BehindHost(l)
  OBVIOUS
<1>6. s \in Text /\ Free(s, "@")
  BY <1>2, <1>5, HostForm, BehindForm, TextPair, FreePair
<1>7. t = UserText(l) \o s
  BY <1>4, <1>5 DEF LocationText, BehindHost
<1>8. Location = SubSeq(t, FindLast(t, "@") + 1, Len(t)) /\ UserInfo = SubSeq(t, 1, FindLast(t, "@") - 1)
  BY <1>3 DEF Location, UserInfo
<1>9. CASE l.user = None
  <2>1. t = s /\ l.password = None
    BY <1>2, <1>6, <1>7, <1>9, UserForm, WithEmpty
  <2>2. FindLast(t, "@") = 0
    BY <1>6, <2>1, FindLastProperties DEF Free
  <2>3. UserInfo = << >>
    BY <1>8, <2>2, SubSeqEmpty
  <2>4. ~Has(UserInfo, ":")
    BY <2>3, EmptyText, FreeEmpty, NoCut
  <2>5. User = None /\ Password = None
    BY <2>4 DEF User, Password
  <2>6. Location = s
    <3>1. Location = SubSeq(s, 0 + 1, Len(s))
      BY <1>8, <2>1, <2>2
    <3>2. PICK e : e = << >>
      OBVIOUS
    <3>3. e \in Text /\ Len(e) = 0 /\ s = e \o s
      BY <1>6, <3>2, EmptyText, WithEmpty
    <3>4. SubSeq(s, Len(e) + 1, Len(s)) = s
      BY ONLY <1>6, <3>3, Halves
    <3> QED
      BY <3>1, <3>3, <3>4
  <2> QED
    BY <1>1, <1>5, <1>9, <2>1, <2>5, <2>6
<1>10. CASE l.user # None
  <2>1. PICK u, w \in Text : /\ l.user = Some(u) /\ l.password = Some(w)
                             /\ Free(u, ":")
                             /\ UserText(l) = u \o (<< ":" >> \o (w \o << "@" >>))
    BY <1>2, <1>10, UserForm
  <2>2. << ":" >> \in Text /\ << "@" >> \in Text /\ ":" \in Token /\ "@" \in Token
    BY MarkToken, TokenText
  <2>3. PICK c : c = << ":" >> \o w
    OBVIOUS
  <2>4. PICK i : i = u \o c
    OBVIOUS
  <2>5. c \in Text /\ i \in Text
    BY <2>1, <2>2, <2>3, <2>4, TextPair
  <2>6. UserText(l) = i \o << "@" >>
    <3>1. << ":" >> \o (w \o << "@" >>) = c \o << "@" >>
      BY <2>2, <2>3, Regroup
    <3>2. u \o (c \o << "@" >>) = i \o << "@" >>
      BY <2>2, <2>4, <2>5, Regroup
    <3> QED
      BY <2>1, <3>1, <3>2
  <2>7. t = i \o (<< "@" >> \o s)
    BY <1>6, <1>7, <2>2, <2>5, <2>6, Regroup
  <2>8. CutsLast(t, "@", i, s)
    BY ONLY <1>6, <2>2, <2>5, <2>7, CutAtLast
  <2>9. UserInfo = i /\ Location = s
    BY <1>8, <2>8 DEF CutsLast
  <2>10. i = u \o (<< ":" >> \o w)
    BY <2>3, <2>4
  <2>11. Cuts(i, ":", u, w)
    BY ONLY u \in Text, w \in Text, <2>1, <2>2, <2>10, CutAtFirst
  <2>12. Has(UserInfo, ":") /\ Before(UserInfo, ":") = u /\ After(UserInfo, ":") = w
    BY <2>9, <2>11 DEF Cuts
  <2>13. User = Some(u) /\ Password = Some(w)
    BY <2>12 DEF User, Password
  <2> QED
    BY <1>1, <1>5, <2>1, <2>9, <2>13
<1> QED
  BY <1>9, <1>10

LEMMA HeadAndTail ==
  ASSUME NEW s \in Text, s # << >>
  PROVE  /\ s[1] \in Token /\ Tail(s) \in Text /\ Len(Tail(s)) = Len(s) - 1 /\ Len(s) \in Nat \ {0}
         /\ s = << s[1] >> \o Tail(s)
<1>1. /\ Len(s) \in Nat \ {0} /\ Tail(s) \in Text /\ Len(Tail(s)) = Len(s) - 1
      /\ \A i \in 1..(Len(s) - 1) : Tail(s)[i] = s[i + 1]
  BY TextTail
<1>2. s[1] \in Token
  <2>1. 1 \in 1..Len(s)
    BY <1>1
  <2> QED
    BY <2>1 DEF Text
<1>3. PICK a : a = << s[1] >>
  OBVIOUS
<1>4. a \in Text /\ Len(a) = 1 /\ a[1] = s[1]
  BY <1>2, <1>3, TokenText
<1>5. PICK b : b = Tail(s)
  OBVIOUS
<1>6. /\ a \o b \in Text /\ Len(a \o b) = 1 + Len(b)
      /\ \A i \in 1..(1 + Len(b)) : (a \o b)[i] = IF i <= 1 THEN a[i] ELSE b[i - 1]
  <2>1. b \in Text
    BY <1>1, <1>5
  <2>2. /\ a \o b \in Text /\ Len(a \o b) = Len(a) + Len(b)
        /\ \A i \in 1..(Len(a) + Len(b)) : (a \o b)[i] = IF i <= Len(a) THEN a[i] ELSE b[i - Len(a)]
    BY <1>4, <2>1, TextPair
  <2> QED
    BY <1>4, <2>2
<1>7. PICK n : n = Len(s)
  OBVIOUS
<1>8. n \in Nat \ {0} /\ Len(b) = n - 1
  BY <1>1, <1>5, <1>7
<1>9. ASSUME NEW i \in 1..n PROVE (a \o b)[i] = s[i]
  <2>1. CASE i = 1
    BY <1>4, <1>6, <1>8, <2>1
  <2>2. CASE i # 1
    <3>1. i \in 1..(1 + Len(b)) /\ ~(i <= 1) /\ i - 1 \in 1..(n - 1) /\ (i - 1) + 1 = i
      BY <1>8, <2>2
    <3>2. (a \o b)[i] = b[i - 1]
      BY <1>6, <3>1
    <3>3. b[i - 1] = s[i]
      BY <1>1, <1>5, <1>7, <3>1
    <3> QED
      BY <3>2, <3>3
  <2> QED
    BY <2>1, <2>2
<1>10. Len(s) = Len(a \o b)
  BY <1>6, <1>7, <1>8
<1>11. s = a \o b
  BY <1>6, <1>7, <1>9, <1>10, SameText
<1> QED
  BY <1>1, <1>2, <1>3, <1>5, <1>11

(* A name is over at the colon or at the slash, a path at the end. *)
LEMMA PlainHost ==
  ASSUME NEW h \in Text, NEW q \in Text, h # << >>, Location = h \o q, ~Bracketed,
         HostEnd = Len(h) + 1
  PROVE  Host = h /\ (AfterHost = Some(q) \/ (AfterHost = None /\ q = << >>))
<1>1. PICK s : s = Location
  OBVIOUS
<1>2. s = h \o q
  BY <1>1
<1>3. s \in Text /\ Len(s) = Len(h) + Len(q)
  BY ONLY <1>2, TextPair, h \in Text, q \in Text
<1>4. SubSeq(s, 1, Len(h)) = h
  BY ONLY <1>2, Halves, h \in Text, q \in Text
<1>5. SubSeq(s, Len(h) + 1, Len(s)) = q
  BY ONLY <1>2, Halves, h \in Text, q \in Text
<1>6. Len(h) \in Nat /\ Len(q) \in Nat
  BY DEF Text
<1>7. PICK e : e = HostEnd
  OBVIOUS
<1>8. e = Len(h) + 1 /\ e - 1 = Len(h)
  BY <1>6, <1>7
<1>9. Host = SubSeq(s, 1, e - 1) /\ AfterHost = IF e > Len(s) THEN None ELSE Some(SubSeq(s, e, Len(s)))
  BY <1>1, <1>7 DEF Host, AfterHost
<1>10. e > Len(s) => q = << >>
  <2>1. e > Len(s) => Len(q) = 0
    BY <1>3, <1>6, <1>8
  <2>2. Len(q) = 0 => q = << >>
    BY EmptySeq DEF Text
  <2> QED
    BY <2>1, <2>2
<1> QED
  BY <1>4, <1>5, <1>8, <1>9, <1>10

LEMMA NameRead ==
  ASSUME NEW l, IsLocation(l), l.host \in Name \ {<<>>}, Location = l.host \o BehindHost(l)
  PROVE  ~Bracketed /\ HostEnd = Len(l.host) + 1
<1>1. PICK h : h = l.host
  OBVIOUS
<1>2. PICK q : q = BehindHost(l)
  OBVIOUS
<1>3. PICK s : s = Location
  OBVIOUS
<1>4. /\ h \in Text /\ q \in Text /\ h # << >> /\ s = h \o q
      /\ Free(h, ":") /\ Free(h, "/")
  BY <1>1, <1>2, <1>3, NameText, BehindForm, MarkToken
<1>5. PICK x : x = h[1]
  OBVIOUS
<1>6. PICK t : t = Tail(h)
  OBVIOUS
<1>7. /\ x \in Token /\ t \in Text /\ Len(t) = Len(h) - 1 /\ Len(h) \in Nat \ {0}
      /\ h = << x >> \o t
  BY <1>4, <1>5, <1>6, HeadAndTail
<1>8. x \in Word /\ x # "[" /\ x # "/"
  <2>1. 1 \in 1..Len(h)
    BY <1>7
  <2>2. x \in Word
    BY <1>1, <1>5, <2>1 DEF Name
  <2> QED
    BY <2>2, MarkToken
<1>9. Free(t, ":")
  <2>1. \A i \in 1..(Len(h) - 1) : t[i] = h[i + 1] /\ i + 1 \in 1..Len(h)
    BY <1>4, <1>6, <1>7, TextTail
  <2> QED
    BY <1>4, <1>7, <2>1 DEF Free
<1>10. s = << x >> \o (t \o q) /\ t \o q \in Text
  <2>1. << x >> \in Text
    BY <1>7, TokenText
  <2>2. (<< x >> \o t) \o q = << x >> \o (t \o q)
    BY <1>4, <1>7, <2>1, Regroup
  <2> QED
    BY <1>4, <1>7, <2>2, TextPair
<1>11. Tail(s) = t \o q /\ s[1] = x
  BY <1>7, <1>10, TailOf
<1>12. ~Bracketed
  BY <1>3, <1>8, <1>11 DEF Bracketed
<1>13. PICK c : c = Find(Tail(s), ":")
  OBVIOUS
<1>14. HostEnd = IF c # 0 THEN c + 1
                 ELSE IF s[1] = "/" \/ ~Has(s, "/") THEN Len(s) + 1 ELSE Find(s, "/")
  BY <1>3, <1>12, <1>13 DEF HostEnd
<1>15. CASE l.port # None
  <2>1. PICK p : l.port = Some(p)
    BY <1>15, OptionCases DEF IsLocation
  <2>2. PortText(l) = << ":" >> \o << p >> /\ p \in Token
    BY <2>1, PortForm, MarkToken
  <2>3. PICK d : d = << p >> \o PathText(l)
    OBVIOUS
  <2>4. d \in Text /\ q = << ":" >> \o d
    <3>1. << ":" >> \in Text /\ << p >> \in Text /\ PathText(l) \in Text
      BY <2>2, MarkToken, TokenText, PathForm
    <3>2. q = (<< ":" >> \o << p >>) \o PathText(l)
      BY <1>2, <2>2 DEF BehindHost
    <3>3. (<< ":" >> \o << p >>) \o PathText(l) = << ":" >> \o (<< p >> \o PathText(l))
      BY <3>1, Regroup
    <3>4. d \in Text
      BY <2>3, <3>1, TextPair
    <3> QED
      BY <2>3, <3>2, <3>3, <3>4
  <2>5. PICK ts : ts = Tail(s)
    OBVIOUS
  <2>6. ts = t \o (<< ":" >> \o d) /\ ":" \in Token
    BY <1>11, <2>4, <2>5, MarkToken
  <2>7. Cuts(ts, ":", t, d)
    BY ONLY <1>7, <1>9, <2>4, <2>6, CutAtFirst
  <2>8. c = Len(h)
    BY <1>7, <1>13, <2>5, <2>7 DEF Cuts
  <2> QED
    BY <1>1, <1>7, <1>12, <1>14, <2>8
<1>16. CASE l.port = None
  <2>1. PortText(l) = << >> /\ PathText(l) \in Text /\ Free(PathText(l), ":")
    BY <1>16, PortForm, PathForm
  <2>2. q = PathText(l)
    BY <1>2, <2>1, WithEmpty DEF BehindHost
  <2>3. Free(t \o q, ":")
    BY <1>4, <1>7, <1>9, <2>1, <2>2, FreePair
  <2>4. c = 0
    BY <1>10, <1>11, <1>13, <2>3, NoCut
  <2>5. CASE l.path = None
    <3>1. s = h
      BY <1>4, <2>2, <2>5, PathForm, WithEmpty
    <3>2. ~Has(s, "/")
      BY <1>4, <3>1, NoCut
    <3> QED
      BY <1>1, <1>12, <1>14, <2>4, <3>1, <3>2
  <2>6. CASE l.path # None
    <3>1. PICK p : l.path = Some(p)
      BY <2>6, OptionCases DEF IsLocation
    <3>2. p \in Text /\ q = << "/" >> \o p /\ "/" \in Token
      BY <2>2, <3>1, PathForm, MarkToken
    <3>3. s = h \o (<< "/" >> \o p)
      BY <1>4, <3>2
    <3>4. Cuts(s, "/", h, p)
      BY ONLY <1>4, <3>2, <3>3, CutAtFirst
    <3> QED
      BY <1>1, <1>8, <1>11, <1>12, <1>14, <2>4, <3>4 DEF Cuts
  <2> QED
    BY <2>5, <2>6
<1> QED
  BY <1>15, <1>16

LEMMA SocketRead ==
  ASSUME NEW l, IsLocation(l), l.host \in Seq(Word \union {"/"}) \ {<<>>}, l.host[1] = "/",
         l.port = None, l.path = None, Location = l.host \o BehindHost(l)
  PROVE  ~Bracketed /\ HostEnd = Len(l.host) + 1
<1>1. PICK h : h = l.host
  OBVIOUS
<1>2. PICK s : s = Location
  OBVIOUS
<1>3. h \in Text /\ h # << >> /\ Free(h, ":")
  <2>1. Word \union {"/"} \in SUBSET Token
    BY MarkToken
  <2>2. ":" \notin Word \union {"/"}
    BY MarkToken
  <2> QED
    BY <1>1, <2>1, <2>2, FreeOf
<1>4. s = h
  <2>1. BehindHost(l) = << >>
    BY PortForm, PathForm, EmptyText, WithEmpty DEF BehindHost
  <2> QED
    BY <1>1, <1>2, <1>3, <2>1, WithEmpty
<1>5. /\ Len(h) \in Nat \ {0} /\ Tail(h) \in Text /\ Len(Tail(h)) = Len(h) - 1
      /\ \A i \in 1..(Len(h) - 1) : Tail(h)[i] = h[i + 1]
  BY <1>3, TextTail
<1>6. Free(Tail(h), ":")
  <2>1. \A i \in 1..(Len(h) - 1) : i + 1 \in 1..Len(h)
    BY <1>5
  <2> QED
    BY <1>3, <1>5, <2>1 DEF Free
<1>7. Find(Tail(s), ":") = 0
  BY <1>4, <1>5, <1>6, NoCut
<1>8. ~Bracketed /\ s[1] = "/"
  BY <1>1, <1>2, <1>4 DEF Bracketed
<1> QED
  BY <1>1, <1>2, <1>4, <1>7, <1>8 DEF HostEnd

LEMMA AddressRead ==
  ASSUME NEW l, IsLocation(l), l.host \in Seq(Word \union {":"}), Has(l.host, ":"),
         Location = HostText(l.host) \o BehindHost(l)
  PROVE  Host = l.host /\ AfterHost = Some(BehindHost(l)) /\ Has(Location, "]")
<1>1. PICK h : h = l.host
  OBVIOUS
<1>2. PICK q : q = BehindHost(l)
  OBVIOUS
<1>3. PICK s : s = Location
  OBVIOUS
<1>4. h \in Text /\ q \in Text /\ Free(h, "]")
  <2>1. Word \union {":"} \in SUBSET Token
    BY MarkToken
  <2>2. "]" \notin Word \union {":"}
    BY MarkToken
  <2> QED
    BY <1>1, <1>2, <2>1, <2>2, FreeOf, BehindForm
<1>5. "[" \in Token /\ "]" \in Token /\ << "[" >> \in Text /\ << "]" >> \in Text
  BY MarkToken, TokenText
<1>6. PICK a : a = << "[" >>
  OBVIOUS
<1>7. a \in Text /\ Len(a) = 1 /\ Free(a, "]")
  BY <1>5, <1>6, TokenText, FreeToken
<1>8. PICK c : c = << "]" >> \o q
  OBVIOUS
<1>9. c \in Text
  BY <1>4, <1>5, <1>8, TextPair
<1>10. s = a \o (h \o c)
  <2>1. HostText(h) = a \o (h \o << "]" >>)
    BY <1>1, <1>6 DEF HostText
  <2>2. h \o << "]" >> \in Text
    BY <1>4, <1>5, TextPair
  <2>3. (a \o (h \o << "]" >>)) \o q = a \o ((h \o << "]" >>) \o q)
    BY <1>4, <1>7, <2>2, Regroup
  <2>4. (h \o << "]" >>) \o q = h \o c
    BY <1>4, <1>5, <1>8, Regroup
  <2> QED
    BY <1>1, <1>2, <1>3, <2>1, <2>3, <2>4
<1>11. h \o c \in Text
  BY <1>4, <1>9, TextPair
<1>12. s[1] = "["
  BY <1>5, <1>6, <1>10, <1>11, TailOf
<1>13. Bracketed
  BY <1>3, <1>12 DEF Bracketed
<1>14. PICK b : b = a \o h
  OBVIOUS
<1>15. b \in Text /\ Free(b, "]") /\ Len(b) = Len(a) + Len(h)
  BY <1>4, <1>7, <1>14, TextPair, FreePair
<1>16. s = b \o (<< "]" >> \o q)
  BY <1>4, <1>7, <1>8, <1>9, <1>10, <1>14, Regroup
<1>17. Cuts(s, "]", b, q)
  BY ONLY <1>4, <1>5, <1>15, <1>16, CutAtFirst
<1>18. PICK e : e = HostEnd
  OBVIOUS
<1>19. Len(h) \in Nat /\ Len(q) \in Nat
  BY <1>4 DEF Text
<1>20. e = Find(s, "]") /\ e = Len(h) + 2
  BY <1>3, <1>7, <1>13, <1>15, <1>17, <1>18, <1>19 DEF HostEnd, Cuts
<1>21. SubSeq(s, e + 1, Len(s)) = q
  BY <1>17, <1>20 DEF Cuts, After
<1>22. SubSeq(s, 2, e - 1) = h
  <2>1. SubSeq(s, Len(a) + 1, Len(a) + Len(h)) = h
    BY ONLY <1>4, <1>7, <1>9, <1>10, Middle
  <2>2. Len(a) + 1 = 2 /\ Len(a) + Len(h) = e - 1
    BY <1>7, <1>19, <1>20
  <2> QED
    BY <2>1, <2>2
<1>23. ~(e > Len(s))
  <2>1. IsJoin(s, b, "]", q)
    BY <1>4, <1>5, <1>15, <1>16, Joining
  <2> QED
    BY <1>7, <1>15, <1>19, <1>20, <2>1 DEF IsJoin
<1>24. Has(s, "]")
  BY <1>17 DEF Cuts
<1> QED
  BY <1>1, <1>2, <1>3, <1>13, <1>18, <1>21, <1>22, <1>23, <1>24 DEF Host, AfterHost

LEMMA HostRead ==
  ASSUME NEW f \in Forms, uri = Render(f)
  PROVE  /\ Host = f.loc.host
         /\ \/ AfterHost = Some(BehindHost(f.loc))
            \/ AfterHost = None /\ BehindHost(f.loc) = << >>
         /\ Bracketed => Has(Location, "]")
<1>1. PICK l : l = f.loc
  OBVIOUS
<1>2. IsLocation(l) /\ Location = HostText(l.host) \o BehindHost(l)
  BY <1>1, FormsAssumption, UserRead DEF IsForm
<1>3. BehindHost(l) \in Text /\ l.host \in Text
  BY <1>2, BehindForm, HostForm
<1>4. CASE l.host \in Name \ {<<>>}
  <2>1. HostText(l.host) = l.host
    <3>1. Free(l.host, ":")
      BY <1>4, NameText, MarkToken
    <3> QED
      BY <1>3, <3>1, NoCut DEF HostText
  <2>2. ~Bracketed /\ HostEnd = Len(l.host) + 1
    BY <1>2, <1>4, <2>1, NameRead
  <2> QED
    BY <1>1, <1>2, <1>3, <1>4, <2>1, <2>2, PlainHost
<1>5. CASE l.host \in Seq(Word \union {":"}) /\ Has(l.host, ":")
  BY <1>1, <1>2, <1>5, AddressRead
<1>6. CASE /\ l.host \in Seq(Word \union {"/"}) \ {<<>>} /\ l.host[1] = "/"
           /\ l.port = None /\ l.path = None
  <2>1. HostText(l.host) = l.host
    <3>1. Word \union {"/"} \in SUBSET Token
      BY MarkToken
    <3>2. ":" \notin Word \union {"/"}
      BY MarkToken
    <3>3. Free(l.host, ":")
      BY <1>6, <3>1, <3>2, FreeOf
    <3> QED
      BY <1>3, <3>3, NoCut DEF HostText
  <2>2. ~Bracketed /\ HostEnd = Len(l.host) + 1
    BY <1>2, <1>6, <2>1, SocketRead
  <2> QED
    BY <1>1, <1>2, <1>3, <1>6, <2>1, <2>2, PlainHost
<1> QED
  BY <1>2, <1>4, <1>5, <1>6 DEF IsLocation

LEMMA PortRead ==
  ASSUME NEW f \in Forms, uri = Render(f)
  PROVE  /\ f.loc.port = None => ~HasPort
         /\ \A p : f.loc.port = Some(p) => HasPort /\ PortNo = PortOf[p]
         /\ \A x : f.loc.path = Some(x) => PathName = {x}
<1>1. PICK l : l = f.loc
  OBVIOUS
<1>2. IsLocation(l)
  BY <1>1, FormsAssumption DEF IsForm
<1>3. PICK q : q = BehindHost(l)
  OBVIOUS
<1>4. PICK d : d = PathText(l)
  OBVIOUS
<1>5. q \in Text /\ d \in Text /\ Free(d, ":") /\ q = PortText(l) \o d
  BY <1>2, <1>3, <1>4, BehindForm, PathForm DEF BehindHost
<1>6. AfterHost = Some(q) \/ (AfterHost = None /\ q = << >>)
  BY <1>1, <1>3, HostRead
<1>7. ":" \in Token /\ "/" \in Token /\ << ":" >> \in Text /\ << "/" >> \in Text
  BY MarkToken, TokenText
<1>8. \A x : l.path = Some(x) => x \in Text /\ d = << "/" >> \o x
  BY <1>2, <1>4, PathForm
<1>9. \A x : l.path = Some(x) => d # << >> /\ Tail(d) = x
  BY <1>7, <1>8, TailOf
<1>10. CASE l.port = None
  <2>1. q = d
    BY <1>2, <1>5, <1>10, PortForm, WithEmpty
  <2>2. ~Has(q, ":")
    BY <1>5, <2>1, NoCut
  <2>3. ~HasPort
    BY <1>6, <2>2 DEF HasPort, Some, None
  <2>4. Path = AfterHost
    BY <2>3 DEF Path
  <2>5. ASSUME NEW x, l.path = Some(x) PROVE PathName = {x}
    <3>1. Path = Some(q) /\ q # << >> /\ Tail(q) = x
      BY <1>6, <1>9, <2>1, <2>4, <2>5
    <3>2. PathName = UNION {IF p = <<>> THEN {CStr(t) : t \in Tails} ELSE Some(Tail(p)) : p \in {q}}
      BY <3>1 DEF PathName, Some
    <3>3. PathName = Some(Tail(q))
      BY <3>1, <3>2
    <3> QED
      BY <3>1, <3>3 DEF Some
  <2>6. \A p : l.port # Some(p)
    BY <1>10, OrSome
  <2> QED
    BY <1>1, <1>10, <2>3, <2>5, <2>6
<1>11. CASE l.port # None
  <2>1. PICK p : l.port = Some(p)
    BY <1>2, <1>11, OptionCases DEF IsLocation
  <2>2. p \in Word /\ p \in DOMAIN PortOf /\ PortText(l) = << ":" >> \o << p >> /\ p \in Token /\ p # "/"
    BY <1>2, <2>1, PortForm, MarkToken
  <2>3. PICK c : c = << p >>
    OBVIOUS
  <2>4. c \in Text /\ Len(c) = 1 /\ c[1] = p /\ Free(c, "/")
    BY <2>2, <2>3, TokenText, FreeToken
  <2>5. PICK b : b = c \o d
    OBVIOUS
  <2>6. b \in Text
    BY <1>5, <2>4, <2>5, TextPair
  <2>7. q = << ":" >> \o b
    BY <1>5, <1>7, <2>2, <2>3, <2>4, <2>5, Regroup
  <2>8. q # << >>
    BY <1>7, <2>6, <2>7, TailOf
  <2>9. AfterHost = Some(q)
    BY <1>6, <2>8
  <2>10. Cuts(q, ":", << >>, b)
    <3>1. PICK e : e = << >>
      OBVIOUS
    <3>2. e \in Text /\ Free(e, ":") /\ << ":" >> \o b \in Text
      BY <1>7, <2>6, <3>1, EmptyText, FreeEmpty, TextPair
    <3>3. q = e \o (<< ":" >> \o b)
      BY <2>7, <3>1, <3>2, WithEmpty
    <3>4. Cuts(q, ":", e, b)
      BY ONLY <1>7, <2>6, <3>2, <3>3, CutAtFirst
    <3> QED
      BY <3>1, <3>4
  <2>11. HasPort /\ After(Or(AfterHost, <<>>), ":") = b
    <3>1. Has(q, ":") /\ After(q, ":") = b
      BY <2>10 DEF Cuts
    <3>2. Or(AfterHost, <<>>) = q /\ q \in AfterHost
      BY <2>9, OrSome DEF Some
    <3>3. HasPort
      BY <3>1, <3>2, Zenon DEF HasPort
    <3> QED
      BY <3>1, <3>2, <3>3
  <2>12. Before(b, "/") = c
    <3>1. CASE l.path = None
      <4>1. b = c
        BY <1>2, <1>4, <2>4, <2>5, <3>1, PathForm, WithEmpty
      <4> QED
        BY <2>4, <4>1, NoCut
    <3>2. CASE l.path # None
      <4>1. PICK x : l.path = Some(x)
        BY <1>2, <3>2, OptionCases DEF IsLocation
      <4>2. x \in Text /\ b = c \o (<< "/" >> \o x)
        BY <1>8, <2>5, <4>1
      <4>3. Cuts(b, "/", c, x)
        BY ONLY <1>7, <2>4, <4>2, CutAtFirst
      <4> QED
        BY <4>3 DEF Cuts
    <3> QED
      BY <3>1, <3>2
  <2>13. PortSpec = c
    BY <2>11, <2>12 DEF PortSpec
  <2>14. PortNo = PortOf[p]
    BY <2>2, <2>4, <2>13 DEF PortNo
  <2>15. ASSUME NEW x, l.path = Some(x) PROVE PathName = {x}
    <3>1. x \in Text /\ b = c \o (<< "/" >> \o x)
      BY <1>8, <2>5, <2>15
    <3>2. Cuts(b, "/", c, x)
      BY ONLY <1>7, <2>4, <3>1, CutAtFirst
    <3>3. SubSeq(b, Len(c) + 1, Len(b)) = d
      <4>1. c \in Text /\ d \in Text /\ b = c \o d
        BY <1>5, <2>4, <2>5
      <4> QED
        BY ONLY <4>1, Halves
    <3>4. Path = Some(d)
      BY <2>11, <3>2, <3>3 DEF Path, Cuts
    <3>5. d # << >> /\ Tail(d) = x
      BY <1>9, <2>15
    <3>6. PathName = UNION {IF y = <<>> THEN {CStr(t) : t \in Tails} ELSE Some(Tail(y)) : y \in {d}}
      BY <3>4 DEF PathName, Some
    <3>7. PathName = Some(Tail(d))
      BY <3>5, <3>6
    <3> QED
      BY <3>5, <3>7 DEF Some
  <2>16. \A y : l.port = Some(y) => y = p
    BY <2>1 DEF Some
  <2> QED
    BY <1>1, <1>11, <2>11, <2>14, <2>15, <2>16
<1> QED
  BY <1>10, <1>11

-----------------------------------------------------------------------------
(* While the parameters of a form are read, those before i are taken: ...    *)
Reading(f, i) ==
  /\ i \in 1..5 /\ Item(f, KeyNo[i]) # None
  /\ rest = Tail(From(f, i))
  /\ \A j \in 1..5 : Value(KeyNo[j]) = IF j < i THEN Item(f, KeyNo[j]) ELSE None

(* ... and all of them when it goes on to connect; the last of several is    *)
(* followed by what the memory behind it holds.                              *)
TakenItem(f, j) ==
  IF LastOfSeveral(f, j)
  THEN \E v, t \in Text : Item(f, KeyNo[j]) = Some(v) /\ Value(KeyNo[j]) = Some(v \o (<< NUL >> \o t))
  ELSE Value(KeyNo[j]) = Item(f, KeyNo[j])

Taken(f) == \A j \in 1..5 : TakenItem(f, j)

(* What is known of the parameters, at every place of the code. *)
ParamsOf(f) ==
  /\ pc = "query" => \E i \in 1..5 : Reading(f, i)
  /\ pc \in {"connect", "ctx", "conf", "map", "base", "ok"} => Taken(f)

LEMMA StoredValue ==
  ASSUME NEW key, NEW v, params' = Stored(<< key >>, v)
  PROVE  /\ Value(key)' = Some(v)
         /\ \A k : k # key => Value(k)' = Value(k)
<1>1. /\ DOMAIN params' = DOMAIN params \union {<< key >>}
      /\ params'[<< key >>] = v
      /\ \A k \in DOMAIN params : k # << key >> => params'[k] = params[k]
  BY DEF Stored
<1>2. \A k : k # key => << k >> # << key >>
  OBVIOUS
<1>3. Value(key)' = Some(v)
  BY <1>1 DEF Value
<1>4. ASSUME NEW k, k # key PROVE Value(k)' = Value(k)
  BY <1>1, <1>2, <1>4 DEF Value
<1> QED
  BY <1>3, <1>4

(* The beginning: the first parameter, or none. *)
LEMMA BeginParams ==
  ASSUME NEW f \in Forms, NEW u, u = Render(f), HasScheme(u),
         uri = u, rest = Or(Query(u), <<>>), params = <<>>, pc = FirstStep(u)
  PROVE  ParamsOf(f)
<1>1. Query(u) = IF Params(f) = << >> THEN None ELSE Some(Tail(Params(f)))
  BY UriForm
<1>2. From(f, 1) = Params(f)
  BY FromForm
<1>3. NextIs(f, 1)
  BY NextItem
<1>4. \A j \in 1..5 : Value(KeyNo[j]) = None
  <2>1. DOMAIN params = {}
    OBVIOUS
  <2> QED
    BY <2>1 DEF Value
<1>5. CASE Params(f) = << >>
  <2>1. pc = "connect"
    BY <1>1, <1>5 DEF FirstStep
  <2>2. \A j \in 1..5 : Item(f, KeyNo[j]) = None
    <3>1. CASE \A j \in 1..5 : Item(f, KeyNo[j]) = None
      BY <3>1
    <3>2. ASSUME NEW j \in 1..5, Item(f, KeyNo[j]) # None, From(f, 1) = From(f, j) PROVE FALSE
      <4>1. PICK v \in Text : Item(f, KeyNo[j]) = Some(v)
        BY <3>2, ItemForm, KeyFacts
      <4> QED
        BY <1>2, <1>5, <3>2, <4>1, FromItem
    <3> QED
      BY <1>3, <3>1, <3>2 DEF NextIs
  <2>3. Taken(f)
    BY <1>4, <2>2 DEF Taken, TakenItem, LastOfSeveral
  <2> QED
    BY <2>1, <2>3 DEF ParamsOf
<1>6. CASE Params(f) # << >>
  <2>1. pc = "query" /\ rest = Tail(Params(f))
    BY <1>1, <1>6, OrSome DEF FirstStep
  <2>2. PICK j \in 1..5 : /\ Item(f, KeyNo[j]) # None /\ From(f, 1) = From(f, j)
                          /\ \A k \in 1..(j - 1) : Item(f, KeyNo[k]) = None
    BY <1>2, <1>3, <1>6 DEF NextIs
  <2>3. \A k \in 1..5 : k < j => k \in 1..(j - 1)
    BY <2>2
  <2>4. Reading(f, j)
    BY <1>2, <1>4, <2>1, <2>2, <2>3 DEF Reading
  <2> QED
    BY <2>1, <2>4 DEF ParamsOf
<1> QED
  BY <1>5, <1>6

(* The rest is the whole query when no parameter comes before it. *)
LEMMA FromShrinks ==
  ASSUME NEW f \in Forms, NEW i \in 1..5, NEW j \in 1..5, j < i, Item(f, KeyNo[j]) # None
  PROVE  Len(From(f, i)) < Len(From(f, j)) /\ Len(From(f, i)) \in Nat /\ Len(From(f, j)) \in Nat
<1>1. PICK n : n = [k \in 1..6 |-> Len(From(f, k))]
  OBVIOUS
<1>2. \A k \in 1..6 : From(f, k) \in Text
  BY FromForm
<1>3. \A k \in 1..6 : n[k] \in Nat /\ n[k] = Len(From(f, k))
  BY <1>1, <1>2 DEF Text
<1>4. ASSUME NEW k \in 1..5
      PROVE  n[k + 1] <= n[k] /\ (Item(f, KeyNo[k]) # None => n[k + 1] < n[k])
  <2>1. PICK a : a = AndParam(f, KeyNo[k])
    OBVIOUS
  <2>2. PICK b : b = From(f, k + 1)
    OBVIOUS
  <2>3. k + 1 \in 1..6 /\ k \in 1..6
    OBVIOUS
  <2>4. a \in Text /\ b \in Text /\ From(f, k) = a \o b
    BY <1>2, <2>1, <2>2, <2>3, AndParamForm, KeyFacts, FromForm
  <2>5. Len(a) \in Nat /\ Len(b) \in Nat /\ Len(From(f, k)) = Len(a) + Len(b)
    BY <2>4, TextPair DEF Text
  <2>6. n[k + 1] = Len(b) /\ n[k] = Len(a) + Len(b)
    BY <1>3, <2>2, <2>3, <2>5
  <2>7. ASSUME Item(f, KeyNo[k]) # None PROVE Len(a) # 0
    <3>1. PICK v \in Text : Item(f, KeyNo[k]) = Some(v)
      BY <2>7, ItemForm, KeyFacts
    <3>2. PICK x : x = << KeyNo[k] >> \o (<< "=" >> \o v)
      OBVIOUS
    <3>3. << KeyNo[k] >> \in Text /\ << "=" >> \in Text /\ "&" \in Token
      BY KeyFacts, MarkToken, TokenText
    <3>4. x \in Text
      BY <3>2, <3>3, TextPair
    <3>5. a = << "&" >> \o x
      BY <2>1, <3>1, <3>2, AndParamForm, KeyFacts
    <3>6. a # << >>
      BY <3>3, <3>4, <3>5, TailOf
    <3> QED
      BY <2>4, <3>6 DEF Text
  <2> QED
    BY <2>5, <2>6, <2>7
<1>5. /\ n[2] <= n[1] /\ n[3] <= n[2] /\ n[4] <= n[3] /\ n[5] <= n[4]
      /\ n[1] \in Nat /\ n[2] \in Nat /\ n[3] \in Nat /\ n[4] \in Nat /\ n[5] \in Nat
  <2>1. /\ 1 \in 1..5 /\ 2 \in 1..5 /\ 3 \in 1..5 /\ 4 \in 1..5
        /\ 1 + 1 = 2 /\ 2 + 1 = 3 /\ 3 + 1 = 4 /\ 4 + 1 = 5
    OBVIOUS
  <2>2. n[1 + 1] <= n[1] /\ n[2 + 1] <= n[2] /\ n[3 + 1] <= n[3] /\ n[4 + 1] <= n[4]
    BY <1>4, <2>1
  <2> QED
    BY <1>3, <2>1, <2>2
<1>6. j + 1 \in 1..5 /\ j + 1 <= i /\ i \in 1..6 /\ j \in 1..6
  OBVIOUS
<1>7. n[j + 1] < n[j]
  BY <1>4
<1>8. n[i] <= n[j + 1]
  <2>1. PICK k : k = j + 1
    OBVIOUS
  <2>2. k \in 1..5 /\ k <= i
    BY <1>6, <2>1
  <2>3. k = 1 \/ k = 2 \/ k = 3 \/ k = 4 \/ k = 5
    BY <2>2
  <2>4. i = 1 \/ i = 2 \/ i = 3 \/ i = 4 \/ i = 5
    OBVIOUS
  <2>5. n[i] <= n[k]
    BY <1>5, <2>2, <2>3, <2>4
  <2> QED
    BY <2>1, <2>5
<1>9. PICK a : a = n[i]
  OBVIOUS
<1>10. PICK b : b = n[j]
  OBVIOUS
<1>11. PICK c : c = n[j + 1]
  OBVIOUS
<1>12. a \in Nat /\ b \in Nat /\ c \in Nat /\ a = Len(From(f, i)) /\ b = Len(From(f, j))
  <2>1. j + 1 \in 1..6
    BY <1>6
  <2> QED
    BY <1>3, <1>6, <1>9, <1>10, <1>11, <2>1
<1>13. c < b /\ a <= c
  BY <1>7, <1>8, <1>9, <1>10, <1>11
<1>14. a < b
  BY ONLY <1>12, <1>13
<1> QED
  BY <1>12, <1>14

LEMMA WholeQuery ==
  ASSUME NEW f \in Forms, uri = Render(f), NEW i \in 1..5, Item(f, KeyNo[i]) # None,
         rest = Tail(From(f, i))
  PROVE  Whole <=> \A k \in 1..(i - 1) : Item(f, KeyNo[k]) = None
<1>1. PICK p : p = From(f, i)
  OBVIOUS
<1>2. PICK q : q = From(f, 1)
  OBVIOUS
<1>3. \A j \in 1..5 : Item(f, KeyNo[j]) # None => From(f, j) # << >>
  <2> SUFFICES ASSUME NEW j \in 1..5, Item(f, KeyNo[j]) # None PROVE From(f, j) # << >>
    OBVIOUS
  <2>1. PICK v \in Text : Item(f, KeyNo[j]) = Some(v)
    BY ItemForm, KeyFacts
  <2> QED
    BY <2>1, FromItem
<1>4. NextIs(f, 1)
  <2>1. 1 \in 1..6
    OBVIOUS
  <2> QED
    BY <2>1, NextItem
<1>5. i \in 1..5
  OBVIOUS
<1>6. PICK j \in 1..5 : /\ Item(f, KeyNo[j]) # None /\ q = From(f, j)
                        /\ \A k \in 1..(j - 1) : Item(f, KeyNo[k]) = None
  BY <1>2, <1>4, <1>5 DEF NextIs
<1>7. p # << >> /\ q # << >> /\ p \in Text /\ q \in Text
  <2>1. \A k \in 1..5 : k \in 1..6
    OBVIOUS
  <2> QED
    BY <1>1, <1>3, <1>5, <1>6, <2>1, FromForm
<1>8. Query(uri) = Some(Tail(q))
  BY <1>2, <1>7, UriForm, FromForm
<1>9. Whole <=> Tail(p) = Tail(q)
  BY <1>1, <1>8 DEF Whole, Some
<1>10. ~(i < j)
  <2>1. i < j => i \in 1..(j - 1)
    BY <1>5, <1>6
  <2> QED
    BY <1>6, <2>1
<1>11. CASE j = i
  BY <1>1, <1>6, <1>9, <1>11
<1>12. CASE j < i
  <2>1. Len(p) < Len(q) /\ Len(p) \in Nat /\ Len(q) \in Nat
    BY <1>1, <1>5, <1>6, <1>12, FromShrinks
  <2>2. Len(Tail(p)) = Len(p) - 1 /\ Len(Tail(q)) = Len(q) - 1
    BY <1>7, TextTail
  <2>3. Tail(p) # Tail(q)
    <3>1. PICK m : m = Len(p)
      OBVIOUS
    <3>2. PICK n : n = Len(q)
      OBVIOUS
    <3>3. m \in Nat /\ n \in Nat /\ m < n /\ Len(Tail(p)) = m - 1 /\ Len(Tail(q)) = n - 1
      BY <2>1, <2>2, <3>1, <3>2
    <3>4. m - 1 # n - 1
      BY ONLY <3>3
    <3> QED
      BY ONLY <3>3, <3>4, Zenon
  <2>4. j \in 1..(i - 1)
    BY <1>5, <1>6, <1>12
  <2> QED
    BY <1>6, <1>9, <2>3, <2>4
<1> QED
  BY <1>5, <1>6, <1>10, <1>11, <1>12

LEMMA ReadingStep ==
  ASSUME NEW f \in Forms, uri = Render(f), NEW i, Reading(f, i), pc = "query",
         TakeParam \/ BadParam \/ LastParam \/ BadLastParam \/ StrayParam
  PROVE  ParamsOf(f)'
<1>1. i \in 1..5 /\ KeyNo[i] \in Key /\ Item(f, KeyNo[i]) # None /\ rest = Tail(From(f, i))
  BY KeyFacts DEF Reading
<1>2. PICK v \in Text : Item(f, KeyNo[i]) = Some(v) /\ Free(v, NUL)
  BY <1>1, ItemForm
<1>3. PICK kv \in Text :
           /\ Before(kv, "=") = << KeyNo[i] >> /\ After(kv, "=") = v /\ Has(kv, "=")
           /\ IF From(f, i + 1) = << >>
              THEN Tail(From(f, i)) = kv /\ ~Has(kv, "&")
              ELSE /\ Has(Tail(From(f, i)), "&")
                   /\ Before(Tail(From(f, i)), "&") = kv
                   /\ After(Tail(From(f, i)), "&") = Tail(From(f, i + 1))
  BY <1>1, <1>2, RestForm
<1>4. \A j \in 1..5 : Value(KeyNo[j]) = IF j < i THEN Item(f, KeyNo[j]) ELSE None
  BY DEF Reading
<1>5. NextIs(f, i + 1)
  <2>1. i + 1 \in 1..6
    BY <1>1
  <2> QED
    BY <2>1, NextItem
<1>6. \A j \in 1..5 : j # i => KeyNo[j] # KeyNo[i]
  BY <1>1, KeyFacts
<1>7. CASE From(f, i + 1) # << >>
  <2>1. Has(rest, "&") /\ Before(rest, "&") = kv /\ After(rest, "&") = Tail(From(f, i + 1))
    BY <1>1, <1>3, <1>7
  <2>2. /\ params' = Stored(<< KeyNo[i] >>, v) /\ rest' = Tail(From(f, i + 1)) /\ pc' = "query"
    BY <1>3, <2>1 DEF TakeParam, BadParam, LastParam, BadLastParam, StrayParam
  <2>3. PICK j \in (i + 1)..5 : /\ Item(f, KeyNo[j]) # None /\ From(f, i + 1) = From(f, j)
                                /\ \A k \in (i + 1)..(j - 1) : Item(f, KeyNo[k]) = None
    BY <1>5, <1>7 DEF NextIs
  <2>4. Value(KeyNo[i])' = Some(v) /\ \A k : k # KeyNo[i] => Value(k)' = Value(k)
    BY <2>2, StoredValue
  <2>5. j \in 1..5 /\ i < j
    BY <1>1, <2>3
  <2>6. ASSUME NEW k \in 1..5
        PROVE  Value(KeyNo[k])' = IF k < j THEN Item(f, KeyNo[k]) ELSE None
    <3>1. CASE k < i
      BY <1>1, <1>4, <1>6, <2>4, <2>5, <3>1
    <3>2. CASE k = i
      BY <1>2, <2>4, <2>5, <3>2
    <3>3. CASE i < k
      <4>1. Value(KeyNo[k])' = None
        BY <1>1, <1>4, <1>6, <2>4, <3>3
      <4>2. k < j => k \in (i + 1)..(j - 1)
        BY <1>1, <2>5, <3>3
      <4> QED
        BY <2>3, <4>1, <4>2
    <3> QED
      BY <1>1, <3>1, <3>2, <3>3
  <2>7. Reading(f, j)'
    BY <2>2, <2>3, <2>5, <2>6 DEF Reading
  <2> QED
    BY <2>2, <2>5, <2>7 DEF ParamsOf
<1>8. CASE From(f, i + 1) = << >>
  <2>1. rest = kv /\ ~Has(rest, "&") /\ Has(rest, "=") /\ Before(rest, "=") = << KeyNo[i] >> /\ After(rest, "=") = v
    BY <1>1, <1>3, <1>8
  <2>2. LastParam
    BY <2>1 DEF TakeParam, BadParam, LastParam, BadLastParam, StrayParam
  <2>3. PICK t \in Tails : params' = Stored(<< KeyNo[i] >>, IF Whole THEN v ELSE v \o <<NUL>> \o t)
    BY <2>1, <2>2 DEF LastParam
  <2>4. PICK x : x = IF Whole THEN v ELSE v \o <<NUL>> \o t
    OBVIOUS
  <2>5. Value(KeyNo[i])' = Some(x) /\ \A k : k # KeyNo[i] => Value(k)' = Value(k)
    <3>1. params' = Stored(<< KeyNo[i] >>, x)
      BY <2>3, <2>4
    <3> QED
      BY <3>1, StoredValue
  <2>6. \A k \in (i + 1)..5 : Item(f, KeyNo[k]) = None
    <3>1. ASSUME NEW j \in (i + 1)..5, Item(f, KeyNo[j]) # None, From(f, j) = << >> PROVE FALSE
      <4>1. j \in 1..5
        BY <1>1
      <4>2. PICK y \in Text : Item(f, KeyNo[j]) = Some(y)
        BY <3>1, <4>1, ItemForm, KeyFacts
      <4> QED
        BY <3>1, <4>1, <4>2, FromItem
    <3> QED
      BY <1>5, <1>8, <3>1 DEF NextIs
  <2>7. t \in Text /\ x = IF Whole THEN v ELSE v \o (<< NUL >> \o t)
    <3>1. t \in Text /\ << NUL >> \in Text
      BY UriParamsAssumption, MarkToken, TokenText
    <3>2. v \o <<NUL>> \o t = v \o (<< NUL >> \o t)
      BY <3>1, Regroup
    <3> QED
      BY <2>4, <3>1, <3>2
  <2>8. TakenItem(f, i)'
    <3>1. Whole <=> \A k \in 1..(i - 1) : Item(f, KeyNo[k]) = None
      BY <1>1, WholeQuery
    <3>2. Whole <=> ~LastOfSeveral(f, i)
      BY <1>1, <2>6, <3>1 DEF LastOfSeveral
    <3> QED
      BY <1>2, <2>5, <2>7, <3>2 DEF TakenItem, LastOfSeveral
  <2>9. ASSUME NEW k \in 1..5, k # i PROVE Value(KeyNo[k])' = Item(f, KeyNo[k])
    <3>1. Value(KeyNo[k])' = IF k < i THEN Item(f, KeyNo[k]) ELSE None
      BY <1>4, <1>6, <2>5, <2>9
    <3>2. ~(k < i) => k \in (i + 1)..5
      BY <1>1, <2>9
    <3> QED
      BY <2>6, <3>1, <3>2
  <2>10. ASSUME NEW k \in 1..5, k # i PROVE TakenItem(f, k)'
    <3>1. k < i => i \in (k + 1)..5
      BY <1>1
    <3>2. ~(k < i) => k \in (i + 1)..5
      BY <1>1, <2>10
    <3>3. ~LastOfSeveral(f, k)
      BY <1>1, <2>6, <3>1, <3>2 DEF LastOfSeveral
    <3> QED
      BY <2>9, <2>10, <3>3 DEF TakenItem, LastOfSeveral
  <2>11. Taken(f)'
    BY <2>8, <2>10 DEF Taken
  <2> QED
    BY <2>2, <2>11 DEF ParamsOf, LastParam
<1> QED
  BY <1>7, <1>8

(* What the code gets as a string is what the form says. *)
LEMMA StringTaken ==
  ASSUME NEW f \in Forms, NEW j \in 1..5, TakenItem(f, j)
  PROVE  String(KeyNo[j]) = Item(f, KeyNo[j])
<1>1. KeyNo[j] \in Key
  BY KeyFacts
<1>2. CASE Item(f, KeyNo[j]) = None
  <2>1. Value(KeyNo[j]) = None
    BY <1>2 DEF TakenItem, LastOfSeveral
  <2> QED
    BY <1>2, <2>1 DEF String, None
<1>3. CASE Item(f, KeyNo[j]) # None
  <2>1. PICK v \in Text : Item(f, KeyNo[j]) = Some(v) /\ Free(v, NUL)
    BY <1>1, <1>3, ItemForm
  <2>2. \A x : Item(f, KeyNo[j]) = Some(x) => x = v
    BY <2>1 DEF Some
  <2>3. PICK x : /\ Value(KeyNo[j]) = Some(x)
                 /\ x = v \/ \E t \in Text : x = v \o (<< NUL >> \o t)
    BY <2>1, <2>2 DEF TakenItem
  <2>4. CStr(x) = v
    <3>1. CASE x = v
      BY <2>1, <3>1, NoCut DEF CStr
    <3>2. ASSUME NEW t \in Text, x = v \o (<< NUL >> \o t) PROVE CStr(x) = v
      <4>1. NUL \in Token
        BY MarkToken
      <4>2. Cuts(x, NUL, v, t)
        BY <2>1, <3>2, <4>1, CutAtFirst
      <4> QED
        BY <4>2 DEF Cuts, CStr
    <3> QED
      BY <2>3, <3>1, <3>2
  <2>5. String(KeyNo[j]) = Some(CStr(x))
    BY <2>3 DEF String, Some
  <2> QED
    BY <2>1, <2>4, <2>5
<1> QED
  BY <1>2, <1>3

(* What the connection is set to. *)
Server(f) ==
  /\ db.host \in {f.loc.host} \union Freed
  /\ db.port = IF f.loc.port = None THEN 0 ELSE PortOf[Or(f.loc.port, "")]
  /\ db.user \in {f.loc.user} \union {Some(x) : x \in Freed}
  /\ db.password \in {f.loc.password} \union {Some(x) : x \in Freed}
  /\ f.database = None /\ f.loc.path # None => db.database = f.loc.path
  /\ f.database # None => db.database = f.database

Connected == pc \in {"ctx", "conf", "map", "base", "ok"}

LEMMA ConnectServer ==
  ASSUME NEW f \in Forms, uri = Render(f), Taken(f), Connect
  PROVE  Server(f)'
<1>1. PICK l : l = f.loc
  OBVIOUS
<1>2. IsLocation(l)
  BY <1>1, FormsAssumption DEF IsForm
<1>3. Host = l.host /\ User = l.user /\ Password = l.password
  BY <1>1, HostRead, UserRead
<1>4. PICK h \in Copies(Host), u \in CopiesOf(User), w \in CopiesOf(Password) :
      \E n \in IF PathName = {} THEN {db.database} ELSE {Some(x) : x \in PathName} :
        db' = [host |-> h, port |-> IF HasPort THEN PortNo ELSE 0, user |-> u, password |-> w,
               database |-> IF String("database") = None THEN n ELSE String("database")]
  BY DEF Connect
<1>5. PICK n \in IF PathName = {} THEN {db.database} ELSE {Some(x) : x \in PathName} :
        db' = [host |-> h, port |-> IF HasPort THEN PortNo ELSE 0, user |-> u, password |-> w,
               database |-> IF String("database") = None THEN n ELSE String("database")]
  BY <1>4
<1>6. h \in {l.host} \union Freed
  BY <1>3 DEF Copies
<1>7. ASSUME NEW o, IsOption(o, Text), NEW c \in CopiesOf(o) PROVE c \in {o} \union {Some(x) : x \in Freed}
  <2>1. CASE o = None
    BY <1>7, <2>1 DEF CopiesOf
  <2>2. CASE o # None
    <3>1. PICK x : o = Some(x)
      BY <1>7, <2>2, OptionCases
    <3>2. PICK y \in o \union Freed : c = Some(y)
      BY <1>7, <2>2 DEF CopiesOf
    <3> QED
      BY <3>1, <3>2 DEF Some
  <2> QED
    BY <2>1, <2>2
<1>8. IsOption(l.user, Text) /\ IsOption(l.password, Text)
  <2>1. CASE l.user = None
    BY <1>2, <2>1, OptionNone, UserForm
  <2>2. CASE l.user # None
    BY <1>2, <2>2, UserForm, OptionSome
  <2> QED
    BY <2>1, <2>2
<1>9. u \in {l.user} \union {Some(x) : x \in Freed} /\ w \in {l.password} \union {Some(x) : x \in Freed}
  BY <1>3, <1>7, <1>8
<1>10. PICK p : p = IF HasPort THEN PortNo ELSE 0
  OBVIOUS
<1>11. p = IF l.port = None THEN 0 ELSE PortOf[Or(l.port, "")]
  <2>1. CASE l.port = None
    <3>1. ~HasPort
      BY <1>1, <2>1, PortRead
    <3>2. p = 0
      BY <1>10, <3>1
    <3> QED
      BY <2>1, <3>2
  <2>2. CASE l.port # None
    <3>1. PICK x : l.port = Some(x)
      BY <1>2, <2>2, OptionCases DEF IsLocation
    <3>2. HasPort /\ PortNo = PortOf[x]
      BY <1>1, <3>1, PortRead
    <3>3. p = PortNo
      BY <1>10, <3>2
    <3>4. Or(l.port, "") = x
      BY <3>1, OrSome
    <3> QED
      BY <2>2, <3>2, <3>3, <3>4
  <2> QED
    BY <2>1, <2>2
<1>12. String("database") = f.database
  <2>1. KeyNo[1] = "database" /\ 1 \in 1..5
    BY DEF KeyNo
  <2>2. TakenItem(f, 1)
    BY <2>1 DEF Taken
  <2>3. Item(f, "database") = f.database
    BY DEF Item
  <2> QED
    BY <2>1, <2>2, <2>3, StringTaken
<1>13. l.path # None => n = l.path
  <2> SUFFICES ASSUME l.path # None PROVE n = l.path
    OBVIOUS
  <2>1. PICK x : l.path = Some(x)
    BY <1>2, OptionCases DEF IsLocation
  <2>2. PathName = {x}
    BY <1>1, <2>1, PortRead
  <2> QED
    BY <1>5, <2>1, <2>2
<1>14. PICK d : d = IF String("database") = None THEN n ELSE String("database")
  OBVIOUS
<1>15. db' = [host |-> h, port |-> p, user |-> u, password |-> w, database |-> d]
  BY <1>5, <1>10, <1>14
<1>16. db'.host = h /\ db'.port = p /\ db'.user = u /\ db'.password = w /\ db'.database = d
  BY <1>15
<1> QED
  BY <1>1, <1>6, <1>9, <1>11, <1>12, <1>13, <1>14, <1>16 DEF Server

LEMMA BeginParamsNext ==
  ASSUME NEW f \in Forms, NEW u, u = Render(f), HasScheme(u)
  PROVE  (uri = u /\ rest = Or(Query(u), <<>>) /\ params = <<>> /\ pc = FirstStep(u))' => ParamsOf(f)'
<1> DEFINE Begun == uri = u /\ rest = Or(Query(u), <<>>) /\ params = <<>> /\ pc = FirstStep(u)
           Held == ParamsOf(f)
<1>1. Begun => Held
  BY BeginParams
<1> HIDE DEF Begun, Held
<1>2. Begun' => Held'
  BY <1>1, PTL
<1> QED
  BY <1>2 DEF Begun, Held

(* What is known of the parameters and of the connection of a form. *)
FormOf(f) == ParamsOf(f) /\ (Connected => Server(f))

FormInv == \A f \in Forms : uri = Render(f) => FormOf(f)

LEMMA FormInit == Init => FormInv
<1> SUFFICES ASSUME Init, NEW f \in Forms, uri = Render(f) PROVE FormOf(f)
  BY DEF FormInv
<1>1. rest = Or(Query(uri), <<>>) /\ params = <<>> /\ pc = FirstStep(uri)
  BY DEF Init
<1>2. ~Connected
  BY <1>1 DEF FirstStep, Connected
<1>3. ParamsOf(f)
  <2>1. CASE HasScheme(uri)
    BY <1>1, <2>1, BeginParams
  <2>2. CASE ~HasScheme(uri)
    BY <1>1, <2>2 DEF FirstStep, ParamsOf
  <2> QED
    BY <2>1, <2>2
<1> QED
  BY <1>2, <1>3 DEF FormOf

LEMMA FormStep == FormInv /\ [Next]_vars => FormInv'
<1> SUFFICES ASSUME FormInv, [Next]_vars, NEW f \in Forms, (uri = Render(f))'
             PROVE  FormOf(f)'
  BY DEF FormInv
<1>1. CASE Again
  <2>1. PICK u \in Uris : Begin(u)
    BY <1>1 DEF Again
  <2>2. /\ uri' = u /\ rest' = Or(Query(u), <<>>) /\ params' = <<>> /\ pc' = FirstStep(u)
        /\ u = Render(f)
    BY <2>1 DEF Begin
  <2>3. ~Connected'
    BY <2>2 DEF FirstStep, Connected
  <2>4. CASE HasScheme(u)
    <3>1. ParamsOf(f)'
      BY <2>2, <2>4, BeginParamsNext
    <3> QED
      BY <2>3, <3>1 DEF FormOf
  <2>5. CASE ~HasScheme(u)
    BY <2>2, <2>3, <2>5 DEF FirstStep, FormOf, ParamsOf
  <2> QED
    BY <2>4, <2>5
<1>2. CASE UNCHANGED vars
  <2>1. FormOf(f)
    BY <1>2 DEF FormInv, vars
  <2> QED
    BY <1>2, <2>1 DEF vars, FormOf, ParamsOf, Reading, Taken, TakenItem, LastOfSeveral, Value, Connected,
                      Server
<1>3. CASE Step
  <2>1. uri' = uri
    BY <1>3 DEF Step, TakeParam, BadParam, LastParam, BadLastParam, StrayParam, BadConnect, Connect,
                CtxParam, ConfParam, MapParam, TableParam, BaseParam
  <2>2. FormOf(f)
    BY <2>1 DEF FormInv
  <2>3. CASE TakeParam \/ BadParam \/ LastParam \/ BadLastParam \/ StrayParam
    <3>1. pc = "query" /\ pc' \in {"query", "bad", "connect"}
      BY <2>3 DEF TakeParam, BadParam, LastParam, BadLastParam, StrayParam
    <3>2. ParamsOf(f)'
      BY <2>1, <2>2, <2>3, <3>1, ReadingStep DEF FormOf, ParamsOf
    <3> QED
      BY <3>1, <3>2 DEF FormOf, Connected
  <2>4. CASE BadConnect
    BY <2>4 DEF BadConnect, FormOf, ParamsOf, Connected
  <2>5. CASE Connect
    <3>1. pc = "connect" /\ pc' = "ctx" /\ params' = params
      BY <2>5 DEF Connect
    <3>2. Taken(f)
      BY <2>2, <3>1 DEF FormOf, ParamsOf
    <3>3. Server(f)'
      BY <2>1, <2>5, <3>2, ConnectServer
    <3>4. Taken(f)'
      BY <3>1, <3>2 DEF Taken, TakenItem, LastOfSeveral, Value
    <3> QED
      BY <3>1, <3>3, <3>4 DEF FormOf, ParamsOf
  <2>6. CASE CtxParam \/ ConfParam \/ MapParam \/ BaseParam
    <3>1. /\ Connected /\ params' = params /\ db' = db
          /\ pc' \in {"conf", "map", "base", "ok", "bad"}
      BY <2>6 DEF CtxParam, ConfParam, MapParam, TableParam, BaseParam, Connected
    <3>2. Taken(f) /\ Server(f)
      BY <2>2, <3>1 DEF FormOf, ParamsOf, Connected
    <3>3. Taken(f)'
      BY <3>1, <3>2 DEF Taken, TakenItem, LastOfSeveral, Value
    <3>4. Server(f)'
      BY <3>1, <3>2 DEF Server
    <3> QED
      BY <3>1, <3>3, <3>4 DEF FormOf, ParamsOf
  <2> QED
    BY <1>3, <2>3, <2>4, <2>5, <2>6 DEF Step
<1> QED
  BY <1>1, <1>2, <1>3 DEF Next

LEMMA SaidForms == \A f \in Said : f \in Forms /\ uri = Render(f)
BY DEF Said, Meaning

(* Once the connection is set, it is the one the URI names, whatever was     *)
(* parsed before it.                                                         *)
THEOREM AlwaysLocated == Spec => []Located
<1>1. FormInv => Located
  BY SaidForms DEF FormInv, FormOf, Located, Connected, Server
<1> QED
  BY <1>1, FormInit, FormStep, PTL DEF Spec

-----------------------------------------------------------------------------
(* The columns that a text lists. *)

Sep == ","

LEMMA SepFacts ==
  /\ Sep \in Token
  /\ \A s, i : Commas(s, i) = Cardinality({j \in 1..i : s[j] = Sep})
  /\ \A s, n, width : n # 0 /\ n # width =>
       Cut(s, n, width) = CHOOSE i \in DOMAIN s : s[i] = Sep /\ Commas(s, i) = n
<1>1. Sep \in Token
  BY MarkToken DEF Sep
<1>2. \A s, i : Commas(s, i) = Cardinality({j \in 1..i : s[j] = Sep})
  BY DEF Commas, Sep
<1>3. \A s, n, width : n # 0 /\ n # width =>
       Cut(s, n, width) = CHOOSE i \in DOMAIN s : s[i] = Sep /\ Commas(s, i) = n
  BY DEF Cut, Sep
<1> QED
  BY <1>1, <1>2, <1>3

LEMMA SepCount ==
  ASSUME NEW s \in Text
  PROVE  /\ \A i \in 0..Len(s) : Commas(s, i) \in Nat
         /\ Commas(s, 0) = 0
         /\ \A i \in 1..Len(s) : s[i] = Sep => Commas(s, i) = Commas(s, i - 1) + 1
         /\ \A i \in 1..Len(s) : s[i] # Sep => Commas(s, i) = Commas(s, i - 1)
         /\ \A n \in Nat \ {0} : n <= Commas(s, Len(s)) => \E i \in 1..Len(s) : s[i] = Sep /\ Commas(s, i) = n
BY CommaCount, CommaThere DEF Sep

(* The n-th column of as many as the width says. *)
ColumnOf(s, n, width) == SubSeq(s, Cut(s, n - 1, width) + 1, Cut(s, n, width) - 1)

(* A comma is found by its number. *)
LEMMA CutAt ==
  ASSUME NEW s \in Text, NEW i \in 1..Len(s), s[i] = Sep,
         NEW width, Commas(s, i) # 0, Commas(s, i) # width
  PROVE  Cut(s, Commas(s, i), width) = i
<1>0. PICK n : n = Commas(s, i)
  OBVIOUS
<1>1. PICK l : l = Len(s)
  OBVIOUS
<1>2. l \in Nat /\ DOMAIN s = 1..l /\ i \in 1..l
  BY <1>1 DEF Text
<1>3. Cut(s, n, width) = CHOOSE j \in DOMAIN s : s[j] = Sep /\ Commas(s, j) = n
  BY <1>0, SepFacts
<1>4. ASSUME NEW j \in 1..l, NEW k \in 1..l, j < k, s[j] = Sep, s[k] = Sep, Commas(s, j) = Commas(s, k)
      PROVE  FALSE
  <2>1. PICK J : J = {m \in 1..j : s[m] = Sep}
    OBVIOUS
  <2>2. PICK K : K = {m \in 1..k : s[m] = Sep}
    OBVIOUS
  <2>3. IsFiniteSet(K)
    <3>1. IsFiniteSet(1..k)
      BY FS_Interval
    <3>2. K \subseteq 1..k
      BY <2>2
    <3> QED
      BY <3>1, <3>2, FS_Subset
  <2>4. \A m \in 1..j : m \in 1..k
    BY <1>2, <1>4
  <2>5. J \subseteq K
    BY <2>1, <2>2, <2>4
  <2>6. k \in K /\ k \notin J
    BY <1>2, <1>4, <2>1, <2>2
  <2>7. Cardinality(J) = Cardinality(K)
    BY <1>4, <2>1, <2>2, SepFacts
  <2>8. J = K
    BY <2>3, <2>5, <2>7, FS_Subset
  <2> QED
    BY <2>6, <2>8
<1>5. PICK j \in 1..l : s[j] = Sep /\ Commas(s, j) = n /\ j = Cut(s, n, width)
  <2>1. \E j \in DOMAIN s : s[j] = Sep /\ Commas(s, j) = n
    BY <1>0, <1>2
  <2> QED
    BY <1>2, <1>3, <2>1
<1>6. ~(j < i) /\ ~(i < j)
  BY <1>0, <1>2, <1>4, <1>5
<1> QED
  BY <1>0, <1>2, <1>5, <1>6

(* A column and the others behind the comma. *)
LEMMA ShiftedCommas ==
  ASSUME NEW a \in Text, NEW b \in Text, NEW s, s = a \o (<< Sep >> \o b), Free(a, Sep)
  PROVE  /\ \A i \in 0..Len(b) : Commas(s, Len(a) + 1 + i) = 1 + Commas(b, i)
         /\ s \in Text /\ Len(s) = Len(a) + 1 + Len(b)
<1>1. Sep \in Token
  BY SepFacts
<1>2. IsJoin(s, a, Sep, b)
  BY <1>1, Joining
<1>3. PICK p : p = Len(a) + 1
  OBVIOUS
<1>4. Len(a) \in Nat /\ Len(b) \in Nat /\ p \in Nat \ {0}
  BY <1>3 DEF Text
<1>5. /\ s \in Text /\ Len(s) = p + Len(b)
      /\ \A i \in 1..(p - 1) : s[i] # Sep
      /\ s[p] = Sep
      /\ \A i \in 1..Len(b) : s[p + i] = b[i]
  BY <1>2, <1>3, <1>4 DEF IsJoin, Free
<1>6. Commas(s, p - 1) = 0
  <2>1. {j \in 1..(p - 1) : s[j] = Sep} = {}
    BY <1>5
  <2> QED
    BY <2>1, FS_EmptySet, SepFacts
<1>7. /\ Commas(s, p) = 1
      /\ \A i \in 1..Len(s) : s[i] = Sep => Commas(s, i) = Commas(s, i - 1) + 1
      /\ \A i \in 1..Len(s) : s[i] # Sep => Commas(s, i) = Commas(s, i - 1)
  <2>1. /\ \A i \in 1..Len(s) : s[i] = Sep => Commas(s, i) = Commas(s, i - 1) + 1
        /\ \A i \in 1..Len(s) : s[i] # Sep => Commas(s, i) = Commas(s, i - 1)
    BY <1>5, SepCount
  <2>2. p \in 1..Len(s)
    BY <1>4, <1>5
  <2>3. Commas(s, p) = Commas(s, p - 1) + 1
    BY <1>5, <2>1, <2>2
  <2>4. Commas(s, p) = 0 + 1
    BY <1>6, <2>3
  <2> QED
    BY <2>1, <2>4
<1>8. /\ \A i \in 0..Len(b) : Commas(b, i) \in Nat
      /\ Commas(b, 0) = 0
      /\ \A i \in 1..Len(b) : b[i] = Sep => Commas(b, i) = Commas(b, i - 1) + 1
      /\ \A i \in 1..Len(b) : b[i] # Sep => Commas(b, i) = Commas(b, i - 1)
  BY SepCount
<1> DEFINE Off == {i \in 0..Len(b) : Commas(s, p + i) # 1 + Commas(b, i)}
<1>9. CASE Off # {}
  <2>1. PICK i \in Off : \A j \in Off : i <= j
    <3>1. Off \in SUBSET Nat
      BY <1>4
    <3> HIDE DEF Off
    <3> QED
      BY <1>9, <3>1, LeastOf
  <2>2. i \in 0..Len(b) /\ Commas(s, p + i) # 1 + Commas(b, i)
    BY <2>1
  <2>3. i # 0
    <3>1. ASSUME i = 0 PROVE FALSE
      <4>1. p + i = p
        BY <1>4, <3>1
      <4>2. Commas(s, p + i) = 1
        BY <1>7, <4>1
      <4>3. Commas(b, i) = 0
        BY <1>8, <3>1
      <4> QED
        BY <2>2, <4>2, <4>3
    <3> QED
      BY <3>1
  <2>4. i \in 1..Len(b) /\ i - 1 \in 0..Len(b)
    BY <1>4, <2>2, <2>3
  <2>5. i - 1 \notin Off
    BY <1>4, <2>1, <2>4
  <2>6. Commas(s, p + (i - 1)) = 1 + Commas(b, i - 1)
    BY <2>4, <2>5
  <2>7. /\ p + i \in 1..Len(s) /\ (p + i) - 1 = p + (i - 1) /\ s[p + i] = b[i]
    BY <1>4, <1>5, <2>4
  <2>8. Commas(b, i - 1) \in Nat
    BY <1>8, <2>4
  <2>9. PICK c : c = Commas(b, i - 1)
    OBVIOUS
  <2>10. CASE b[i] = Sep
    <3>1. Commas(b, i) = c + 1
      BY <1>8, <2>4, <2>9, <2>10
    <3>2. Commas(s, p + i) = Commas(s, p + (i - 1)) + 1
      BY <1>7, <2>7, <2>10
    <3>3. Commas(s, p + i) = (1 + c) + 1
      BY <2>6, <2>9, <3>2
    <3> QED
      BY <2>2, <2>8, <2>9, <3>1, <3>3
  <2>11. CASE b[i] # Sep
    <3>1. Commas(b, i) = c
      BY <1>8, <2>4, <2>9, <2>11
    <3>2. Commas(s, p + i) = Commas(s, p + (i - 1))
      BY <1>7, <2>7, <2>11
    <3> QED
      BY <2>2, <2>6, <2>9, <3>1, <3>2
  <2> QED
    BY <2>10, <2>11
<1>10. CASE Off = {}
  <2>1. \A i \in 0..Len(b) : Commas(s, p + i) = 1 + Commas(b, i)
    BY <1>10
  <2> QED
    BY <1>3, <1>5, <2>1
<1> QED
  BY <1>9, <1>10

(* Texts that begin with a piece without commas and have at least w of them   *)
(* behind it.                                                                 *)
Extends(s, a, b, w) ==
  /\ a \in Text /\ b \in Text /\ s = a \o (<< Sep >> \o b) /\ Free(a, Sep)
  /\ w \in Nat \ {0} /\ Commas(b, Len(b)) \in Nat /\ w - 1 <= Commas(b, Len(b))

MovedCut(s, a, b, w, n) ==
  /\ Cut(b, n, w) \in 0..(Len(b) + 1)
  /\ Cut(s, n + 1, w + 1) = Len(a) + 1 + Cut(b, n, w)

LEMMA ShiftedCut ==
  ASSUME NEW s, NEW a, NEW b, NEW w, Extends(s, a, b, w), NEW n, n \in 0..w
  PROVE  MovedCut(s, a, b, w, n)
<1> SUFFICES ASSUME a \in Text, b \in Text, s = a \o (<< Sep >> \o b), Free(a, Sep),
                    w \in Nat \ {0}, Commas(b, Len(b)) \in Nat, w - 1 <= Commas(b, Len(b))
             PROVE  /\ Cut(b, n, w) \in 0..(Len(b) + 1)
                    /\ Cut(s, n + 1, w + 1) = Len(a) + 1 + Cut(b, n, w)
  BY DEF Extends, MovedCut
<1>1. Len(a) \in Nat /\ Len(b) \in Nat
  BY DEF Text
<1>2. /\ \A i \in 0..Len(b) : Commas(s, Len(a) + 1 + i) = 1 + Commas(b, i)
      /\ s \in Text /\ Len(s) = Len(a) + 1 + Len(b)
  BY ShiftedCommas
<1>3. Sep \in Token
  BY SepFacts
<1>4. IsJoin(s, a, Sep, b)
  BY <1>3, Joining
<1>5. CASE n = w
  <2>1. n # 0 /\ n + 1 # 0 /\ n + 1 = w + 1
    BY <1>5
  <2>2. Cut(b, n, w) = Len(b) + 1 /\ Cut(s, n + 1, w + 1) = Len(s) + 1
    BY <1>5, <2>1 DEF Cut
  <2> QED
    BY <1>1, <1>2, <2>2
<1>6. CASE n = 0
  <2>1. Cut(b, n, w) = 0
    BY <1>6 DEF Cut
  <2>2. PICK p : p = Len(a) + 1
    OBVIOUS
  <2>3. p \in 1..Len(s) /\ s[p] = Sep
    BY <1>1, <1>2, <1>4, <2>2 DEF IsJoin
  <2>4. Commas(s, p) = 1
    <3>1. 0 \in 0..Len(b) /\ Len(a) + 1 + 0 = p
      BY <1>1, <2>2
    <3>2. Commas(b, 0) = 0
      BY SepCount
    <3>3. Commas(s, Len(a) + 1 + 0) = 1 + Commas(b, 0)
      BY <1>2, <3>1
    <3> QED
      BY <3>1, <3>2, <3>3
  <2>5. n + 1 = 1 /\ 1 # 0 /\ 1 # w + 1
    BY <1>6
  <2>6. Cut(s, n + 1, w + 1) = p
    <3>1. Cut(s, Commas(s, p), w + 1) = p
      BY <1>2, <2>3, <2>4, <2>5, CutAt
    <3> QED
      BY <2>4, <2>5, <3>1
  <2> QED
    BY <1>1, <2>1, <2>2, <2>6
<1>7. CASE n # 0 /\ n # w
  <2>1. n \in Nat \ {0} /\ n <= w - 1
    BY <1>7
  <2>2. PICK i \in 1..Len(b) : b[i] = Sep /\ Commas(b, i) = n
    <3>1. n <= Commas(b, Len(b))
      BY <2>1
    <3> QED
      BY <2>1, <3>1, SepCount
  <2>3. Cut(b, n, w) = i
    <3>1. Cut(b, Commas(b, i), w) = i
      BY <1>7, <2>2, CutAt
    <3> QED
      BY <2>2, <3>1
  <2>4. PICK p : p = Len(a) + 1 + i
    OBVIOUS
  <2>5. p \in 1..Len(s) /\ s[p] = Sep
    <3>1. s[Len(a) + 1 + i] = b[i]
      BY <1>4, <2>2 DEF IsJoin
    <3> QED
      BY <1>1, <1>2, <2>2, <2>4, <3>1
  <2>6. Commas(s, p) = n + 1
    <3>1. i \in 0..Len(b)
      BY <1>1
    <3>2. Commas(s, p) = 1 + n
      BY <1>2, <2>2, <2>4, <3>1
    <3> QED
      BY <2>1, <3>2
  <2>7. n + 1 # 0 /\ n + 1 # w + 1
    BY <1>7
  <2>8. Cut(s, n + 1, w + 1) = p
    <3>1. Cut(s, Commas(s, p), w + 1) = p
      BY <1>2, <2>5, <2>6, <2>7, CutAt
    <3> QED
      BY <2>6, <3>1
  <2> QED
    BY <1>1, <2>2, <2>3, <2>4, <2>8
<1> QED
  BY <1>5, <1>6, <1>7

LEMMA ShiftedPiece ==
  ASSUME NEW a \in Text, NEW b \in Text, NEW s, s = a \o b,
         NEW i \in 1..(Len(b) + 2), NEW j \in (0 - 1)..Len(b)
  PROVE  SubSeq(s, Len(a) + i, Len(a) + j) = SubSeq(b, i, j)
<1>1. Len(a) \in Nat /\ Len(b) \in Nat
  BY DEF Text
<1>2. /\ s \in Text /\ Len(s) = Len(a) + Len(b)
      /\ \A k \in 1..(Len(a) + Len(b)) : s[k] = IF k <= Len(a) THEN a[k] ELSE b[k - Len(a)]
  BY TextPair
<1>3. CASE j < i
  <2>1. Len(a) + j < Len(a) + i /\ Len(a) + j \in Int /\ Len(a) + i \in Int /\ i \in Int /\ j \in Int
    BY <1>1, <1>3
  <2>2. SubSeq(s, Len(a) + i, Len(a) + j) = << >>
    BY <2>1, SubSeqEmpty
  <2>3. SubSeq(b, i, j) = << >>
    BY <1>3, <2>1, SubSeqEmpty
  <2> QED
    BY <2>2, <2>3
<1>4. CASE ~(j < i)
  <2>1. PICK x : x = SubSeq(s, Len(a) + i, Len(a) + j)
    OBVIOUS
  <2>2. PICK y : y = SubSeq(b, i, j)
    OBVIOUS
  <2>3. /\ Len(a) + i \in 1..(Len(s) + 1) /\ Len(a) + j \in ((Len(a) + i) - 1)..Len(s)
        /\ i \in 1..(Len(b) + 1) /\ j \in (i - 1)..Len(b)
    BY <1>1, <1>2, <1>4
  <2>4. /\ x \in Text /\ Len(x) = (Len(a) + j) - (Len(a) + i) + 1
        /\ \A k \in 1..((Len(a) + j) - (Len(a) + i) + 1) : x[k] = s[(Len(a) + i) + k - 1]
    BY <1>2, <2>1, <2>3, Piece
  <2>5. /\ y \in Text /\ Len(y) = j - i + 1
        /\ \A k \in 1..(j - i + 1) : y[k] = b[i + k - 1]
    BY <2>2, <2>3, Piece
  <2>6. (Len(a) + j) - (Len(a) + i) + 1 = j - i + 1
    BY <1>1
  <2>7. ASSUME NEW k \in 1..(j - i + 1) PROVE x[k] = y[k]
    <3>1. /\ (Len(a) + i) + k - 1 \in 1..(Len(a) + Len(b))
          /\ ~((Len(a) + i) + k - 1 <= Len(a))
          /\ ((Len(a) + i) + k - 1) - Len(a) = i + k - 1
      BY <1>1, <1>4
    <3>2. x[k] = s[(Len(a) + i) + k - 1]
      BY <2>4, <2>6
    <3>3. s[(Len(a) + i) + k - 1] = b[i + k - 1]
      BY <1>2, <3>1
    <3> QED
      BY <2>5, <3>2, <3>3
  <2>8. x = y
    BY <2>4, <2>5, <2>6, <2>7, SameText
  <2> QED
    BY <2>1, <2>2, <2>8
<1> QED
  BY <1>3, <1>4

(* The columns from the k-th on, with commas between them; there may be more  *)
(* commas in the last.                                                        *)
IsList(s, c, k) ==
  /\ s \in Text /\ Commas(s, Len(s)) \in Nat /\ Len(c) - k <= Commas(s, Len(s))
  /\ \A n \in 1..(Len(c) - k + 1) : ColumnOf(s, n, Len(c) - k + 1) = c[k + n - 1]

LEMMA LastOfList ==
  ASSUME NEW c, NEW k \in Nat, k = Len(c), c[k] \in Text
  PROVE  IsList(c[k], c, k)
<1>1. PICK s : s = c[k]
  OBVIOUS
<1>2. s \in Text /\ Len(s) \in Nat
  BY <1>1 DEF Text
<1>3. Commas(s, Len(s)) \in Nat
  <2>1. Len(s) \in 0..Len(s)
    BY <1>2
  <2> QED
    BY <1>2, <2>1, SepCount
<1>4. ColumnOf(s, 1, 1) = s
  <2>1. Cut(s, 0, 1) = 0 /\ Cut(s, 1, 1) = Len(s) + 1
    BY DEF Cut
  <2>2. ColumnOf(s, 1, 1) = SubSeq(s, 1, Len(s))
    <3>1. 1 - 1 = 0 /\ 0 + 1 = 1 /\ (Len(s) + 1) - 1 = Len(s)
      BY <1>2
    <3> QED
      BY <2>1, <3>1 DEF ColumnOf
  <2>3. PICK e : e = << >>
    OBVIOUS
  <2>4. e \in Text /\ s = s \o e
    BY <1>2, <2>3, EmptyText, WithEmpty
  <2>5. SubSeq(s, 1, Len(s)) = s
    BY ONLY <1>2, <2>4, Halves
  <2> QED
    BY <2>2, <2>5
<1>5. Len(c) - k = 0 /\ Len(c) - k + 1 = 1
  OBVIOUS
<1>6. ASSUME NEW n \in 1..(Len(c) - k + 1)
      PROVE  ColumnOf(s, n, Len(c) - k + 1) = c[k + n - 1]
  <2>1. n = 1 /\ k + n - 1 = k
    BY <1>5
  <2> QED
    BY <1>1, <1>4, <1>5, <2>1
<1> QED
  BY <1>1, <1>2, <1>3, <1>5, <1>6 DEF IsList

MovedColumns(s, a, b, w) ==
  /\ s \in Text /\ Commas(s, Len(s)) \in Nat /\ w <= Commas(s, Len(s))
  /\ ColumnOf(s, 1, w + 1) = a
  /\ \A m \in 1..w : ColumnOf(s, m + 1, w + 1) = ColumnOf(b, m, w)

LEMMA ShiftedColumns ==
  ASSUME NEW s, NEW a, NEW b, NEW w, Extends(s, a, b, w)
  PROVE  MovedColumns(s, a, b, w)
<1>0. \A n \in 0..w : MovedCut(s, a, b, w, n)
  BY ShiftedCut
<1> SUFFICES ASSUME a \in Text, b \in Text, s = a \o (<< Sep >> \o b), Free(a, Sep),
                    w \in Nat \ {0}, Commas(b, Len(b)) \in Nat, w - 1 <= Commas(b, Len(b))
             PROVE  /\ s \in Text /\ Commas(s, Len(s)) \in Nat /\ w <= Commas(s, Len(s))
                    /\ ColumnOf(s, 1, w + 1) = a
                    /\ \A m \in 1..w : ColumnOf(s, m + 1, w + 1) = ColumnOf(b, m, w)
  BY DEF Extends, MovedColumns
<1>1. Len(a) \in Nat /\ Len(b) \in Nat
  BY DEF Text
<1>2. << Sep >> \in Text /\ Len(<< Sep >>) = 1
  BY SepFacts, TokenText
<1>3. /\ \A i \in 0..Len(b) : Commas(s, Len(a) + 1 + i) = 1 + Commas(b, i)
      /\ s \in Text /\ Len(s) = Len(a) + 1 + Len(b)
  BY ShiftedCommas
<1>4. \A n \in 0..w : /\ Cut(b, n, w) \in 0..(Len(b) + 1)
                      /\ Cut(s, n + 1, w + 1) = Len(a) + 1 + Cut(b, n, w)
  BY <1>0 DEF MovedCut
<1>5. Commas(s, Len(s)) \in Nat /\ w <= Commas(s, Len(s))
  <2>1. Len(b) \in 0..Len(b)
    BY <1>1
  <2>2. Commas(s, Len(s)) = 1 + Commas(b, Len(b))
    BY <1>3, <2>1
  <2> QED
    BY <2>2
<1>6. ColumnOf(s, 1, w + 1) = a
  <2>1. Cut(b, 0, w) = 0 /\ Cut(s, 0, w + 1) = 0
    BY DEF Cut
  <2>2. Cut(s, 0 + 1, w + 1) = Len(a) + 1 + Cut(b, 0, w)
    <3>1. 0 \in 0..w
      OBVIOUS
    <3> QED
      BY ONLY <1>4, <3>1
  <2>3. Cut(s, 1, w + 1) = Len(a) + 1
    BY <1>1, <2>1, <2>2
  <2>4. 1 - 1 = 0 /\ 0 + 1 = 1 /\ (Len(a) + 1) - 1 = Len(a)
    BY <1>1
  <2>5. ColumnOf(s, 1, w + 1) = SubSeq(s, 1, Len(a))
    BY <2>1, <2>3, <2>4 DEF ColumnOf
  <2>6. PICK x : x = << Sep >> \o b
    OBVIOUS
  <2>7. x \in Text
    BY <1>2, <2>6, TextPair
  <2>8. s = a \o x
    BY <2>6
  <2>9. a \in Text /\ x \in Text /\ s = a \o x
    BY <2>7, <2>8
  <2>10. SubSeq(s, 1, Len(a)) = a
    BY ONLY <2>9, Halves
  <2> QED
    BY <2>5, <2>10
<1>7. PICK d : d = a \o << Sep >>
  OBVIOUS
<1>8. d \in Text /\ Len(d) = Len(a) + 1
  BY <1>2, <1>7, TextPair
<1>9. s = d \o b
  BY <1>2, <1>7, Regroup
<1>10. ASSUME NEW m \in 1..w PROVE ColumnOf(s, m + 1, w + 1) = ColumnOf(b, m, w)
  <2>1. m \in 0..w /\ m - 1 \in 0..w /\ (m - 1) + 1 = m /\ (m + 1) - 1 = m
    OBVIOUS
  <2>2. PICK p : p = Cut(b, m - 1, w)
    OBVIOUS
  <2>3. PICK q : q = Cut(b, m, w)
    OBVIOUS
  <2>4. p \in 0..(Len(b) + 1) /\ Cut(s, m, w + 1) = Len(a) + 1 + p
    <3>1. Cut(s, (m - 1) + 1, w + 1) = Len(a) + 1 + Cut(b, m - 1, w)
      BY <1>4, <2>1
    <3> QED
      BY <1>4, <2>1, <2>2, <3>1
  <2>5. q \in 0..(Len(b) + 1) /\ Cut(s, m + 1, w + 1) = Len(a) + 1 + q
    BY <1>4, <2>1, <2>3
  <2>6. /\ p + 1 \in 1..(Len(b) + 2) /\ q - 1 \in (0 - 1)..Len(b)
        /\ (Len(a) + 1 + p) + 1 = Len(d) + (p + 1)
        /\ (Len(a) + 1 + q) - 1 = Len(d) + (q - 1)
    BY ONLY <1>1, <1>8, <2>4, <2>5
  <2>7. ColumnOf(s, m + 1, w + 1) = SubSeq(s, Len(d) + (p + 1), Len(d) + (q - 1))
    BY <2>1, <2>4, <2>5, <2>6 DEF ColumnOf
  <2>8. PICK i : i = p + 1
    OBVIOUS
  <2>9. PICK j : j = q - 1
    OBVIOUS
  <2>10. d \in Text /\ b \in Text /\ s = d \o b /\ i \in 1..(Len(b) + 2) /\ j \in (0 - 1)..Len(b)
    BY <1>8, <1>9, <2>6, <2>8, <2>9
  <2>11. SubSeq(s, Len(d) + i, Len(d) + j) = SubSeq(b, i, j)
    BY ONLY <2>10, ShiftedPiece
  <2>12. ColumnOf(b, m, w) = SubSeq(b, i, j)
    BY <2>2, <2>3, <2>8, <2>9 DEF ColumnOf
  <2> QED
    BY <2>7, <2>8, <2>9, <2>11, <2>12
<1> QED
  BY <1>3, <1>5, <1>6, <1>10

AddsColumn(s, b, c, k) ==
  /\ k \in Nat /\ k < Len(c) /\ Len(c) \in Nat
  /\ c[k] \in Text /\ Free(c[k], Sep) /\ s = c[k] \o (<< Sep >> \o b)

LEMMA MoreOfList ==
  ASSUME NEW s, NEW b, NEW c, NEW k, AddsColumn(s, b, c, k), NEW j, j = k + 1, IsList(b, c, j)
  PROVE  IsList(s, c, k)
<1>0. PICK v : v = Len(c)
  OBVIOUS
<1> SUFFICES ASSUME v \in Nat, k \in Nat, k < v, NEW a \in Text, c[k] = a, Free(a, Sep),
                    s = a \o (<< Sep >> \o b), IsList(b, c, k + 1)
             PROVE  IsList(s, c, k)
  BY <1>0 DEF AddsColumn
<1>1. PICK w : w = v - k
  OBVIOUS
<1>2. w \in Nat \ {0} /\ v - (k + 1) = w - 1 /\ (w - 1) + 1 = w
  BY <1>1
<1>3. b \in Text /\ Commas(b, Len(b)) \in Nat /\ w - 1 <= Commas(b, Len(b))
  BY <1>0, <1>2 DEF IsList
<1>4. \A n \in 1..w : ColumnOf(b, n, w) = c[(k + 1) + n - 1]
  BY <1>0, <1>2 DEF IsList
<1>5. /\ s \in Text /\ Commas(s, Len(s)) \in Nat /\ w <= Commas(s, Len(s))
      /\ ColumnOf(s, 1, w + 1) = a
      /\ \A m \in 1..w : ColumnOf(s, m + 1, w + 1) = ColumnOf(b, m, w)
  <2>1. Extends(s, a, b, w)
    BY <1>2, <1>3 DEF Extends
  <2>2. MovedColumns(s, a, b, w)
    BY ONLY <2>1, ShiftedColumns
  <2> QED
    BY ONLY <2>2 DEF MovedColumns
<1>6. ASSUME NEW n \in 1..(w + 1) PROVE ColumnOf(s, n, w + 1) = c[k + n - 1]
  <2>1. CASE n = 1
    <3>1. k + n - 1 = k
      BY <2>1
    <3> QED
      BY <1>5, <2>1, <3>1
  <2>2. CASE n # 1
    <3>1. PICK m : m = n - 1
      OBVIOUS
    <3>2. m \in 1..w /\ n = m + 1 /\ k + n - 1 = (k + 1) + m - 1
      BY <1>2, <2>2, <3>1
    <3> QED
      BY <1>4, <1>5, <3>2
  <2> QED
    BY <2>1, <2>2
<1> QED
  BY <1>0, <1>1, <1>5, <1>6 DEF IsList

(* Up to four columns, with the commas between them. *)
IsColumns(c) ==
  /\ Len(c) \in 2..4 /\ \A i \in 1..Len(c) : c[i] \in Text
  /\ \A i \in 1..(Len(c) - 1) : Free(c[i], Sep)

(* The columns of a text, the last of which goes on to its end. *)
Chain(c) ==
  IF Len(c) = 2 THEN c[1] \o (<< Sep >> \o c[2])
  ELSE IF Len(c) = 3 THEN c[1] \o (<< Sep >> \o (c[2] \o (<< Sep >> \o c[3])))
  ELSE c[1] \o (<< Sep >> \o (c[2] \o (<< Sep >> \o (c[3] \o (<< Sep >> \o c[4])))))

LEMMA ListedChain ==
  ASSUME NEW c, IsColumns(c)
  PROVE  Listed(c) = Chain(c)
<1>1. PICK w : w = Len(c)
  OBVIOUS
<1>2. w \in 2..4 /\ \A i \in 1..w : c[i] \in Text
  BY <1>1 DEF IsColumns
<1>3. << Sep >> \in Text
  BY SepFacts, TokenText
<1>4. /\ \A n \in 1..4 : AndColumn(c, n) = IF n > w THEN << >> ELSE << Sep >> \o c[n]
      /\ Listed(c) = c[1] \o (AndColumn(c, 2) \o (AndColumn(c, 3) \o AndColumn(c, 4)))
  BY <1>1 DEF AndColumn, Listed, Sep
<1>5. CASE w = 2
  <2>1. AndColumn(c, 2) = << Sep >> \o c[2] /\ AndColumn(c, 3) = << >> /\ AndColumn(c, 4) = << >>
    BY <1>4, <1>5
  <2>2. << Sep >> \o c[2] \in Text
    BY <1>2, <1>3, <1>5, TextPair
  <2> QED
    BY <1>1, <1>4, <1>5, <2>1, <2>2, EmptyText, WithEmpty DEF Chain
<1>6. CASE w = 3
  <2>1. /\ AndColumn(c, 2) = << Sep >> \o c[2] /\ AndColumn(c, 3) = << Sep >> \o c[3]
        /\ AndColumn(c, 4) = << >>
    BY <1>4, <1>6
  <2>2. << Sep >> \o c[3] \in Text /\ c[2] \in Text
    BY <1>2, <1>3, <1>6, TextPair
  <2>3. (<< Sep >> \o c[2]) \o (<< Sep >> \o c[3]) = << Sep >> \o (c[2] \o (<< Sep >> \o c[3]))
    BY <1>3, <2>2, Regroup
  <2> QED
    BY <1>1, <1>4, <1>6, <2>1, <2>2, <2>3, WithEmpty DEF Chain
<1>7. CASE w = 4
  <2>1. /\ AndColumn(c, 2) = << Sep >> \o c[2] /\ AndColumn(c, 3) = << Sep >> \o c[3]
        /\ AndColumn(c, 4) = << Sep >> \o c[4]
    BY <1>4, <1>7
  <2>2. << Sep >> \o c[4] \in Text /\ c[2] \in Text /\ c[3] \in Text
    BY <1>2, <1>3, <1>7, TextPair
  <2>3. PICK x : x = c[3] \o (<< Sep >> \o c[4])
    OBVIOUS
  <2>4. x \in Text /\ << Sep >> \o x \in Text
    BY <1>3, <2>2, <2>3, TextPair
  <2>5. (<< Sep >> \o c[3]) \o (<< Sep >> \o c[4]) = << Sep >> \o x
    BY <1>3, <2>2, <2>3, Regroup
  <2>6. (<< Sep >> \o c[2]) \o (<< Sep >> \o x) = << Sep >> \o (c[2] \o (<< Sep >> \o x))
    BY <1>3, <2>2, <2>4, Regroup
  <2>7. Listed(c) = c[1] \o ((<< Sep >> \o c[2]) \o ((<< Sep >> \o c[3]) \o (<< Sep >> \o c[4])))
    BY <1>4, <2>1
  <2>8. Listed(c) = c[1] \o (<< Sep >> \o (c[2] \o (<< Sep >> \o x)))
    BY ONLY <2>5, <2>6, <2>7
  <2>9. Len(c) # 2 /\ Len(c) # 3
    BY <1>1, <1>7
  <2>10. Chain(c) = c[1] \o (<< Sep >> \o (c[2] \o (<< Sep >> \o (c[3] \o (<< Sep >> \o c[4])))))
    BY ONLY <2>9 DEF Chain
  <2> QED
    BY ONLY <2>3, <2>8, <2>10
<1>8. w = 2 \/ w = 3 \/ w = 4
  BY <1>2
<1> QED
  BY ONLY <1>5, <1>6, <1>7, <1>8

LEMMA ChainList ==
  ASSUME NEW c, IsColumns(c)
  PROVE  IsList(Chain(c), c, 1)
<1>1. PICK w : w = Len(c)
  OBVIOUS
<1>2. w \in 2..4 /\ (\A i \in 1..w : c[i] \in Text) /\ (\A i \in 1..(w - 1) : Free(c[i], Sep))
  BY <1>1 DEF IsColumns
<1>3. IsList(c[w], c, w)
  BY <1>1, <1>2, LastOfList
<1>4. \A k \in 1..(w - 1) : \A s, b : s = c[k] \o (<< Sep >> \o b) => AddsColumn(s, b, c, k)
  BY <1>1, <1>2 DEF AddsColumn
<1>5. 2 = 1 + 1 /\ 3 = 2 + 1 /\ 4 = 3 + 1
  OBVIOUS
<1>6. CASE w = 2
  <2>1. Chain(c) = c[1] \o (<< Sep >> \o c[2])
    BY <1>1, <1>6 DEF Chain
  <2>2. IsList(c[2], c, 2)
    BY <1>3, <1>6
  <2>3. AddsColumn(Chain(c), c[2], c, 1)
    <3>1. 1 \in 1..(w - 1)
      BY <1>6
    <3> QED
      BY ONLY <1>4, <2>1, <3>1, Zenon
  <2> QED
    BY ONLY <1>5, <2>2, <2>3, MoreOfList
<1>7. CASE w = 3
  <2>1. PICK x : x = c[2] \o (<< Sep >> \o c[3])
    OBVIOUS
  <2>2. Chain(c) = c[1] \o (<< Sep >> \o x)
    BY <1>1, <1>7, <2>1 DEF Chain
  <2>3. IsList(c[3], c, 3)
    BY <1>3, <1>7
  <2>4. AddsColumn(x, c[3], c, 2) /\ AddsColumn(Chain(c), x, c, 1)
    <3>1. 1 \in 1..(w - 1) /\ 2 \in 1..(w - 1)
      BY <1>7
    <3> QED
      BY ONLY <1>4, <2>1, <2>2, <3>1, Zenon
  <2>5. IsList(x, c, 2)
    BY ONLY <1>5, <2>3, <2>4, MoreOfList
  <2> QED
    BY ONLY <1>5, <2>4, <2>5, MoreOfList
<1>8. CASE w = 4
  <2>1. PICK x : x = c[3] \o (<< Sep >> \o c[4])
    OBVIOUS
  <2>2. PICK y : y = c[2] \o (<< Sep >> \o x)
    OBVIOUS
  <2>3. Chain(c) = c[1] \o (<< Sep >> \o y)
    BY <1>1, <1>8, <2>1, <2>2 DEF Chain
  <2>4. IsList(c[4], c, 4)
    BY <1>3, <1>8
  <2>5. AddsColumn(x, c[4], c, 3) /\ AddsColumn(y, x, c, 2) /\ AddsColumn(Chain(c), y, c, 1)
    <3>1. 1 \in 1..(w - 1) /\ 2 \in 1..(w - 1) /\ 3 \in 1..(w - 1)
      BY <1>8
    <3> QED
      BY ONLY <1>4, <2>1, <2>2, <2>3, <3>1, Zenon
  <2>6. IsList(x, c, 3)
    BY ONLY <1>5, <2>4, <2>5, MoreOfList
  <2>7. IsList(y, c, 2)
    BY ONLY <1>5, <2>5, <2>6, MoreOfList
  <2> QED
    BY ONLY <1>5, <2>5, <2>7, MoreOfList
<1> QED
  BY <1>2, <1>6, <1>7, <1>8

(* The same columns with something behind the last. *)
LEMMA LongerChain ==
  ASSUME NEW c, IsColumns(c), NEW e \in Text,
         NEW d, d = [i \in 1..Len(c) |-> IF i = Len(c) THEN c[i] \o e ELSE c[i]]
  PROVE  IsColumns(d) /\ Len(d) = Len(c) /\ Chain(d) = Chain(c) \o e
<1>1. PICK w : w = Len(c)
  OBVIOUS
<1>2. w \in 2..4 /\ (\A i \in 1..w : c[i] \in Text) /\ (\A i \in 1..(w - 1) : Free(c[i], Sep))
  BY <1>1 DEF IsColumns
<1>3. << Sep >> \in Text
  BY SepFacts, TokenText
<1>4. Len(d) = w
  BY <1>1, <1>2
<1>5. \A i \in 1..w : d[i] = IF i = w THEN c[i] \o e ELSE c[i]
  BY <1>1
<1>6. \A i \in 1..w : d[i] \in Text
  BY <1>2, <1>5, TextPair
<1>7. \A i \in 1..(w - 1) : Free(d[i], Sep)
  <2>1. \A i \in 1..(w - 1) : i \in 1..w /\ i # w
    BY <1>2
  <2> QED
    BY <1>2, <1>5, <2>1
<1>8. IsColumns(d)
  BY <1>2, <1>4, <1>6, <1>7 DEF IsColumns
<1>9. ASSUME NEW b \in Text, NEW x, x = << Sep >> \o b
      PROVE  x \in Text /\ b \o e \in Text /\ x \o e = << Sep >> \o (b \o e)
  <2>1. << Sep >> \o b \in Text /\ b \o e \in Text /\ (<< Sep >> \o b) \o e = << Sep >> \o (b \o e)
    BY ONLY <1>3, b \in Text, e \in Text, GoesOn
  <2> QED
    BY ONLY <2>1, <1>9
<1>10. w = 2 \/ w = 3 \/ w = 4
  BY <1>2
<1>11. \A a, b \in Text : a \o b \in Text /\ (a \o b) \o e = a \o (b \o e)
  BY GoesOn
<1>12. CASE w = 2
  <2>1. /\ d[1] = c[1] /\ d[2] = c[2] \o e
        /\ c[1] \in Text /\ c[2] \in Text
    <3>1. 1 \in 1..w /\ 2 \in 1..w /\ 1 # w
      BY <1>12
    <3> QED
      BY <1>2, <1>5, <1>12, <3>1
  <2>2. PICK x : x = << Sep >> \o c[2]
    OBVIOUS
  <2>3. x \in Text /\ x \o e = << Sep >> \o (c[2] \o e)
    BY ONLY <1>9, <2>1, <2>2
  <2>4. (c[1] \o x) \o e = c[1] \o (x \o e)
    BY ONLY <2>1, <2>3, e \in Text, Regroup
  <2> QED
    BY <1>1, <1>4, <1>8, <1>12, <2>1, <2>2, <2>3, <2>4 DEF Chain
<1>13. CASE w = 3
  <2>1. /\ d[1] = c[1] /\ d[2] = c[2] /\ d[3] = c[3] \o e
        /\ c[1] \in Text /\ c[2] \in Text /\ c[3] \in Text
    <3>1. 1 \in 1..w /\ 2 \in 1..w /\ 3 \in 1..w /\ 1 # w /\ 2 # w
      BY <1>13
    <3> QED
      BY <1>2, <1>5, <1>13, <3>1
  <2>2. PICK x : x = << Sep >> \o c[3]
    OBVIOUS
  <2>3. x \in Text /\ x \o e = << Sep >> \o (c[3] \o e)
    BY ONLY <1>9, <2>1, <2>2
  <2>4. PICK u : u = c[2] \o x
    OBVIOUS
  <2>5. u \in Text /\ u \o e = c[2] \o (x \o e)
    <3>1. c[2] \o x \in Text /\ (c[2] \o x) \o e = c[2] \o (x \o e)
      BY ONLY <1>11, <2>1, <2>3, <2>4, Zenon
    <3> QED
      BY ONLY <3>1, <2>4
  <2>6. PICK y : y = << Sep >> \o u
    OBVIOUS
  <2>7. y \in Text /\ y \o e = << Sep >> \o (u \o e)
    BY ONLY <1>9, <2>5, <2>6
  <2>8. (c[1] \o y) \o e = c[1] \o (y \o e)
    BY ONLY <2>1, <2>7, e \in Text, Regroup
  <2>9. Chain(c) = c[1] \o y
    BY <1>1, <1>13, <2>2, <2>4, <2>6 DEF Chain
  <2>10. Chain(d) = c[1] \o (<< Sep >> \o (c[2] \o (<< Sep >> \o (c[3] \o e))))
    <3>1. Len(d) # 2 /\ Len(d) = 3
      BY ONLY <1>4, <1>13
    <3>2. Chain(d) = d[1] \o (<< Sep >> \o (d[2] \o (<< Sep >> \o d[3])))
      BY ONLY <3>1 DEF Chain
    <3> QED
      BY ONLY <2>1, <3>2
  <2>11. Chain(d) = Chain(c) \o e
    BY ONLY <2>3, <2>5, <2>7, <2>8, <2>9, <2>10
  <2> QED
    BY <1>1, <1>4, <1>8, <2>11
<1>14. CASE w = 4
  <2>1. /\ d[1] = c[1] /\ d[2] = c[2] /\ d[3] = c[3] /\ d[4] = c[4] \o e
        /\ c[1] \in Text /\ c[2] \in Text /\ c[3] \in Text /\ c[4] \in Text
    <3>1. 1 \in 1..w /\ 2 \in 1..w /\ 3 \in 1..w /\ 4 \in 1..w /\ 1 # w /\ 2 # w /\ 3 # w
      BY <1>14
    <3> QED
      BY <1>2, <1>5, <1>14, <3>1
  <2>2. PICK x : x = << Sep >> \o c[4]
    OBVIOUS
  <2>3. x \in Text /\ x \o e = << Sep >> \o (c[4] \o e)
    BY ONLY <1>9, <2>1, <2>2
  <2>4. PICK u : u = c[3] \o x
    OBVIOUS
  <2>5. u \in Text /\ u \o e = c[3] \o (x \o e)
    <3>1. c[3] \o x \in Text /\ (c[3] \o x) \o e = c[3] \o (x \o e)
      BY ONLY <1>11, <2>1, <2>3, <2>4, Zenon
    <3> QED
      BY ONLY <3>1, <2>4
  <2>6. PICK y : y = << Sep >> \o u
    OBVIOUS
  <2>7. y \in Text /\ y \o e = << Sep >> \o (u \o e)
    BY ONLY <1>9, <2>5, <2>6
  <2>8. PICK r : r = c[2] \o y
    OBVIOUS
  <2>9. r \in Text /\ r \o e = c[2] \o (y \o e)
    <3>1. c[2] \o y \in Text /\ (c[2] \o y) \o e = c[2] \o (y \o e)
      BY ONLY <1>11, <2>1, <2>7, <2>8, Zenon
    <3> QED
      BY ONLY <3>1, <2>8
  <2>10. PICK z : z = << Sep >> \o r
    OBVIOUS
  <2>11. z \in Text /\ z \o e = << Sep >> \o (r \o e)
    BY ONLY <1>9, <2>9, <2>10
  <2>12. (c[1] \o z) \o e = c[1] \o (z \o e)
    BY ONLY <2>1, <2>11, e \in Text, Regroup
  <2>13. Chain(c) = c[1] \o z
    BY <1>1, <1>14, <2>2, <2>4, <2>6, <2>8, <2>10 DEF Chain
  <2>14. Chain(d) = c[1] \o (<< Sep >> \o (c[2] \o (<< Sep >> \o (c[3] \o (<< Sep >> \o (c[4] \o e))))))
    <3>1. Len(d) # 2 /\ Len(d) # 3
      BY ONLY <1>4, <1>14
    <3>2. Chain(d) = d[1] \o (<< Sep >> \o (d[2] \o (<< Sep >> \o (d[3] \o (<< Sep >> \o d[4])))))
      BY ONLY <3>1 DEF Chain
    <3> QED
      BY ONLY <2>1, <3>2
  <2>15. Chain(d) = Chain(c) \o e
    BY ONLY <2>3, <2>5, <2>7, <2>9, <2>11, <2>12, <2>13, <2>14
  <2> QED
    BY <1>1, <1>4, <1>8, <2>15
<1> QED
  BY ONLY <1>10, <1>12, <1>13, <1>14

(* What may follow a value: nothing, or its NUL and other memory. *)
IsRest(e) == e = << >> \/ \E y \in Text : e = << NUL >> \o y

LEMMA RestText ==
  ASSUME NEW e, IsRest(e)
  PROVE  e \in Text
<1>1. << NUL >> \in Text /\ << >> \in Text
  BY MarkToken, TokenText, EmptyText
<1>2. \A y \in Text : << NUL >> \o y \in Text
  BY <1>1, TextPair
<1> QED
  BY <1>1, <1>2 DEF IsRest

LEMMA StringBefore ==
  ASSUME NEW a \in Text, Free(a, NUL), NEW e, IsRest(e)
  PROVE  CStr(a \o e) = a
<1>1. CASE e = << >>
  BY <1>1, WithEmpty, NoCut DEF CStr
<1>2. ASSUME NEW y \in Text, e = << NUL >> \o y PROVE CStr(a \o e) = a
  <2>1. PICK s : s = a \o (<< NUL >> \o y)
    OBVIOUS
  <2>2. NUL \in Token
    BY MarkToken
  <2>3. Cuts(s, NUL, a, y)
    BY <2>1, <2>2, CutAtFirst
  <2> QED
    BY <1>2, <2>1, <2>3 DEF Cuts, CStr
<1> QED
  BY <1>1, <1>2 DEF IsRest

(* All of the columns are found again, whatever follows the last one. *)
LEMMA ColumnsRead ==
  ASSUME NEW kind \in Kind, NEW c \in Seq(Name), Len(c) = Width(kind), NEW e, IsRest(e),
         NEW l, l = Listed(c) \o e
  PROVE  /\ Columns(kind, l) = c
         /\ l \in Text /\ l # << >>
         /\ ~(Commas(l, Len(l)) < Width(kind) - 1)
<1>1. PICK w : w = Len(c)
  OBVIOUS
<1>2. w \in 2..4 /\ \A i \in 1..w : c[i] \in Name
  BY <1>1, KindWidth
<1>3. \A i \in 1..w : c[i] \in Text /\ Free(c[i], Sep) /\ Free(c[i], NUL)
  BY <1>2, NameText, MarkToken, SepFacts DEF Sep
<1>4. IsColumns(c) /\ e \in Text
  <2>1. \A i \in 1..(w - 1) : i \in 1..w
    BY <1>2
  <2> QED
    BY <1>1, <1>2, <1>3, <2>1, RestText DEF IsColumns
<1>5. PICK d : d = [i \in 1..Len(c) |-> IF i = Len(c) THEN c[i] \o e ELSE c[i]]
  OBVIOUS
<1>6. IsColumns(d) /\ Len(d) = w /\ l = Chain(d)
  <2>1. IsColumns(d) /\ Len(d) = Len(c) /\ Chain(d) = Chain(c) \o e
    BY ONLY <1>4, <1>5, LongerChain
  <2>2. Listed(c) = Chain(c)
    BY ONLY <1>4, ListedChain
  <2> QED
    BY <1>1, <2>1, <2>2
<1>7. IsList(l, d, 1)
  BY <1>6, ChainList
<1>8. Columns(kind, l) = c
  <2>1. Columns(kind, l) = [i \in 1..w |-> CStr(ColumnOf(l, i, w))]
    BY <1>1 DEF Columns, ColumnOf
  <2>2. Len(d) - 1 + 1 = w
    BY <1>2, <1>6
  <2>3. ASSUME NEW i \in 1..w PROVE CStr(ColumnOf(l, i, w)) = c[i]
    <3>1. 1 + i - 1 = i
      BY <1>2
    <3>2. ColumnOf(l, i, w) = d[i]
      BY <1>7, <2>2, <3>1 DEF IsList
    <3>3. d[i] = IF i = w THEN c[i] \o e ELSE c[i]
      BY <1>1, <1>5
    <3>4. CStr(c[i]) = c[i] /\ CStr(c[i] \o e) = c[i]
      BY <1>3, StringBefore, NoCut DEF CStr
    <3> QED
      BY <3>2, <3>3, <3>4
  <2>4. Columns(kind, l) = [i \in 1..w |-> c[i]]
    BY <2>1, <2>3
  <2>5. c = [i \in 1..w |-> c[i]]
    BY <1>1
  <2> QED
    BY <2>4, <2>5
<1>9. l \in Text /\ Commas(l, Len(l)) \in Nat /\ w - 1 <= Commas(l, Len(l))
  BY <1>6, <1>7 DEF IsList
<1>10. ASSUME l = << >> PROVE FALSE
  <2>1. Commas(l, 0) = 0 /\ Len(l) = 0
    BY <1>9, <1>10, SepCount
  <2>2. w - 1 <= 0
    BY <1>9, <2>1
  <2> QED
    BY <1>2, <2>2
<1>11. ~(Commas(l, Len(l)) < w - 1)
  <2>1. PICK n : n = Commas(l, Len(l))
    OBVIOUS
  <2>2. n \in Nat /\ w - 1 <= n
    BY <1>9, <2>1
  <2> QED
    BY <1>2, <2>1, <2>2
<1> QED
  BY <1>1, <1>8, <1>9, <1>10, <1>11

(* A clause, with its "where=". *)
LEMMA ClauseRead ==
  ASSUME NEW w \in Seq(Token \ (Escapes \union {NUL})), NEW x, x = << "where", "=" >> \o Escaped(w)
  PROVE  /\ x \in Text /\ Free(x, NUL)
         /\ IsPrefix(<< "where", "=" >>, x)
         /\ Decoded(x) = << "where", "=" >> \o w
<1>1. PICK h : h = << "where", "=" >>
  OBVIOUS
<1>2. PICK e : e = Escaped(w)
  OBVIOUS
<1>3. "where" \in Token /\ "where" # NUL /\ "=" \in Token /\ "=" # NUL
  BY UriParamsAssumption DEF Where, Token, Mark, NUL
<1>4. /\ h \in Text /\ Free(h, NUL) /\ Len(h) = 2
      /\ \A i \in 1..Len(h) : CharOf(h[i]) = h[i]
  <2>1. CharOf("where") = "where" /\ CharOf("=") = "="
    BY DEF CharOf
  <2>2. h \in Text /\ Len(h) = 2 /\ h[1] = "where" /\ h[2] = "="
    BY <1>1, <1>3 DEF Text
  <2>3. \A i \in 1..Len(h) : i = 1 \/ i = 2
    BY <2>2
  <2>4. Free(h, NUL)
    BY <1>3, <2>2, <2>3 DEF Free
  <2> QED
    BY <2>1, <2>2, <2>3, <2>4
<1>5. e \in Text /\ Free(e, NUL) /\ Decoded(e) = w
  BY <1>2, EscapedForm
<1>6. x = h \o e
  BY <1>1, <1>2
<1>7. x \in Text /\ Len(x) = Len(h) + Len(e) /\ SubSeq(x, 1, Len(h)) = h
  BY ONLY <1>4, <1>5, <1>6, Halves
<1>8. Free(x, NUL)
  BY <1>4, <1>5, <1>6, FreePair
<1>9. IsPrefix(h, x)
  <2>1. PICK n : n = << >>
    OBVIOUS
  <2>2. SubSeq(h, 1, Len(h)) = h
    <3>1. h \in Text /\ n \in Text /\ h = h \o n
      BY <1>4, <2>1, EmptyText, WithEmpty
    <3> QED
      BY ONLY <3>1, Halves
  <2>3. Len(h) <= Len(x)
    <3>1. Len(e) \in Nat
      BY <1>5 DEF Text
    <3> QED
      BY <1>4, <1>7, <3>1
  <2> QED
    BY <1>7, <2>2, <2>3 DEF IsPrefix
<1>10. Decoded(x) = h \o w
  <2>1. PICK d : d = Decoded(x)
    OBVIOUS
  <2>2. d \in Text /\ Len(d) = Len(x) /\ \A i \in 1..Len(x) : d[i] = CharOf(x[i])
    BY <1>7, <2>1, DecodedType
  <2>3. w \in Text /\ Len(w) = Len(e) /\ \A i \in 1..Len(e) : w[i] = CharOf(e[i])
    BY <1>5, DecodedType
  <2>4. PICK s : s = h \o w
    OBVIOUS
  <2>5. /\ s \in Text /\ Len(s) = Len(h) + Len(w)
        /\ \A i \in 1..(Len(h) + Len(w)) : s[i] = IF i <= Len(h) THEN h[i] ELSE w[i - Len(h)]
    BY <1>4, <2>3, <2>4, TextPair
  <2>6. \A i \in 1..(Len(h) + Len(e)) : x[i] = IF i <= Len(h) THEN h[i] ELSE e[i - Len(h)]
    <3>1. h \in Text /\ e \in Text
      BY <1>4, <1>5
    <3> QED
      BY ONLY <1>6, <3>1, TextPair
  <2>7. Len(h) \in Nat /\ Len(e) \in Nat
    BY <1>4, <1>5 DEF Text
  <2>8. ASSUME NEW i \in 1..Len(d) PROVE d[i] = s[i]
    <3>1. i \in 1..(Len(h) + Len(e)) /\ i \in 1..(Len(h) + Len(w)) /\ d[i] = CharOf(x[i])
      BY <1>7, <2>2, <2>3
    <3>2. CASE i <= Len(h)
      <4>1. x[i] = h[i] /\ s[i] = h[i] /\ i \in 1..Len(h)
        BY ONLY <2>5, <2>6, <2>7, <3>1, <3>2
      <4> QED
        BY <1>4, <3>1, <4>1
    <3>3. CASE ~(i <= Len(h))
      <4>1. x[i] = e[i - Len(h)] /\ s[i] = w[i - Len(h)] /\ i - Len(h) \in 1..Len(e)
        BY ONLY <2>5, <2>6, <2>7, <3>1, <3>3
      <4> QED
        BY <2>3, <3>1, <4>1
    <3> QED
      BY <3>2, <3>3
  <2>9. Len(d) = Len(s)
    BY <1>7, <2>2, <2>3, <2>5
  <2>10. d = s
    BY <2>2, <2>5, <2>8, <2>9, SameText
  <2> QED
    BY <2>1, <2>4, <2>10
<1> QED
  BY <1>1, <1>7, <1>8, <1>9, <1>10

(* What the code sees in the value of a table's parameter with e behind it. *)
SeenTable(t, v, e) ==
  /\ t.table \in Word /\ v \in Text /\ IsRest(e)
  /\ \/ v = << t.table >> \o e /\ t.cols = None /\ t.where = None
     \/ Cuts(v, ":", << t.table >>, ListedCols(t) \o e) /\ t.cols # None /\ t.where = None
     \/ \E x, w : /\ t.where = Some(w) /\ w \in Seq(Token \ (Escapes \union {NUL}))
                  /\ x = << "where", "=" >> \o Escaped(w)
                  /\ Cuts(v, ":", << t.table >>, ListedCols(t) \o (<< ":" >> \o (x \o e)))
                  /\ Cuts(ListedCols(t) \o (<< ":" >> \o (x \o e)), ":", ListedCols(t), x \o e)

LEMMA TableSeen ==
  ASSUME NEW kind \in Kind, NEW t, IsTable(kind, t), NEW e, IsRest(e), NEW v, v = Written(t) \o e
  PROVE  SeenTable(t, v, e)
<1>1. PICK n : n = << t.table >>
  OBVIOUS
<1>2. v \in Text /\ e \in Text
  BY WrittenForm, RestText, TextPair
<1>3. /\ t.table \in Word /\ n \in Text /\ Free(n, ":")
      /\ ":" \in Token /\ << ":" >> \in Text
  BY <1>1, MarkToken, TokenText, FreeToken DEF IsTable
<1>4. PICK l : l = ListedCols(t)
  OBVIOUS
<1>5. l \in Text /\ Free(l, ":")
  BY <1>4, MarkToken, ListedColsForm DEF Columnar
<1>6. PICK a : a = AndClause(t)
  OBVIOUS
<1>7. a \in Text
  BY <1>6, ClauseForm
<1>8. CASE t.cols = None /\ t.where = None
  <2>1. Written(t) = n
    <3>1. Written(t) = n \o << >>
      BY <1>1, <1>8 DEF Written
    <3> QED
      BY <1>3, <3>1, WithEmpty
  <2> QED
    BY <1>1, <1>2, <1>3, <1>8, <2>1 DEF SeenTable
<1>9. ASSUME ~(t.cols = None /\ t.where = None)
      PROVE  v = n \o (<< ":" >> \o (l \o (a \o e))) /\ a \o e \in Text
  <2>1. PICK r : r = l \o a
    OBVIOUS
  <2>2. r \in Text /\ r \o e = l \o (a \o e) /\ a \o e \in Text
    <3>1. l \o a \in Text /\ a \o e \in Text /\ (l \o a) \o e = l \o (a \o e)
      <4>1. \A x, y \in Text : x \o y \in Text /\ (x \o y) \o e = x \o (y \o e)
        BY <1>2, GoesOn
      <4>2. a \o e \in Text
        BY ONLY <1>2, <1>7, GoesOn
      <4> QED
        BY ONLY <1>5, <1>7, <4>1, <4>2, Zenon
    <3> QED
      BY ONLY <2>1, <3>1
  <2>3. PICK b : b = << ":" >> \o r
    OBVIOUS
  <2>4. b \in Text /\ b \o e = << ":" >> \o (r \o e)
    <3>1. << ":" >> \o r \in Text /\ (<< ":" >> \o r) \o e = << ":" >> \o (r \o e)
      <4>1. \A x, y \in Text : x \o y \in Text /\ (x \o y) \o e = x \o (y \o e)
        BY <1>2, GoesOn
      <4> QED
        BY ONLY <1>3, <2>2, <4>1, Zenon
    <3> QED
      BY ONLY <2>3, <3>1
  <2>5. Written(t) = n \o b
    BY <1>1, <1>4, <1>6, <1>9, <2>1, <2>3 DEF Written
  <2>6. (n \o b) \o e = n \o (b \o e)
    BY <1>2, <1>3, <2>4, Regroup
  <2> QED
    BY <2>2, <2>4, <2>5, <2>6
<1>10. CASE t.cols # None /\ t.where = None
  <2>1. a \o e = e
    <3>1. a = << >>
      BY <1>6, <1>10, ClauseForm
    <3> QED
      BY <1>2, <3>1, WithEmpty
  <2>2. PICK r : r = l \o e
    OBVIOUS
  <2>3. r \in Text /\ v = n \o (<< ":" >> \o r)
    BY <1>2, <1>5, <1>9, <1>10, <2>1, <2>2, TextPair
  <2>4. Cuts(v, ":", n, r)
    BY ONLY <1>3, <2>3, CutAtFirst
  <2> QED
    BY <1>1, <1>2, <1>3, <1>4, <1>10, <2>2, <2>4 DEF SeenTable
<1>11. CASE t.where # None
  <2>1. PICK w : t.where = Some(w) /\ w \in Seq(Token \ (Escapes \union {NUL}))
    BY <1>11, OptionCases DEF IsTable
  <2>2. PICK x : x = << "where", "=" >> \o Escaped(w)
    OBVIOUS
  <2>3. x \in Text
    BY <2>1, <2>2, ClauseRead
  <2>4. a = << ":" >> \o x
    BY <1>6, <2>1, <2>2, ClauseForm
  <2>5. PICK y : y = x \o e
    OBVIOUS
  <2>6. y \in Text /\ a \o e = << ":" >> \o y
    <3>1. x \o e \in Text /\ (<< ":" >> \o x) \o e = << ":" >> \o (x \o e)
      BY ONLY <1>2, <1>3, <2>3, GoesOn
    <3> QED
      BY ONLY <2>4, <2>5, <3>1
  <2>7. PICK r : r = l \o (<< ":" >> \o y)
    OBVIOUS
  <2>8. r \in Text /\ v = n \o (<< ":" >> \o r)
    BY <1>3, <1>5, <1>9, <1>11, <2>6, <2>7, TextPair
  <2>9. Cuts(v, ":", n, r)
    BY ONLY <1>3, <2>8, CutAtFirst
  <2>10. Cuts(r, ":", l, y)
    BY ONLY <1>3, <1>5, <2>6, <2>7, CutAtFirst
  <2> QED
    BY <1>1, <1>2, <1>3, <1>4, <2>1, <2>2, <2>5, <2>7, <2>9, <2>10 DEF SeenTable
<1> QED
  BY <1>8, <1>10, <1>11

(* A name alone and the NUL behind it, and less of the memory. *)
LEMMA NameBefore ==
  ASSUME NEW s \in Text, Len(s) >= 2, s[1] # NUL, s[2] = NUL
  PROVE  CStr(s) = << s[1] >>
<1>1. Len(s) \in Nat
  BY DEF Text
<1>2. 2 \in 1..Len(s) /\ 1 \in 1..Len(s) /\ \A j \in 1..(2 - 1) : j = 1
  BY <1>1
<1>3. Find(s, NUL) = 2
  BY <1>2, FoundAt
<1>4. PICK b : b = Before(s, NUL)
  OBVIOUS
<1>5. b \in Text /\ Len(b) = 1 /\ b[1] = s[1]
  <2>1. IsCut(s, NUL) /\ Has(s, NUL)
    BY <1>3, Parts DEF Has
  <2>2. b \in Text /\ Len(b) = 2 - 1
    BY <1>3, <1>4, <2>1 DEF IsCut
  <2>3. 1 \in 1..Len(b)
    BY <2>2
  <2> QED
    BY <1>4, <2>1, <2>2, <2>3 DEF IsCut
<1>6. PICK n : n = << s[1] >>
  OBVIOUS
<1>7. n \in Text /\ Len(n) = 1 /\ n[1] = s[1]
  <2>1. s[1] \in Token
    BY <1>2 DEF Text
  <2> QED
    BY <1>6, <2>1, TokenText
<1>8. b = n
  BY <1>5, <1>7, SameText
<1> QED
  BY <1>4, <1>6, <1>8 DEF CStr

LEMMA ShortenedRest ==
  ASSUME NEW x \in Word, NEW y \in Text, NEW v, v = << x >> \o (<< NUL >> \o y)
  PROVE  ~IsShort(v) /\ CStr(LessOne(v)) = << x >> /\ CStr(v) = << x >>
<1>1. x \in Token /\ x # NUL /\ NUL \in Token /\ NUL \in Mark
  BY MarkToken
<1>2. PICK n : n = << x >>
  OBVIOUS
<1>3. PICK e : e = << NUL >> \o y
  OBVIOUS
<1>4. n \in Text /\ Len(n) = 1 /\ n[1] = x /\ Free(n, NUL) /\ IsRest(e) /\ << NUL >> \in Text
  BY <1>1, <1>2, <1>3, TokenText, FreeToken DEF IsRest
<1>5. Len(y) \in Nat
  BY DEF Text
<1>6. IsJoin(v, n, NUL, y)
  BY <1>1, <1>2, <1>4, Joining
<1>7. v \in Text /\ Len(v) = 2 + Len(y) /\ v[1] = x /\ v[2] = NUL
  <2>1. 1 \in 1..Len(n) /\ Len(n) + 1 = 2 /\ Len(n) + 1 + Len(y) = 2 + Len(y)
    BY <1>4, <1>5
  <2> QED
    BY <1>4, <1>6, <2>1 DEF IsJoin
<1>8. CStr(v) = n
  BY <1>2, <1>3, <1>4, StringBefore
<1>9. ~IsShort(v)
  <2>1. Len(v) # 1 /\ v # << >>
    BY <1>5, <1>7, EmptyText
  <2> QED
    BY <2>1 DEF IsShort
<1>10. PICK z : z = Front(v)
  OBVIOUS
<1>11. z \in Text /\ Len(z) = 1 + Len(y) /\ \A i \in 1..(1 + Len(y)) : z[i] = v[i]
  <2>1. /\ 1 \in 1..(Len(v) + 1) /\ Len(v) - 1 \in (1 - 1)..Len(v) /\ (Len(v) - 1) - 1 + 1 = 1 + Len(y)
        /\ \A i \in 1..(1 + Len(y)) : 1 + i - 1 = i
    BY <1>5, <1>7
  <2>2. z = SubSeq(v, 1, Len(v) - 1)
    BY <1>10 DEF Front
  <2>3. /\ z \in Text /\ Len(z) = (Len(v) - 1) - 1 + 1
        /\ \A i \in 1..((Len(v) - 1) - 1 + 1) : z[i] = v[1 + i - 1]
    BY <1>7, <2>1, <2>2, Piece
  <2> QED
    BY <2>1, <2>3
<1>12. CASE Len(y) = 0
  <2>1. Last(v) = NUL
    BY <1>7, <1>12 DEF Last
  <2>2. LessOne(v) = z
    BY <1>1, <1>10, <2>1 DEF LessOne
  <2>3. z = n
    <3>1. Len(z) = 1 /\ z[1] = x
      BY <1>7, <1>11, <1>12
    <3>2. \A i \in 1..Len(z) : z[i] = n[i]
      BY <1>4, <3>1
    <3> QED
      BY <1>4, <1>11, <3>1, <3>2, SameText
  <2> QED
    BY <1>2, <1>4, <1>8, <1>9, <2>2, <2>3, NoCut DEF CStr
<1>13. CASE Len(y) # 0
  <2>1. Len(z) >= 2 /\ 1 \in 1..(1 + Len(y)) /\ 2 \in 1..(1 + Len(y)) /\ 1 \in 1..Len(z) /\ 2 \in 1..Len(z)
    BY <1>5, <1>11, <1>13
  <2>2. z[1] = x /\ z[2] = NUL
    BY <1>7, <1>11, <2>1
  <2>3. PICK u : u = LessOne(v)
    OBVIOUS
  <2>4. u \in Text
    BY <1>7, <1>9, <2>3, LessOneType
  <2>5. u = z \/ \E c : u = Append(z, c)
    BY <1>10, <2>3 DEF LessOne
  <2>6. Len(u) >= 2 /\ u[1] = x /\ u[2] = NUL
    <3>1. CASE u = z
      BY <2>1, <2>2, <3>1
    <3>2. ASSUME NEW c, u = Append(z, c) PROVE Len(u) >= 2 /\ u[1] = x /\ u[2] = NUL
      <4>1. Len(u) = Len(z) + 1 /\ \A i \in 1..Len(z) : u[i] = z[i]
        BY <1>11, <3>2 DEF Text
      <4> QED
        BY <2>1, <2>2, <4>1
    <3> QED
      BY <2>5, <3>1, <3>2
  <2>7. CStr(u) = << u[1] >>
    BY <1>1, <2>4, <2>6, NameBefore
  <2> QED
    BY <1>2, <1>8, <1>9, <2>3, <2>6, <2>7
<1> QED
  BY <1>12, <1>13

(* The parts of the value, as the code cuts them out. *)
TakenTable(kind, t, v, name) ==
  /\ ~IsShort(v)
  /\ TableName(kind, v) = name
  /\ t.cols = None => ColPart(v) = << >>
  /\ \A c : t.cols = Some(c) =>
       /\ ColPart(v) # << >> /\ ~(Commas(ColPart(v), Len(ColPart(v))) < Width(kind) - 1)
       /\ Columns(kind, ColPart(v)) = c
  /\ t.where = None => ~HasWhere(v)
  /\ \A w : t.where = Some(w) => /\ HasWhere(v) /\ IsPrefix(<< "where", "=" >>, WherePart(v))
                                 /\ Decoded(WherePart(v)) = << "where", "=" >> \o w

(* A name that stands alone. *)
LEMMA NameTaken ==
  ASSUME NEW kind \in Kind, NEW t, t.table \in Word, t.cols = None, t.where = None,
         NEW e, IsRest(e), Free(e, ":"), NEW v, v = << t.table >> \o e,
         e = << >> => t.table \notin OneChar
  PROVE  TakenTable(kind, t, v, IF e = << >> /\ kind = "map" THEN << Clipped[t.table] >> ELSE << t.table >>)
<1>1. PICK n : n = << t.table >>
  OBVIOUS
<1>2. /\ t.table \in Token /\ t.table # NUL /\ t.table # ":" /\ t.table \notin Mark
      /\ NUL \in Mark
  BY MarkToken
<1>3. n \in Text /\ Len(n) = 1 /\ n[1] = t.table /\ Free(n, NUL) /\ Free(n, ":")
  BY <1>1, <1>2, TokenText, FreeToken
<1>4. e \in Text /\ v \in Text /\ Free(v, ":")
  BY <1>1, <1>3, RestText, TextPair, FreePair
<1>5. ~Has(v, ":")
  BY <1>4, NoCut
<1>6. ColPart(v) = << >> /\ ~HasWhere(v)
  BY <1>5 DEF ColPart, HasWhere
<1>7. (\A c : t.cols # Some(c)) /\ (\A w : t.where # Some(w))
  BY OrSome
<1>8. CASE e = << >>
  <2>1. v = n
    BY <1>1, <1>3, <1>8, WithEmpty
  <2>2. v # << >>
    BY <1>3, <2>1, EmptyText
  <2>3. ~IsShort(v)
    BY <1>2, <1>3, <1>8, <2>1, <2>2 DEF IsShort
  <2>4. CASE kind # "map"
    <3>1. TableName(kind, v) = n
      BY <1>3, <1>5, <2>1, <2>4, NoCut DEF TableName, CStr
    <3> QED
      BY <1>1, <1>6, <1>7, <2>3, <2>4, <3>1 DEF TakenTable
  <2>5. CASE kind = "map"
    <3>1. PICK c : c = Clipped[t.table]
      OBVIOUS
    <3>2. c \in Word /\ c \in Token /\ c # NUL
      BY <1>8, <3>1, UriParamsAssumption, MarkToken
    <3>3. Last(v) = t.table
      BY <1>3, <2>1 DEF Last
    <3>4. Front(v) = << >>
      <4>1. Len(v) = 1 /\ 1 - 1 = 0
        <5>1. Len(v) = Len(n)
          BY ONLY <2>1
        <5> QED
          BY ONLY <1>3, <5>1
      <4>2. Front(v) = SubSeq(v, 1, 0)
        BY ONLY <4>1 DEF Front
      <4> QED
        BY <1>4, <4>2, SubSeqEmpty
    <3>5. LessOne(v) = << c >>
      BY <1>2, <1>8, <3>1, <3>3, <3>4 DEF LessOne
    <3>6. CStr(<< c >>) = << c >>
      BY <3>2, TokenText, FreeToken, NoCut DEF CStr
    <3>7. TableName(kind, v) = << c >>
      BY <1>5, <2>5, <3>5, <3>6 DEF TableName
    <3> QED
      BY <1>6, <1>7, <1>8, <2>3, <2>5, <3>1, <3>7 DEF TakenTable
  <2> QED
    BY <2>4, <2>5
<1>9. CASE e # << >>
  <2>1. PICK y \in Text : e = << NUL >> \o y
    BY <1>9 DEF IsRest
  <2>2. ~IsShort(v) /\ CStr(LessOne(v)) = n /\ CStr(v) = n
    BY <1>1, <2>1, ShortenedRest
  <2>3. TableName(kind, v) = n
    BY <1>5, <2>2 DEF TableName
  <2> QED
    BY <1>1, <1>6, <1>7, <1>9, <2>2, <2>3 DEF TakenTable
<1> QED
  BY <1>8, <1>9

(* A name with columns or a clause behind it. *)
LEMMA PartsTaken ==
  ASSUME NEW kind \in Kind, NEW t, IsTable(kind, t), NEW v, NEW e, SeenTable(t, v, e),
         t.cols # None \/ t.where # None, t.where = None => Free(e, ":")
  PROVE  TakenTable(kind, t, v, << t.table >>)
<1>1. PICK n : n = << t.table >>
  OBVIOUS
<1>2. t.table \in Token /\ t.table # NUL /\ t.table # ":" /\ t.table \notin Mark /\ NUL \in Mark
  BY MarkToken DEF SeenTable
<1>3. n \in Text /\ Len(n) = 1 /\ n[1] = t.table /\ Free(n, NUL) /\ Free(n, ":")
  BY <1>1, <1>2, TokenText, FreeToken
<1>4. CStr(n) = n
  BY <1>3, NoCut DEF CStr
<1>5. PICK l : l = ListedCols(t)
  OBVIOUS
<1>6. IsRest(e) /\ e \in Text
  BY RestText DEF SeenTable
<1>7. ASSUME NEW r, Cuts(v, ":", n, r) PROVE ~IsShort(v) /\ TableName(kind, v) = n /\ After(v, ":") = r /\ Has(v, ":")
  <2>1. Has(v, ":") /\ Find(v, ":") = 2 /\ Before(v, ":") = n /\ After(v, ":") = r
    BY <1>3, <1>7 DEF Cuts
  <2>2. v \in Text
    BY DEF SeenTable
  <2>3. Find(v, ":") \in 0..Len(v)
    BY <2>2, FindProperties
  <2>4. Len(v) \in Nat
    BY <2>2 DEF Text
  <2>5. Len(v) # 1 /\ v # << >>
    <3>1. 2 \in 0..Len(v)
      BY ONLY <2>1, <2>3
    <3>2. \A i \in Nat : 2 \in 0..i => i # 1 /\ i # 0
      OBVIOUS
    <3>3. Len(v) # 1 /\ Len(v) # 0
      BY ONLY <2>4, <3>1, <3>2, Zenon
    <3> QED
      BY <3>3
  <2> QED
    BY <1>4, <2>1, <2>5 DEF IsShort, TableName
<1>8. ASSUME Cuts(v, ":", n, l \o e), t.cols # None, t.where = None
      PROVE  TakenTable(kind, t, v, n)
  <2>1. PICK c : t.cols = Some(c) /\ c \in Seq(Name) /\ Len(c) = Width(kind)
    BY <1>8, OptionCases DEF IsTable
  <2>2. l = Listed(c)
    BY <1>5, <2>1, ListedColsForm
  <2>3. PICK s : s = l \o e
    OBVIOUS
  <2>4. /\ Columns(kind, s) = c /\ s \in Text /\ s # << >>
        /\ ~(Commas(s, Len(s)) < Width(kind) - 1)
    BY <1>6, <2>1, <2>2, <2>3, ColumnsRead
  <2>5. Free(s, ":")
    <3>1. l \in Text /\ Free(l, ":")
      BY <1>5, MarkToken, ListedColsForm DEF Columnar
    <3> QED
      BY <1>6, <1>8, <2>3, <3>1, FreePair
  <2>6. ~Has(s, ":")
    BY <2>4, <2>5, NoCut
  <2>7. ColPart(v) = s /\ ~HasWhere(v)
    BY <1>7, <1>8, <2>3, <2>6 DEF ColPart, HasWhere, Before
  <2>8. (\A d : t.cols = Some(d) => d = c) /\ (\A w : t.where # Some(w))
    BY <1>8, <2>1, OrSome DEF Some
  <2>9. ~IsShort(v) /\ TableName(kind, v) = n
    BY <1>7, <1>8
  <2> QED
    BY <1>8, <2>4, <2>7, <2>8, <2>9 DEF TakenTable
<1>9. ASSUME NEW x, NEW w, NEW r, t.where = Some(w), w \in Seq(Token \ (Escapes \union {NUL})),
             x = << "where", "=" >> \o Escaped(w), Cuts(v, ":", n, r), Cuts(r, ":", l, x \o e)
      PROVE  TakenTable(kind, t, v, n)
  <2>1. After(v, ":") = r /\ Has(v, ":")
    BY <1>7, <1>9
  <2>2. Has(r, ":") /\ Before(r, ":") = l /\ After(r, ":") = x \o e
    BY <1>9 DEF Cuts
  <2>3. ColPart(v) = l /\ HasWhere(v)
    BY <2>1, <2>2 DEF ColPart, HasWhere
  <2>4. /\ x \in Text /\ Free(x, NUL)
        /\ IsPrefix(<< "where", "=" >>, x)
        /\ Decoded(x) = << "where", "=" >> \o w
    BY <1>9, ClauseRead
  <2>5. WherePart(v) = x
    BY <1>6, <2>1, <2>2, <2>4, StringBefore DEF WherePart
  <2>6. t.where # None /\ \A y : t.where = Some(y) => y = w
    BY <1>9, OrSome DEF Some
  <2>7. ~IsShort(v) /\ TableName(kind, v) = n
    BY <1>7, <1>9
  <2>8. t.cols = None => l = << >>
    BY <1>5 DEF ListedCols
  <2>9. ASSUME NEW c, t.cols = Some(c)
        PROVE  /\ l # << >> /\ ~(Commas(l, Len(l)) < Width(kind) - 1)
               /\ Columns(kind, l) = c
    <3>1. c \in Seq(Name) /\ Len(c) = Width(kind)
      <4>1. PICK d : t.cols = Some(d) /\ d \in Seq(Name) /\ Len(d) = Width(kind)
        BY <2>9, OptionCases, OrSome DEF IsTable
      <4> QED
        BY <2>9, <4>1 DEF Some
    <3>2. l = Listed(c) /\ l \in Text
      BY <1>5, <2>9, ListedColsForm DEF Columnar
    <3>3. PICK z : z = << >>
      OBVIOUS
    <3>4. IsRest(z) /\ l = Listed(c) \o z
      BY <3>2, <3>3, WithEmpty DEF IsRest
    <3> QED
      BY <3>1, <3>4, ColumnsRead
  <2> QED
    BY <2>3, <2>4, <2>5, <2>6, <2>7, <2>8, <2>9 DEF TakenTable
<1>10. \/ Cuts(v, ":", n, l \o e) /\ t.cols # None /\ t.where = None
       \/ \E x, w, r : /\ t.where = Some(w) /\ w \in Seq(Token \ (Escapes \union {NUL}))
                       /\ x = << "where", "=" >> \o Escaped(w)
                       /\ Cuts(v, ":", n, r) /\ Cuts(r, ":", l, x \o e)
  BY <1>1, <1>5 DEF SeenTable
<1> QED
  BY <1>1, <1>8, <1>9, <1>10

(* The value of a table's parameter: what was written, and behind the last   *)
(* one of several what the memory holds.                                     *)
ValueOf(f, kind, t, e) ==
  /\ IsRest(e) /\ Value(kind) = Some(Written(t) \o e)
  /\ e = << >> <=> ~RunsOn(f, kind)
  /\ ~Overread(f, kind) /\ t.where = None => Free(e, ":")

LEMMA TableItem ==
  ASSUME NEW f \in Forms, Taken(f), NEW kind \in Kind, NEW t, f[kind] = Some(t), IsTable(kind, t)
  PROVE  \E e : ValueOf(f, kind, t, e)
<1>1. PICK w : w = Written(t)
  OBVIOUS
<1>2. w \in Text /\ Free(w, NUL)
  BY <1>1, WrittenForm
<1>3. Item(f, kind) = Some(w)
  BY <1>1 DEF Item, Kind, Some
<1>4. PICK j \in 1..5 : KeyNo[j] = kind
  BY DEF KeyNo, Kind
<1>5. RunsOn(f, kind) <=> LastOfSeveral(f, j)
  BY <1>4, KeyFacts DEF RunsOn
<1>6. TakenItem(f, j)
  BY DEF Taken
<1>7. CASE ~RunsOn(f, kind)
  <2>1. Value(kind) = Some(w)
    BY <1>3, <1>4, <1>5, <1>6, <1>7 DEF TakenItem
  <2>2. PICK e : e = << >>
    OBVIOUS
  <2>3. IsRest(e) /\ w \o e = w /\ Free(e, ":")
    BY <1>2, <2>2, WithEmpty, FreeEmpty DEF IsRest
  <2> QED
    BY <1>1, <1>7, <2>1, <2>2, <2>3 DEF ValueOf
<1>8. CASE RunsOn(f, kind)
  <2>1. PICK y \in Text : Value(kind) = Some(w \o (<< NUL >> \o y))
    <3>1. PICK x, y \in Text : Some(w) = Some(x) /\ Value(kind) = Some(x \o (<< NUL >> \o y))
      BY <1>3, <1>4, <1>5, <1>6, <1>8 DEF TakenItem
    <3> QED
      BY <3>1 DEF Some
  <2>2. PICK e : e = << NUL >> \o y
    OBVIOUS
  <2>3. NUL \in Token /\ << NUL >> \in Text /\ Free(<< NUL >>, ":")
    BY MarkToken, TokenText, FreeToken DEF NUL
  <2>4. IsRest(e) /\ e # << >>
    BY <2>2, <2>3, TailOf DEF IsRest
  <2>5. ASSUME ~Overread(f, kind), t.where = None PROVE Free(e, ":")
    <3>1. PICK v : v = w \o (<< NUL >> \o y)
      OBVIOUS
    <3>2. Cuts(v, NUL, w, y)
      BY <1>2, <2>3, <3>1, CutAtFirst
    <3>3. After(v, NUL) = y /\ v \in Value(kind)
      BY <2>1, <3>1, <3>2 DEF Cuts, Some
    <3>4. \A u \in f[kind] : u.where = None
      BY <2>5 DEF Some
    <3>5. ~Has(y, ":")
      BY <1>8, <2>5, <3>3, <3>4 DEF Overread
    <3>6. Free(y, ":")
      BY <3>5, Parts DEF IsCut
    <3> QED
      BY <2>2, <2>3, <3>6, FreePair
  <2> QED
    BY <1>1, <1>8, <2>1, <2>2, <2>4, <2>5 DEF ValueOf
<1> QED
  BY <1>7, <1>8

(* What a form says of a table is what its parameter sets. *)
LEMMA TableSaid ==
  ASSUME NEW f \in Forms, Taken(f), NEW kind \in Kind, ~Overread(f, kind),
         NEW v, v = Or(Value(kind), <<>>)
  PROVE  /\ IsShort(v) \/ ~BadFormat(kind, v)
         /\ Named(kind, Parsed(kind, v)) = Says(f, kind)
<1>1. IsForm(f)
  BY FormsAssumption
<1>2. ASSUME IsShort(v)
      PROVE  Named(kind, Parsed(kind, v)) = Defaults[kind]
  <2>1. Parsed(kind, v) = [table |-> None, cols |-> None, where |-> None]
    BY <1>2 DEF Parsed
  <2>2. Named(kind, Parsed(kind, v)) = [table |-> Defaults[kind].table, cols |-> Defaults[kind].cols,
                                        where |-> Defaults[kind].where]
    BY <2>1, OrSome DEF Named, Reset
  <2>3. Defaults[kind] = [table |-> Defaults[kind].table, cols |-> Defaults[kind].cols,
                          where |-> Defaults[kind].where]
    BY DEF Defaults, Kind
  <2> QED
    BY <2>2, <2>3
<1>3. CASE f[kind] = None
  <2>1. Item(f, kind) = None
    BY <1>3 DEF Item, Kind, None
  <2>2. PICK j \in 1..5 : KeyNo[j] = kind
    BY DEF KeyNo, Kind
  <2>3. Value(kind) = None
    BY <2>1, <2>2 DEF Taken, TakenItem, LastOfSeveral
  <2>4. v = << >>
    BY <2>3, OrSome
  <2> QED
    BY <1>2, <1>3, <2>4 DEF IsShort, Says
<1>4. CASE f[kind] # None
  <2>1. PICK t : f[kind] = Some(t) /\ IsTable(kind, t)
    BY <1>1, <1>4 DEF IsForm, Some
  <2>2. PICK e : ValueOf(f, kind, t, e)
    BY <2>1, TableItem
  <2>3. IsRest(e) /\ v = Written(t) \o e /\ (t.where = None => Free(e, ":")) /\ (e = << >> <=> ~RunsOn(f, kind))
    BY <2>2, OrSome DEF ValueOf
  <2>4. SeenTable(t, v, e)
    BY <2>1, <2>3, TableSeen
  <2>5. Or(f[kind], <<>>) = t
    BY <2>1, OrSome
  <2>6. Says(f, kind) =
          [table |-> NamedTable(f, kind, t),
           cols |-> IF t.cols = None THEN Defaults[kind].cols ELSE Or(t.cols, <<>>),
           where |-> {<<"where", "=">> \o x : x \in t.where}]
    BY <1>4, <2>5 DEF Says
  <2>7. PICK n : n = NamedTable(f, kind, t)
    OBVIOUS
  <2>8. CASE t.cols = None /\ t.where = None /\ e = << >> /\ t.table \in OneChar
    <3>1. v = << t.table >>
      <4>1. v = << t.table >> \o e
        <5>1. \A w : t.where # Some(w)
          BY <2>8, OrSome
        <5> QED
          BY <2>4, <2>8, <5>1 DEF SeenTable
      <4>2. << t.table >> \in Text
        BY <2>1, TokenText, MarkToken DEF IsTable
      <4> QED
        BY <2>8, <4>1, <4>2, WithEmpty
    <3>2. IsShort(v)
      BY <2>8, <3>1 DEF IsShort
    <3>3. n = Defaults[kind].table
      BY <2>3, <2>7, <2>8 DEF NamedTable
    <3>4. {<<"where", "=">> \o x : x \in t.where} = None /\ Defaults[kind].where = None
      BY <2>8, KindWidth DEF None
    <3>5. Defaults[kind] = [table |-> Defaults[kind].table, cols |-> Defaults[kind].cols,
                            where |-> Defaults[kind].where]
      BY DEF Defaults, Kind
    <3>6. Says(f, kind) = Defaults[kind]
      BY <2>6, <2>7, <2>8, <3>3, <3>4, <3>5
    <3> QED
      BY <1>2, <3>2, <3>6
  <2>9. CASE ~(t.cols = None /\ t.where = None /\ e = << >> /\ t.table \in OneChar)
    <3>1. TakenTable(kind, t, v, n)
      <4>1. CASE t.cols = None /\ t.where = None
        <5>1. n = IF e = << >> /\ kind = "map" THEN << Clipped[t.table] >> ELSE << t.table >>
          BY <2>3, <2>7, <2>9, <4>1 DEF NamedTable
        <5>2. v = << t.table >> \o e /\ t.table \in Word /\ Free(e, ":")
          <6>1. \A w : t.where # Some(w)
            BY <4>1, OrSome
          <6> QED
            BY <2>3, <2>4, <4>1, <6>1 DEF SeenTable
        <5> QED
          BY <2>3, <2>9, <4>1, <5>1, <5>2, NameTaken
      <4>2. CASE t.cols # None \/ t.where # None
        <5>1. n = << t.table >>
          BY <2>7, <4>2 DEF NamedTable
        <5> QED
          BY <2>1, <2>3, <2>4, <4>2, <5>1, PartsTaken
      <4> QED
        BY <4>1, <4>2
    <3>2. PICK c : c = IF ColPart(v) = <<>> THEN None ELSE Some(Columns(kind, ColPart(v)))
      OBVIOUS
    <3>3. PICK w : w = IF HasWhere(v) THEN Some(Decoded(WherePart(v))) ELSE None
      OBVIOUS
    <3>4. Parsed(kind, v) = [table |-> Some(n), cols |-> c, where |-> w]
      BY <3>1, <3>2, <3>3 DEF Parsed, TakenTable
    <3>5. /\ ~(ColPart(v) # <<>> /\ Commas(ColPart(v), Len(ColPart(v))) < Width(kind) - 1)
          /\ Or(c, Defaults[kind].cols) = IF t.cols = None THEN Defaults[kind].cols ELSE Or(t.cols, <<>>)
      <4>1. CASE t.cols = None
        <5>1. ColPart(v) = << >>
          BY <3>1, <4>1 DEF TakenTable
        <5>2. c = None
          BY <3>2, <5>1
        <5> QED
          BY <4>1, <5>1, <5>2, OrSome
      <4>2. CASE t.cols # None
        <5>1. PICK d : t.cols = Some(d)
          BY <2>1, <4>2, OptionCases DEF IsTable
        <5>2. /\ ColPart(v) # << >> /\ ~(Commas(ColPart(v), Len(ColPart(v))) < Width(kind) - 1)
              /\ Columns(kind, ColPart(v)) = d
          BY <3>1, <5>1 DEF TakenTable
        <5>3. c = Some(d)
          BY <3>2, <5>2
        <5> QED
          BY <4>2, <5>1, <5>2, <5>3, OrSome
      <4> QED
        BY <4>1, <4>2
    <3>6. /\ ~(HasWhere(v) /\ \A x \in Where : ~IsPrefix(<<x, "=">>, WherePart(v)))
          /\ (IF w = None THEN Defaults[kind].where ELSE w) = {<<"where", "=">> \o x : x \in t.where}
      <4>1. CASE t.where = None
        <5>1. ~HasWhere(v)
          BY <3>1, <4>1 DEF TakenTable
        <5>2. w = None /\ Defaults[kind].where = None
          BY <3>3, <5>1, KindWidth
        <5> QED
          BY <4>1, <5>1, <5>2 DEF None
      <4>2. CASE t.where # None
        <5>1. PICK x : t.where = Some(x)
          BY <2>1, <4>2, OptionCases DEF IsTable
        <5>2. /\ HasWhere(v) /\ IsPrefix(<< "where", "=" >>, WherePart(v))
              /\ Decoded(WherePart(v)) = << "where", "=" >> \o x
          BY <3>1, <5>1 DEF TakenTable
        <5>3. w = Some(<< "where", "=" >> \o x)
          BY <3>3, <5>2
        <5>4. w # None
          BY <5>3, OrSome
        <5>5. {<<"where", "=">> \o y : y \in t.where} = Some(<< "where", "=" >> \o x)
          BY <5>1 DEF Some
        <5>6. "where" \in Where
          BY DEF Where
        <5> QED
          BY <5>2, <5>3, <5>4, <5>5, <5>6
      <4> QED
        BY <4>1, <4>2
    <3>7. ~BadFormat(kind, v)
      BY <3>5, <3>6 DEF BadFormat
    <3>8. Named(kind, Parsed(kind, v)) =
            [table |-> n,
             cols |-> IF t.cols = None THEN Defaults[kind].cols ELSE Or(t.cols, <<>>),
             where |-> {<<"where", "=">> \o x : x \in t.where}]
      <4>1. PICK p : p = Parsed(kind, v)
        OBVIOUS
      <4>2. p.table = Some(n) /\ p.cols = c /\ p.where = w
        BY <3>4, <4>1
      <4>3. Or(p.table, Defaults[kind].table) = n
        BY <4>2, OrSome
      <4>4. Named(kind, p) = [table |-> Or(p.table, Defaults[kind].table),
                              cols |-> Or(c, Defaults[kind].cols),
                              where |-> IF w = None THEN Defaults[kind].where ELSE w]
        BY <4>2 DEF Named, Reset
      <4> QED
        BY <3>5, <3>6, <4>1, <4>3, <4>4
    <3> QED
      BY <2>6, <2>7, <3>7, <3>8
  <2> QED
    BY <2>8, <2>9
<1> QED
  BY <1>3, <1>4

-----------------------------------------------------------------------------
(* No step of the reading of a form leads to "bad", ...                      *)
LEMMA FormScheme ==
  ASSUME NEW f \in Forms
  PROVE  HasScheme(Render(f))
<1>1. PICK l : l = f.loc
  OBVIOUS
<1>2. IsLocation(l)
  BY <1>1, FormsAssumption DEF IsForm
<1>3. PICK o : o = LocationText(l)
  OBVIOUS
<1>4. o \in Text /\ Len(o) \in Nat \ {0}
  <2>1. PICK a : a = UserText(l)
    OBVIOUS
  <2>2. PICK h : h = HostText(l.host)
    OBVIOUS
  <2>3. PICK b : b = PortText(l) \o PathText(l)
    OBVIOUS
  <2>4. a \in Text /\ h \in Text /\ h # << >> /\ b \in Text
    BY <1>2, <2>1, <2>2, <2>3, UserForm, HostForm, PortForm, PathForm, TextPair
  <2>5. Len(a) \in Nat /\ Len(h) \in Nat \ {0} /\ Len(b) \in Nat
    BY <2>4, HeadAndTail DEF Text
  <2>6. h \o b \in Text /\ Len(h \o b) = Len(h) + Len(b)
    BY <2>4, TextPair
  <2>7. o = a \o (h \o b)
    BY <1>3, <2>1, <2>2, <2>3 DEF LocationText
  <2>8. o \in Text /\ Len(o) = Len(a) + Len(h \o b)
    BY <2>4, <2>6, <2>7, TextPair
  <2> QED
    BY <2>5, <2>6, <2>8
<1>5. PICK q : q = IF Params(f) = <<>> THEN <<>> ELSE <<"?">> \o Tail(Params(f))
  OBVIOUS
<1>6. q \in Text
  <2>1. CASE Params(f) = << >>
    BY <1>5, <2>1, EmptyText
  <2>2. CASE Params(f) # << >>
    <3>1. 1 \in 1..6
      OBVIOUS
    <3>2. Params(f) \in Text
      BY <3>1, FromForm
    <3>3. Tail(Params(f)) \in Text /\ << "?" >> \in Text
      BY <2>2, <3>2, TextTail, MarkToken, TokenText
    <3> QED
      BY <1>5, <2>2, <3>3, TextPair
  <2> QED
    BY <2>1, <2>2
<1>7. PICK u : u = Render(f)
  OBVIOUS
<1>8. u = << "sql://" >> \o (o \o q)
  BY <1>1, <1>3, <1>5, <1>7 DEF Render
<1>9. o \o q \in Text /\ Len(o \o q) = Len(o) + Len(q)
  BY <1>4, <1>6, TextPair
<1>10. Len(u) = 1 + Len(o \o q)
  BY <1>8, <1>9, SchemeForm, TokenText, TextPair
<1>11. Len(u) > 1
  <2>1. Len(q) \in Nat
    BY <1>6 DEF Text
  <2> QED
    BY <1>4, <1>9, <1>10, <2>1
<1>12. u[1] = "sql://"
  BY <1>7, UriForm
<1> QED
  BY <1>7, <1>11, <1>12 DEF HasScheme

LEMMA LocationGood ==
  ASSUME NEW f \in Forms, uri = Render(f)
  PROVE  ~BadLocation
<1>1. IsLocation(f.loc)
  BY FormsAssumption DEF IsForm
<1>2. Bracketed => Has(Location, "]")
  BY HostRead
<1>3. HasPort => PortNo \in Ports
  <2>1. CASE f.loc.port = None
    BY <2>1, PortRead
  <2>2. CASE f.loc.port # None
    <3>1. PICK p : f.loc.port = Some(p)
      BY <1>1, <2>2, OptionCases DEF IsLocation
    <3>2. PortOf[p] \in Ports
      BY <1>1, <3>1, PortForm
    <3> QED
      BY <3>1, <3>2, PortRead
  <2> QED
    BY <2>1, <2>2
<1> QED
  BY <1>2, <1>3, Zenon DEF BadLocation

LEMMA ReadingGood ==
  ASSUME NEW f \in Forms, NEW i, Reading(f, i)
  PROVE  ~BadParam /\ ~BadLastParam
<1>1. i \in 1..5 /\ KeyNo[i] \in Key /\ Item(f, KeyNo[i]) # None /\ rest = Tail(From(f, i))
  BY KeyFacts DEF Reading
<1>2. PICK v \in Text : Item(f, KeyNo[i]) = Some(v) /\ Free(v, NUL)
  BY <1>1, ItemForm
<1>3. PICK kv \in Text :
           /\ Before(kv, "=") = << KeyNo[i] >> /\ After(kv, "=") = v /\ Has(kv, "=")
           /\ IF From(f, i + 1) = << >>
              THEN Tail(From(f, i)) = kv /\ ~Has(kv, "&")
              ELSE /\ Has(Tail(From(f, i)), "&")
                   /\ Before(Tail(From(f, i)), "&") = kv
                   /\ After(Tail(From(f, i)), "&") = Tail(From(f, i + 1))
  BY <1>1, <1>2, RestForm
<1> QED
  BY <1>1, <1>3 DEF BadParam, BadLastParam

(* ... and none of the tables does, unless other memory is read with it. *)
LEMMA SameMemory ==
  ASSUME NEW f, NEW kind, params' = params
  PROVE  Overread(f, kind)' <=> Overread(f, kind)
BY DEF Overread, RunsOn, LastOfSeveral, Value

(* The settings of a form, as far as its reading has come. *)
TableOf(f, kind) == Overread(f, kind) \/ tabs[kind] = Says(f, kind)

TablesOf(f) ==
  /\ pc \in {"conf", "map", "base", "ok"} => TableOf(f, "ctx")
  /\ pc \in {"map", "base", "ok"} => TableOf(f, "conf")
  /\ pc \in {"base", "ok"} => TableOf(f, "map")
  /\ pc = "ok" /\ f.base # None => base = f.base

SettledInv ==
  /\ Typed /\ FormInv
  /\ \A f \in Forms : uri = Render(f) =>
       /\ pc = "bad" => \E kind \in Kind : Overread(f, kind)
       /\ TablesOf(f)

LEMMA SettledInit == Init => SettledInv
<1> SUFFICES ASSUME Init, NEW f \in Forms, uri = Render(f) PROVE pc # "bad" /\ TablesOf(f)
  BY InitTyped, FormInit DEF SettledInv
<1>1. HasScheme(uri)
  BY FormScheme
<1>2. pc \in {"query", "connect"}
  BY <1>1 DEF Init, FirstStep
<1> QED
  BY <1>2 DEF TablesOf

LEMMA TableSettles ==
  ASSUME SettledInv, NEW f \in Forms, uri = Render(f),
         NEW kind \in Kind, NEW next, TableParam(kind, next), pc \in {"ctx", "conf", "map"}
  PROVE  /\ pc = kind /\ (pc' = next \/ (pc' = "bad" /\ Overread(f, kind)'))
         /\ TableOf(f, kind)'
         /\ \A other \in Kind : other # kind /\ TableOf(f, other) => TableOf(f, other)'
<1>1. Taken(f)
  BY DEF SettledInv, FormInv, FormOf, ParamsOf
<1>2. PICK v : v = Or(Value(kind), <<>>)
  OBVIOUS
<1>3. DOMAIN tabs = Kind
  BY DEF SettledInv, Typed
<1>4. PICK s : /\ pc = kind /\ params' = params /\ tabs' = [tabs EXCEPT ![kind] = s]
               /\ pc' = IF ~IsShort(v) /\ BadFormat(kind, v) THEN "bad" ELSE next
               /\ ~(~IsShort(v) /\ BadFormat(kind, v)) => s = Named(kind, Parsed(kind, v))
  BY <1>2 DEF TableParam
<1>5. \A other \in Kind : Overread(f, other)' <=> Overread(f, other)
  BY <1>4, SameMemory
<1>6. tabs'[kind] = s /\ \A other \in Kind : other # kind => tabs'[other] = tabs[other]
  BY <1>3, <1>4
<1>7. ASSUME NEW other \in Kind, other # kind, TableOf(f, other) PROVE TableOf(f, other)'
  BY <1>5, <1>6, <1>7 DEF TableOf, Says, NamedTable, RunsOn, LastOfSeveral
<1>8. CASE Overread(f, kind)
  BY <1>4, <1>5, <1>7, <1>8 DEF TableOf
<1>9. CASE ~Overread(f, kind)
  <2>1. /\ IsShort(v) \/ ~BadFormat(kind, v)
        /\ Named(kind, Parsed(kind, v)) = Says(f, kind)
    BY <1>1, <1>2, <1>9, TableSaid
  <2>2. tabs'[kind] = Says(f, kind)
    BY <1>4, <1>6, <2>1
  <2>3. TableOf(f, kind)'
    BY <2>2 DEF TableOf, Says, NamedTable, RunsOn, LastOfSeveral
  <2> QED
    BY <1>4, <1>7, <2>1, <2>3
<1> QED
  BY <1>8, <1>9

LEMMA SettledStep == SettledInv /\ [Next]_vars => SettledInv'
<1> SUFFICES ASSUME SettledInv, [Next]_vars PROVE SettledInv'
  OBVIOUS
<1>1. Typed' /\ FormInv'
  BY StepTyped, FormStep DEF SettledInv
<1> SUFFICES ASSUME NEW f \in Forms, (uri = Render(f))'
             PROVE  ((pc = "bad")' => \E kind \in Kind : Overread(f, kind)') /\ TablesOf(f)'
  BY <1>1 DEF SettledInv
<1>2. CASE Again
  <2>1. HasScheme(uri')
    BY FormScheme
  <2>2. pc' = FirstStep(uri')
    BY <1>2 DEF Again, Begin
  <2>3. pc' \in {"query", "connect"}
    BY <2>1, <2>2 DEF FirstStep
  <2> QED
    BY <2>3 DEF TablesOf
<1>3. CASE UNCHANGED vars
  <2>1. uri = Render(f) /\ pc' = pc /\ tabs' = tabs /\ base' = base /\ params' = params
    BY <1>3 DEF vars
  <2>2. (pc = "bad" => \E kind \in Kind : Overread(f, kind)) /\ TablesOf(f)
    BY <2>1 DEF SettledInv
  <2>3. \A kind : Overread(f, kind)' <=> Overread(f, kind)
    BY <2>1, SameMemory
  <2> QED
    BY <2>1, <2>2, <2>3 DEF TablesOf, TableOf, Says, NamedTable, RunsOn, LastOfSeveral
<1>4. CASE Step
  <2>1. uri' = uri
    BY <1>4 DEF Step, TakeParam, BadParam, LastParam, BadLastParam, StrayParam, BadConnect, Connect,
                CtxParam, ConfParam, MapParam, TableParam, BaseParam
  <2>2. TablesOf(f) /\ FormOf(f) /\ uri = Render(f)
    BY <2>1 DEF SettledInv, FormInv
  <2>3. CASE TakeParam \/ BadParam \/ LastParam \/ BadLastParam \/ StrayParam
    <3>1. pc = "query"
      BY <2>3 DEF TakeParam, BadParam, LastParam, BadLastParam, StrayParam
    <3>2. PICK i : Reading(f, i)
      BY <2>2, <3>1 DEF FormOf, ParamsOf
    <3>3. TakeParam \/ LastParam \/ StrayParam
      BY <2>3, <3>2, ReadingGood
    <3>4. pc' \in {"query", "connect"}
      BY <3>1, <3>3 DEF TakeParam, LastParam, StrayParam
    <3> QED
      BY <3>4 DEF TablesOf
  <2>4. CASE BadConnect
    BY <2>2, <2>4, LocationGood DEF BadConnect
  <2>5. CASE Connect
    BY <2>5 DEF Connect, TablesOf
  <2>6. CASE CtxParam
    <3>1. TableParam("ctx", "conf") /\ "ctx" \in Kind /\ pc = "ctx"
      BY <2>6 DEF CtxParam, TableParam, Kind
    <3>2. (pc' = "conf" \/ (pc' = "bad" /\ Overread(f, "ctx")')) /\ TableOf(f, "ctx")'
      BY <2>2, <3>1, TableSettles
    <3> QED
      BY <3>1, <3>2 DEF TablesOf
  <2>7. CASE ConfParam
    <3>1. TableParam("conf", "map") /\ "conf" \in Kind /\ "ctx" \in Kind /\ pc = "conf"
      BY <2>7 DEF ConfParam, TableParam, Kind
    <3>2. TableOf(f, "ctx")
      BY <2>2, <3>1 DEF TablesOf
    <3>3. /\ (pc' = "map" \/ (pc' = "bad" /\ Overread(f, "conf")'))
          /\ TableOf(f, "conf")' /\ TableOf(f, "ctx")'
      BY <2>2, <3>1, <3>2, TableSettles
    <3> QED
      BY <3>1, <3>3 DEF TablesOf
  <2>8. CASE MapParam
    <3>1. TableParam("map", "base") /\ "map" \in Kind /\ "conf" \in Kind /\ "ctx" \in Kind /\ pc = "map"
      BY <2>8 DEF MapParam, TableParam, Kind
    <3>2. TableOf(f, "ctx") /\ TableOf(f, "conf")
      BY <2>2, <3>1 DEF TablesOf
    <3>3. /\ (pc' = "base" \/ (pc' = "bad" /\ Overread(f, "map")'))
          /\ TableOf(f, "map")' /\ TableOf(f, "conf")' /\ TableOf(f, "ctx")'
      BY <2>2, <3>1, <3>2, TableSettles
    <3> QED
      BY <3>1, <3>3 DEF TablesOf
  <2>9. CASE BaseParam
    <3>1. /\ pc = "base" /\ pc' = "ok" /\ tabs' = tabs /\ params' = params
          /\ base' = IF Value("base_id") = None THEN base ELSE String("base_id")
      BY <2>9 DEF BaseParam
    <3>2. f.base # None => base' = f.base
      <4>1. KeyNo[5] = "base_id" /\ 5 \in 1..5 /\ Item(f, "base_id") = f.base
        BY DEF KeyNo, Item
      <4>2. TakenItem(f, 5)
        BY <2>2, <3>1, <4>1 DEF FormOf, ParamsOf, Taken
      <4>3. String("base_id") = f.base
        BY <4>1, <4>2, StringTaken
      <4>4. f.base # None => Value("base_id") # None
        BY <4>3 DEF String, None
      <4> QED
        BY <3>1, <4>3, <4>4
    <3>3. \A kind : TableOf(f, kind) => TableOf(f, kind)'
      <4>1. \A kind : Overread(f, kind)' <=> Overread(f, kind)
        BY <3>1, SameMemory
      <4> QED
        BY <3>1, <4>1 DEF TableOf, Says, NamedTable, RunsOn, LastOfSeveral
    <3>4. TableOf(f, "ctx") /\ TableOf(f, "conf") /\ TableOf(f, "map")
      BY <2>2, <3>1 DEF TablesOf
    <3> QED
      BY <3>1, <3>2, <3>3, <3>4 DEF TablesOf
  <2> QED
    BY <1>4, <2>3, <2>4, <2>5, <2>6, <2>7, <2>8, <2>9 DEF Step
<1> QED
  BY <1>2, <1>3, <1>4 DEF Next

(* What an accepted URI of the documented form leaves in the settings: every *)
(* name, column and clause that it gives, the defaults for the rest, and     *)
(* nothing of what was parsed before it; except for a table whose parameter  *)
(* is read on, without a clause before it, into memory that holds a colon.   *)
THEOREM AlwaysSettled == Spec => []Settled
<1>1. SettledInv => Settled
  <2> SUFFICES ASSUME SettledInv, pc = "ok", NEW f \in Said
               PROVE  /\ \A kind \in Kind : Overread(f, kind) \/ tabs[kind] = Says(f, kind)
                      /\ f.base # None => base = f.base
                      /\ f.database # None => db.database = f.database
    BY DEF Settled
  <2>1. f \in Forms /\ uri = Render(f)
    BY SaidForms
  <2>2. TablesOf(f) /\ Server(f)
    BY <2>1 DEF SettledInv, FormInv, FormOf, Connected
  <2>3. \A kind \in Kind : kind = "ctx" \/ kind = "conf" \/ kind = "map"
    BY DEF Kind
  <2> QED
    BY <2>2, <2>3 DEF TablesOf, TableOf, Server
<1> QED
  BY <1>1, SettledInit, SettledStep, PTL DEF Spec

(* A URI of the documented form is refused only if it ends with the names of *)
(* a table and the memory behind it, which is read with them, holds a colon: *)
(* never for its location or parameters, nor for what an earlier URI left.   *)
THEOREM AlwaysAccepted == Spec => []Accepted
<1>1. SettledInv => Accepted
  BY SaidForms DEF SettledInv, Accepted
<1> QED
  BY <1>1, SettledInit, SettledStep, PTL DEF Spec

-----------------------------------------------------------------------------
(* The pieces of a text, by their places in it. *)
Window(s, u, a, z) ==
  /\ u \in Text /\ a \in 1..(Len(u) + 1) /\ z \in (a - 1)..Len(u)
  /\ s \in Text /\ Len(s) = z - a + 1
  /\ \A k \in a..z : s[k - a + 1] = u[k]

NotIn(u, a, z, m) == \A k \in a..z : u[k] # m

LEMMA WindowNumbers ==
  ASSUME NEW s, NEW u, NEW a, NEW z, Window(s, u, a, z)
  PROVE  /\ Len(u) \in Nat /\ a \in Int /\ z \in Int /\ 1 <= a /\ a <= z + 1 /\ z <= Len(u)
         /\ Len(s) \in Nat /\ Len(s) = z - a + 1
<1>1. Len(u) \in Nat /\ Len(s) \in Nat
  BY DEF Text, Window
<1> QED
  BY <1>1 DEF Window

LEMMA WindowAt ==
  ASSUME NEW s, NEW u, NEW a, NEW z, Window(s, u, a, z), NEW k \in 1..Len(s)
  PROVE  s[k] = u[a + k - 1] /\ a + k - 1 \in a..z
<1>1. a \in Int /\ z \in Int /\ Len(s) = z - a + 1
  BY WindowNumbers
<1>2. a + k - 1 \in a..z /\ (a + k - 1) - a + 1 = k
  BY <1>1
<1> QED
  BY <1>2 DEF Window

LEMMA WholeWindow ==
  ASSUME NEW u \in Text
  PROVE  Window(u, u, 1, Len(u))
<1>1. Len(u) \in Nat
  BY DEF Text
<1>2. /\ 1 \in 1..(Len(u) + 1) /\ Len(u) \in (1 - 1)..Len(u) /\ Len(u) = Len(u) - 1 + 1
      /\ \A k \in 1..Len(u) : k - 1 + 1 = k
  BY <1>1
<1> QED
  BY <1>2 DEF Window

LEMMA WindowPiece ==
  ASSUME NEW s, NEW u, NEW a, NEW z, Window(s, u, a, z), NEW i \in 1..(Len(s) + 1), NEW j \in (i - 1)..Len(s)
  PROVE  Window(SubSeq(s, i, j), u, a + i - 1, a + j - 1)
<1>1. /\ Len(u) \in Nat /\ a \in Int /\ z \in Int /\ 1 <= a /\ a <= z + 1 /\ z <= Len(u)
      /\ Len(s) \in Nat /\ Len(s) = z - a + 1
  BY WindowNumbers
<1>2. PICK t : t = SubSeq(s, i, j)
  OBVIOUS
<1>3. s \in Text /\ u \in Text
  BY DEF Window
<1>4. t \in Text /\ Len(t) = j - i + 1 /\ \A k \in 1..(j - i + 1) : t[k] = s[i + k - 1]
  BY <1>2, <1>3, Piece
<1>5. /\ a + i - 1 \in 1..(Len(u) + 1) /\ a + j - 1 \in ((a + i - 1) - 1)..Len(u)
      /\ j - i + 1 = (a + j - 1) - (a + i - 1) + 1
  BY <1>1
<1>6. ASSUME NEW k \in (a + i - 1)..(a + j - 1) PROVE t[k - (a + i - 1) + 1] = u[k]
  <2>1. /\ k - (a + i - 1) + 1 \in 1..(j - i + 1)
        /\ i + (k - (a + i - 1) + 1) - 1 = k - a + 1
        /\ k \in a..z
    BY <1>1
  <2>2. t[k - (a + i - 1) + 1] = s[k - a + 1]
    BY <1>4, <2>1
  <2>3. s[k - a + 1] = u[k]
    BY <2>1 DEF Window
  <2> QED
    BY <2>2, <2>3
<1> QED
  BY <1>2, <1>3, <1>4, <1>5, <1>6 DEF Window

LEMMA SameWindow ==
  ASSUME NEW s, NEW t, NEW u, NEW a, NEW z, Window(s, u, a, z), Window(t, u, a, z)
  PROVE  s = t
<1>1. s \in Text /\ t \in Text
  BY DEF Window
<1>2. Len(s) = Len(t)
  BY WindowNumbers
<1>3. \A k \in 1..Len(s) : s[k] = u[a + k - 1]
  BY WindowAt
<1>4. \A k \in 1..Len(t) : t[k] = u[a + k - 1]
  BY WindowAt
<1> QED
  BY <1>1, <1>2, <1>3, <1>4, SameText

(* What is found in a piece, and the two pieces that are cut from it. *)
CutsAt(s, u, a, z, m, c) ==
  /\ Has(s, m) /\ Find(s, m) = c - a + 1
  /\ Window(Before(s, m), u, a, c - 1) /\ Window(After(s, m), u, c + 1, z)

LEMMA WindowCut ==
  ASSUME NEW s, NEW u, NEW a, NEW z, Window(s, u, a, z), NEW m,
         NEW c \in a..z, u[c] = m, NotIn(u, a, c - 1, m)
  PROVE  CutsAt(s, u, a, z, m, c)
<1>1. /\ Len(u) \in Nat /\ a \in Int /\ z \in Int /\ 1 <= a /\ a <= z + 1 /\ z <= Len(u)
      /\ Len(s) \in Nat /\ Len(s) = z - a + 1
  BY WindowNumbers
<1>2. PICK i : i = c - a + 1
  OBVIOUS
<1>3. i \in 1..Len(s) /\ a + i - 1 = c
  BY <1>1, <1>2
<1>4. s[i] = m
  BY <1>3, WindowAt
<1>5. ASSUME NEW j \in 1..(i - 1) PROVE s[j] # m
  <2>1. j \in 1..Len(s) /\ a + j - 1 \in a..(c - 1)
    BY <1>1, <1>2, <1>3
  <2>2. s[j] = u[a + j - 1]
    BY <2>1, WindowAt
  <2> QED
    BY <2>1, <2>2 DEF NotIn
<1>6. s \in Text
  BY DEF Window
<1>7. Find(s, m) = i
  BY <1>3, <1>4, <1>5, <1>6, FoundAt
<1>8. Has(s, m)
  BY <1>3, <1>7 DEF Has
<1>9. Window(Before(s, m), u, a, c - 1)
  <2>1. 1 \in 1..(Len(s) + 1) /\ i - 1 \in (1 - 1)..Len(s) /\ a + 1 - 1 = a /\ a + (i - 1) - 1 = c - 1
    BY <1>1, <1>3
  <2>2. Window(SubSeq(s, 1, i - 1), u, a + 1 - 1, a + (i - 1) - 1)
    BY <2>1, WindowPiece
  <2> QED
    BY <1>7, <1>8, <2>1, <2>2 DEF Before
<1>10. Window(After(s, m), u, c + 1, z)
  <2>1. i + 1 \in 1..(Len(s) + 1) /\ Len(s) \in ((i + 1) - 1)..Len(s) /\ a + (i + 1) - 1 = c + 1 /\ a + Len(s) - 1 = z
    BY <1>1, <1>3
  <2>2. Window(SubSeq(s, i + 1, Len(s)), u, a + (i + 1) - 1, a + Len(s) - 1)
    BY <2>1, WindowPiece
  <2> QED
    BY <1>7, <2>1, <2>2 DEF After
<1> QED
  BY <1>2, <1>7, <1>8, <1>9, <1>10 DEF CutsAt

LEMMA WindowUncut ==
  ASSUME NEW s, NEW u, NEW a, NEW z, Window(s, u, a, z), NEW m, NotIn(u, a, z, m)
  PROVE  ~Has(s, m) /\ Before(s, m) = s
<1>1. s \in Text
  BY DEF Window
<1>2. ASSUME NEW k \in 1..Len(s) PROVE s[k] # m
  BY WindowAt DEF NotIn
<1> QED
  BY <1>1, <1>2, NoCut DEF Free

LEMMA WindowFind ==
  ASSUME NEW s, NEW u, NEW a, NEW z, Window(s, u, a, z), NEW m, Has(s, m)
  PROVE  \E c \in a..z : u[c] = m /\ NotIn(u, a, c - 1, m) /\ CutsAt(s, u, a, z, m, c)
<1>1. /\ Len(u) \in Nat /\ a \in Int /\ z \in Int /\ 1 <= a /\ a <= z + 1 /\ z <= Len(u)
      /\ Len(s) \in Nat /\ Len(s) = z - a + 1
  BY WindowNumbers
<1>2. PICK i : i = Find(s, m)
  OBVIOUS
<1>3. s \in Text
  BY DEF Window
<1>4. i \in 1..Len(s) /\ s[i] = m /\ \A j \in 1..(i - 1) : s[j] # m
  BY <1>1, <1>2, <1>3, FindProperties DEF Has
<1>5. PICK c : c = a + i - 1
  OBVIOUS
<1>6. c \in a..z /\ u[c] = m
  BY <1>4, <1>5, WindowAt
<1>7. ASSUME NEW k \in a..(c - 1) PROVE u[k] # m
  <2>1. k - a + 1 \in 1..(i - 1) /\ k \in a..z
    BY <1>1, <1>4, <1>5
  <2>2. s[k - a + 1] = u[k]
    BY <2>1 DEF Window
  <2> QED
    BY <1>4, <2>1, <2>2
<1>8. NotIn(u, a, c - 1, m)
  BY <1>7 DEF NotIn
<1>9. CutsAt(s, u, a, z, m, c)
  BY <1>6, <1>8, WindowCut
<1> QED
  BY <1>6, <1>8, <1>9

LEMMA WindowTail ==
  ASSUME NEW s, NEW u, NEW a, NEW z, Window(s, u, a, z), a <= z
  PROVE  s # << >> /\ s[1] = u[a] /\ Window(Tail(s), u, a + 1, z)
<1>1. /\ Len(u) \in Nat /\ a \in Int /\ z \in Int /\ 1 <= a /\ a <= z + 1 /\ z <= Len(u)
      /\ Len(s) \in Nat /\ Len(s) = z - a + 1
  BY WindowNumbers
<1>2. s \in Text /\ u \in Text
  BY DEF Window
<1>3. Len(s) # 0
  BY <1>1
<1>4. s # << >>
  BY <1>3
<1>5. s[1] = u[a]
  <2>1. 1 \in 1..Len(s) /\ a + 1 - 1 = a
    BY <1>1, <1>3
  <2> QED
    BY <2>1, WindowAt
<1>6. PICK t : t = Tail(s)
  OBVIOUS
<1>7. t \in Text /\ Len(t) = Len(s) - 1 /\ \A i \in 1..(Len(s) - 1) : t[i] = s[i + 1]
  BY <1>2, <1>4, <1>6, TextTail
<1>8. a + 1 \in 1..(Len(u) + 1) /\ z \in ((a + 1) - 1)..Len(u) /\ Len(s) - 1 = z - (a + 1) + 1
  BY <1>1
<1>9. ASSUME NEW k \in (a + 1)..z PROVE t[k - (a + 1) + 1] = u[k]
  <2>1. k - (a + 1) + 1 \in 1..(Len(s) - 1) /\ (k - (a + 1) + 1) + 1 = k - a + 1 /\ k \in a..z
    BY <1>1
  <2>2. t[k - (a + 1) + 1] = s[k - a + 1]
    BY <1>7, <2>1
  <2> QED
    BY <2>1, <2>2 DEF Window
<1> QED
  BY <1>2, <1>4, <1>5, <1>6, <1>7, <1>8, <1>9 DEF Window

(* Behind the last of a mark, or all when there is none. *)
LEMMA WindowLast ==
  ASSUME NEW s, NEW u, NEW a, NEW z, Window(s, u, a, z), NEW m, NEW b \in a..(z + 1),
         b = a \/ u[b - 1] = m, NotIn(u, b, z, m)
  PROVE  Window(SubSeq(s, FindLast(s, m) + 1, Len(s)), u, b, z)
<1>1. /\ Len(u) \in Nat /\ a \in Int /\ z \in Int /\ 1 <= a /\ a <= z + 1 /\ z <= Len(u)
      /\ Len(s) \in Nat /\ Len(s) = z - a + 1
  BY WindowNumbers
<1>2. s \in Text
  BY DEF Window
<1>3. FindLast(s, m) = b - a
  <2>1. CASE b = a
    <3>1. ASSUME NEW k \in 1..Len(s) PROVE s[k] # m
      BY <2>1, WindowAt DEF NotIn
    <3>2. FindLast(s, m) = 0
      BY <1>2, <3>1, FindLastProperties
    <3> QED
      BY <1>1, <2>1, <3>2
  <2>2. CASE b # a
    <3>1. PICK i : i = b - a
      OBVIOUS
    <3>2. i \in 1..Len(s) /\ a + i - 1 = b - 1
      BY <1>1, <2>2, <3>1
    <3>3. s[i] = m
      BY <2>2, <3>2, WindowAt
    <3>4. ASSUME NEW j \in (i + 1)..Len(s) PROVE s[j] # m
      <4>1. j \in 1..Len(s) /\ a + j - 1 \in b..z
        BY <1>1, <3>1, <3>2
      <4>2. s[j] = u[a + j - 1]
        BY <4>1, WindowAt
      <4> QED
        BY <4>1, <4>2 DEF NotIn
    <3> QED
      BY <1>2, <3>1, <3>2, <3>3, <3>4, FoundLastAt
  <2> QED
    BY <2>1, <2>2
<1>4. PICK i : i = (b - a) + 1
  OBVIOUS
<1>5. i \in 1..(Len(s) + 1) /\ Len(s) \in (i - 1)..Len(s) /\ a + i - 1 = b /\ a + Len(s) - 1 = z
  BY <1>1, <1>4
<1>6. Window(SubSeq(s, i, Len(s)), u, a + i - 1, a + Len(s) - 1)
  BY <1>5, WindowPiece
<1> QED
  BY <1>3, <1>4, <1>5, <1>6

(* A location that is excluded is refused. *)
PortAt(u, c, z) ==
  /\ c < z /\ u[c + 1] \in DOMAIN PortOf /\ PortOf[u[c + 1]] \in Ports
  /\ c + 1 = z \/ u[c + 2] = "/"

LEMMA PortSeen ==
  ASSUME NEW y, y = After(Or(AfterHost, <<>>), ":"), NEW c \in Int, NEW z, Window(y, uri, c + 1, z),
         PortNo \in Ports
  PROVE  PortAt(uri, c, z)
<1>1. PICK p : p = PortSpec
  OBVIOUS
<1>2. p = Before(y, "/")
  BY <1>1 DEF PortSpec
<1>3. Len(p) = 1 /\ p[1] \in DOMAIN PortOf /\ PortOf[p[1]] \in Ports
  <2>1. 0 \notin Ports
    BY DEF Ports
  <2> QED
    BY <1>1, <2>1 DEF PortNo
<1>4. z \in Int
  BY WindowNumbers
<1>5. CASE ~Has(y, "/")
  <2>1. p = y
    BY <1>2, <1>5 DEF Before
  <2>2. Len(y) = z - (c + 1) + 1
    BY WindowNumbers
  <2>3. z = c + 1 /\ c < z /\ c + 1 <= z
    <3>1. 1 = z - (c + 1) + 1
      BY <1>3, <2>1, <2>2
    <3>2. c \in Int
      OBVIOUS
    <3> QED
      BY ONLY <1>4, <3>1, <3>2
  <2>4. y[1] = uri[c + 1]
    BY <2>3, WindowTail
  <2> QED
    BY <1>3, <2>1, <2>3, <2>4 DEF PortAt
<1>6. CASE Has(y, "/")
  <2>1. PICK d \in (c + 1)..z : uri[d] = "/" /\ CutsAt(y, uri, c + 1, z, "/", d)
    BY <1>6, WindowFind
  <2>2. Window(p, uri, c + 1, d - 1)
    BY <1>2, <2>1 DEF CutsAt
  <2>3. Len(p) = (d - 1) - (c + 1) + 1
    BY <2>2, WindowNumbers
  <2>4. d = c + 2 /\ c < z /\ c + 1 <= d - 1
    <3>1. 1 = (d - 1) - (c + 1) + 1
      BY <1>3, <2>3
    <3>2. c \in Int /\ d \in (c + 1)..z
      BY <2>1
    <3> QED
      BY ONLY <1>4, <3>1, <3>2
  <2>5. p[1] = uri[c + 1]
    BY <2>2, <2>4, WindowTail
  <2> QED
    BY <1>3, <2>1, <2>4, <2>5 DEF PortAt
<1> QED
  BY <1>5, <1>6

LEMMA AuthorityAt ==
  ASSUME uri \in Text, NEW z \in 1..Len(uri), NotIn(uri, 1, z, "?"), z = Len(uri) \/ uri[z + 1] = "?"
  PROVE  Window(Authority, uri, 2, z)
<1>1. PICK u : u = uri
  OBVIOUS
<1>2. Len(u) \in Nat /\ u \in Text
  BY <1>1 DEF Text
<1>3. Window(u, u, 1, Len(u))
  BY <1>2, WholeWindow
<1>4. Window(Before(u, "?"), u, 1, z)
  <2>1. CASE z = Len(u)
    BY <1>1, <1>3, <2>1, WindowUncut
  <2>2. CASE z # Len(u)
    <3>1. z + 1 \in 1..Len(u) /\ (z + 1) - 1 = z
      BY <1>1, <1>2, <2>2
    <3>2. u[z + 1] = "?" /\ NotIn(u, 1, (z + 1) - 1, "?")
      BY <1>1, <2>2, <3>1
    <3>3. CutsAt(u, u, 1, Len(u), "?", z + 1)
      BY <1>3, <3>1, <3>2, WindowCut
    <3> QED
      BY <3>1, <3>3 DEF CutsAt
  <2> QED
    BY <2>1, <2>2
<1>5. Window(Tail(Before(u, "?")), u, 1 + 1, z)
  <2>1. 1 <= z
    BY <1>1, <1>2
  <2> QED
    BY <1>4, <2>1, WindowTail
<1> QED
  BY <1>1, <1>5 DEF Authority

LEMMA BehindAddress ==
  ASSUME NEW a, NEW z, Window(Location, uri, a, z), a <= z, uri[a] = "[",
         NEW h \in a..z, h < z, uri[h] = "]", NotIn(uri, a, h - 1, "]")
  PROVE  \E r : AfterHost = Some(r) /\ Window(r, uri, h + 1, z)
<1>1. PICK s : s = Location
  OBVIOUS
<1>2. a \in Int /\ z \in Int /\ Len(s) = z - a + 1
  BY <1>1, WindowNumbers
<1>3. s[1] = "["
  <2>1. Window(s, uri, a, z) /\ a <= z
    BY <1>1
  <2>2. s[1] = uri[a]
    BY ONLY <2>1, WindowTail
  <2> QED
    BY <2>2
<1>4. Bracketed
  BY <1>1, <1>3 DEF Bracketed
<1>5. CutsAt(s, uri, a, z, "]", h)
  BY <1>1, WindowCut
<1>6. HostEnd = h - a + 1
  BY <1>1, <1>4, <1>5 DEF HostEnd, CutsAt
<1>7. ~(HostEnd > Len(s))
  BY <1>2, <1>6
<1>8. AfterHost = Some(After(s, "]"))
  BY <1>1, <1>4, <1>5, <1>6, <1>7 DEF AfterHost, After, CutsAt
<1> QED
  BY <1>5, <1>8 DEF CutsAt

LEMMA BehindName ==
  ASSUME NEW a, NEW z, Window(Location, uri, a, z), a <= z, uri[a] # "[",
         NEW c \in (a + 1)..z, uri[c] = ":", NotIn(uri, a + 1, c - 1, ":")
  PROVE  \E r : AfterHost = Some(r) /\ Window(r, uri, c, z)
<1>1. PICK s : s = Location
  OBVIOUS
<1>2. a \in Int /\ z \in Int /\ Len(s) = z - a + 1
  BY <1>1, WindowNumbers
<1>3. s[1] = uri[a] /\ Window(Tail(s), uri, a + 1, z)
  BY <1>1, WindowTail
<1>4. ~Bracketed
  BY <1>1, <1>3 DEF Bracketed
<1>5. CutsAt(Tail(s), uri, a + 1, z, ":", c)
  BY <1>3, WindowCut
<1>6. PICK e : e = c - (a + 1) + 1
  OBVIOUS
<1>7. e # 0 /\ e + 1 \in 1..(Len(s) + 1) /\ Len(s) \in ((e + 1) - 1)..Len(s) /\ ~(e + 1 > Len(s))
      /\ a + (e + 1) - 1 = c /\ a + Len(s) - 1 = z
  BY <1>2, <1>6
<1>8. HostEnd = e + 1
  BY <1>1, <1>4, <1>5, <1>6, <1>7 DEF HostEnd, CutsAt
<1>9. AfterHost = Some(SubSeq(s, e + 1, Len(s)))
  BY <1>1, <1>4, <1>7, <1>8 DEF AfterHost
<1>10. Window(SubSeq(s, e + 1, Len(s)), uri, a + (e + 1) - 1, a + Len(s) - 1)
  BY <1>1, <1>7, WindowPiece
<1> QED
  BY <1>7, <1>9, <1>10

LEMMA ServerRefused ==
  ASSUME uri \in Text, BadServer(uri)
  PROVE  BadLocation
<1>1. PICK a \in DOMAIN uri, z \in DOMAIN uri :
    /\ 1 < a /\ a <= z
    /\ \A k \in 1..z : uri[k] # "?"
    /\ z = Len(uri) \/ uri[z + 1] = "?"
    /\ a = 2 \/ uri[a - 1] = "@"
    /\ \A k \in a..z : uri[k] # "@"
    /\ \/ uri[a] = "[" /\ \A k \in a..z : uri[k] # "]"
       \/ \E h, c \in a..z :
            /\ IF uri[a] = "[" THEN FirstIn(uri, a, h, {"]"}) ELSE h = a
            /\ h < c /\ FirstIn(uri, h + 1, c, {":"})
            /\ ~PortAt(uri, c, z)
  BY DEF BadServer, PortAt
<1>2. a \in 1..Len(uri) /\ z \in 1..Len(uri) /\ Len(uri) \in Nat
  BY <1>1 DEF Text
<1>3. Window(Authority, uri, 2, z)
  BY <1>1, <1>2, AuthorityAt DEF NotIn
<1>4. Window(Location, uri, a, z)
  <2>1. a \in 2..(z + 1)
    BY <1>1, <1>2
  <2>2. NotIn(uri, a, z, "@")
    BY <1>1 DEF NotIn
  <2> QED
    BY <1>1, <1>3, <2>1, <2>2, WindowLast DEF Location
<1>5. CASE uri[a] = "[" /\ \A k \in a..z : uri[k] # "]"
  <2>1. Bracketed
    <3>1. Window(Location, uri, a, z) /\ a <= z
      BY <1>1, <1>4
    <3>2. Location[1] = uri[a]
      BY ONLY <3>1, WindowTail
    <3> QED
      BY <1>5, <3>2 DEF Bracketed
  <2>2. ~Has(Location, "]")
    BY <1>4, <1>5, WindowUncut DEF NotIn
  <2> QED
    BY <2>1, <2>2 DEF BadLocation
<1>6. ASSUME NEW h \in a..z, NEW c \in a..z,
             IF uri[a] = "[" THEN FirstIn(uri, a, h, {"]"}) ELSE h = a,
             h < c, FirstIn(uri, h + 1, c, {":"}), ~PortAt(uri, c, z)
      PROVE  BadLocation
  <2>1. uri[c] = ":" /\ NotIn(uri, h + 1, c - 1, ":")
    BY <1>6 DEF FirstIn, NotIn
  <2>2. c \in Int /\ c \in (h + 1)..z /\ h < z /\ c \in c..z
    BY <1>2, <1>6
  <2>3. \E r, b : AfterHost = Some(r) /\ Window(r, uri, b, z) /\ CutsAt(r, uri, b, z, ":", c)
    <3>1. CASE uri[a] = "["
      <4>1. uri[h] = "]" /\ NotIn(uri, a, h - 1, "]")
        BY <1>6, <3>1 DEF FirstIn, NotIn
      <4>2. PICK r : AfterHost = Some(r) /\ Window(r, uri, h + 1, z)
        BY <1>1, <1>4, <2>2, <3>1, <4>1, BehindAddress
      <4>3. CutsAt(r, uri, h + 1, z, ":", c)
        BY <2>1, <2>2, <4>2, WindowCut
      <4> QED
        BY <4>2, <4>3
    <3>2. CASE uri[a] # "["
      <4>1. h = a
        BY <1>6, <3>2
      <4>2. PICK r : AfterHost = Some(r) /\ Window(r, uri, c, z)
        BY <1>1, <1>4, <2>1, <2>2, <3>2, <4>1, BehindName
      <4>3. NotIn(uri, c, c - 1, ":")
        BY <2>2 DEF NotIn
      <4>4. CutsAt(r, uri, c, z, ":", c)
        BY <2>1, <2>2, <4>2, <4>3, WindowCut
      <4> QED
        BY <4>2, <4>4
    <3> QED
      BY <3>1, <3>2
  <2>4. PICK r, b : AfterHost = Some(r) /\ CutsAt(r, uri, b, z, ":", c)
    BY <2>3
  <2>5. HasPort
    <3>1. r \in AfterHost /\ Has(r, ":")
      BY <2>4 DEF Some, CutsAt
    <3> QED
      BY <3>1, Zenon DEF HasPort
  <2>6. PICK y : y = After(Or(AfterHost, <<>>), ":")
    OBVIOUS
  <2>7. Window(y, uri, c + 1, z)
    BY <2>4, <2>6, OrSome DEF CutsAt
  <2>8. PortNo \notin Ports
    BY <1>6, <2>2, <2>6, <2>7, PortSeen
  <2> QED
    BY <2>5, <2>8, Zenon DEF BadLocation
<1> QED
  BY <1>1, <1>5, <1>6

(* A table that is described badly is refused. *)
LEMMA WindowCommas ==
  ASSUME NEW s, NEW u, NEW a, NEW z, Window(s, u, a, z)
  PROVE  Cardinality({k \in a..z : u[k] = ","}) = Commas(s, Len(s))
<1>1. /\ Len(u) \in Nat /\ a \in Int /\ z \in Int /\ 1 <= a /\ a <= z + 1 /\ z <= Len(u)
      /\ Len(s) \in Nat /\ Len(s) = z - a + 1
  BY WindowNumbers
<1>2. PICK S : S = {j \in 1..Len(s) : s[j] = ","}
  OBVIOUS
<1>3. PICK T : T = {k \in a..z : u[k] = ","}
  OBVIOUS
<1>4. IsFiniteSet(S)
  <2>1. IsFiniteSet(1..Len(s))
    BY <1>1, FS_Interval
  <2>2. S \subseteq 1..Len(s)
    BY <1>2
  <2> QED
    BY <2>1, <2>2, FS_Subset
<1>5. \A j \in S : j \in 1..Len(s) /\ a + j - 1 \in T
  <2>1. TAKE j \in S
  <2>2. j \in 1..Len(s) /\ s[j] = ","
    BY <1>2
  <2>3. s[j] = u[a + j - 1] /\ a + j - 1 \in a..z
    BY <2>2, WindowAt
  <2> QED
    BY <1>3, <2>2, <2>3
<1>6. \A k \in T : k \in a..z /\ k - a + 1 \in S
  <2>1. TAKE k \in T
  <2>2. k \in a..z
    BY <1>3
  <2>3. u[k] = ","
    BY <1>3
  <2>4. k - a + 1 \in 1..Len(s)
    BY ONLY <1>1, <2>2
  <2>5. s[k - a + 1] = u[k]
    BY <2>2 DEF Window
  <2> QED
    BY <1>2, <2>2, <2>3, <2>4, <2>5
<1>7. PICK F : F = [j \in S |-> a + j - 1]
  OBVIOUS
<1>8. F \in Bijection(S, T)
  <2>1. F \in [S -> T]
    BY <1>5, <1>7
  <2>2. \A i, j \in S : F[i] = F[j] => i = j
    BY <1>1, <1>5, <1>7
  <2>3. \A k \in T : \E j \in S : F[j] = k
    <3>1. TAKE k \in T
    <3>2. k - a + 1 \in S /\ k \in Int
      BY <1>1, <1>6
    <3>3. F[k - a + 1] = k
      BY <1>1, <1>7, <3>2
    <3> QED
      BY <3>2, <3>3
  <2> QED
    BY <2>1, <2>2, <2>3 DEF Bijection, Injection, Surjection, IsInjective
<1>9. Cardinality(T) = Cardinality(S)
  BY <1>4, <1>8, FS_Bijection DEF ExistsBijection
<1> QED
  BY <1>2, <1>3, <1>9 DEF Commas

LEMMA SomeColumnsBad ==
  ASSUME NEW kind \in Kind, NEW v \in Text, SomeColumns(kind, v)
  PROVE  ~IsShort(v) /\ BadFormat(kind, v)
<1>1. PICK c \in DOMAIN v, e \in 1..(Len(v) + 1) :
        /\ FirstIn(v, 1, c, {":"})
        /\ c + 1 < e /\ \A k \in (c + 1)..(e - 1) : v[k] # ":"
        /\ e = Len(v) + 1 \/ v[e] = ":"
        /\ Cardinality({k \in (c + 1)..(e - 1) : v[k] = ","}) < Width(kind) - 1
  BY DEF SomeColumns
<1>2. Len(v) \in Nat /\ c \in 1..Len(v) /\ e \in 1..(Len(v) + 1) /\ c + 1 < e
  <2>1. c + 1 < e
    BY <1>1
  <2> QED
    BY <2>1 DEF Text
<1>3. Window(v, v, 1, Len(v))
  BY WholeWindow
<1>4. CutsAt(v, v, 1, Len(v), ":", c)
  <2>1. v[c] = ":" /\ NotIn(v, 1, c - 1, ":")
    BY <1>1 DEF FirstIn, NotIn
  <2> QED
    BY <1>2, <1>3, <2>1, WindowCut
<1>5. PICK r : r = After(v, ":")
  OBVIOUS
<1>6. Window(r, v, c + 1, Len(v)) /\ Has(v, ":")
  BY <1>4, <1>5 DEF CutsAt
<1>7. NotIn(v, c + 1, e - 1, ":")
  BY <1>1 DEF NotIn
<1>8. Window(Before(r, ":"), v, c + 1, e - 1)
  <2>1. CASE e = Len(v) + 1
    <3>1. e - 1 = Len(v)
      BY <1>2, <2>1
    <3> QED
      BY <1>6, <1>7, <3>1, WindowUncut
  <2>2. CASE e # Len(v) + 1
    <3>1. e \in (c + 1)..Len(v) /\ v[e] = ":"
      <4>1. e \in (c + 1)..Len(v)
        BY ONLY <1>2, <2>2
      <4>2. v[e] = ":"
        BY <1>1, <2>2
      <4> QED
        BY <4>1, <4>2
    <3>2. CutsAt(r, v, c + 1, Len(v), ":", e)
      BY <1>6, <1>7, <3>1, WindowCut
    <3> QED
      BY <3>2 DEF CutsAt
  <2> QED
    BY <2>1, <2>2
<1>9. PICK p : p = ColPart(v)
  OBVIOUS
<1>10. Window(p, v, c + 1, e - 1)
  BY <1>5, <1>6, <1>8, <1>9 DEF ColPart
<1>11. p # << >>
  <2>1. c + 1 <= e - 1
    BY ONLY <1>2
  <2> QED
    BY <1>10, <2>1, WindowTail
<1>12. Commas(p, Len(p)) < Width(kind) - 1
  BY <1>1, <1>10, WindowCommas
<1>13. Len(v) # 1 /\ Len(v) # 0
  <2>1. PICK n : n = Len(v)
    OBVIOUS
  <2>2. n \in Nat /\ c \in 1..n /\ e \in 1..(n + 1) /\ c + 1 < e
    BY ONLY <1>2, <2>1
  <2>3. n # 1 /\ n # 0
    BY ONLY <2>2
  <2> QED
    BY ONLY <2>1, <2>3
<1>14. ~IsShort(v)
  BY <1>13 DEF IsShort
<1> QED
  BY <1>9, <1>11, <1>12, <1>14 DEF BadFormat

LEMMA NoClauseBad ==
  ASSUME NEW kind \in Kind, NEW v \in Text, NoClause(v)
  PROVE  ~IsShort(v) /\ BadFormat(kind, v)
<1>1. PICK c \in DOMAIN v, d \in DOMAIN v :
        /\ FirstIn(v, 1, c, {":"}) /\ c < d /\ FirstIn(v, c + 1, d, {":"})
        /\ ~(d + 2 <= Len(v) /\ v[d + 1] \in Where /\ v[d + 2] = "=")
  BY DEF NoClause
<1>2. Len(v) \in Nat /\ c \in 1..Len(v) /\ d \in 1..Len(v) /\ d \in (c + 1)..Len(v)
  <2>1. Len(v) \in Nat /\ c \in 1..Len(v) /\ d \in 1..Len(v)
    BY DEF Text
  <2> QED
    BY <1>1, <2>1
<1>3. Window(v, v, 1, Len(v))
  BY WholeWindow
<1>4. CutsAt(v, v, 1, Len(v), ":", c)
  <2>1. v[c] = ":" /\ NotIn(v, 1, c - 1, ":")
    BY <1>1 DEF FirstIn, NotIn
  <2> QED
    BY <1>2, <1>3, <2>1, WindowCut
<1>5. PICK r : r = After(v, ":")
  OBVIOUS
<1>6. Window(r, v, c + 1, Len(v)) /\ Has(v, ":")
  BY <1>4, <1>5 DEF CutsAt
<1>7. CutsAt(r, v, c + 1, Len(v), ":", d)
  <2>1. v[d] = ":" /\ NotIn(v, c + 1, d - 1, ":")
    BY <1>1 DEF FirstIn, NotIn
  <2> QED
    BY <1>2, <1>6, <2>1, WindowCut
<1>8. PICK y : y = After(r, ":")
  OBVIOUS
<1>9. Window(y, v, d + 1, Len(v)) /\ HasWhere(v)
  BY <1>5, <1>6, <1>7, <1>8 DEF CutsAt, HasWhere
<1>10. PICK x : x = CStr(y)
  OBVIOUS
<1>11. \E z \in d..Len(v) : Window(x, v, d + 1, z)
  <2>1. CASE Has(y, NUL)
    <3>1. PICK k \in (d + 1)..Len(v) : CutsAt(y, v, d + 1, Len(v), NUL, k)
      BY <1>9, <2>1, WindowFind
    <3>2. k - 1 \in d..Len(v)
      BY <1>2, <3>1
    <3> QED
      BY <1>10, <3>1, <3>2 DEF CStr, CutsAt
  <2>2. CASE ~Has(y, NUL)
    <3>1. Len(v) \in d..Len(v)
      BY <1>2
    <3> QED
      BY <1>9, <1>10, <2>2, <3>1 DEF CStr, Before
  <2> QED
    BY <2>1, <2>2
<1>12. PICK z \in d..Len(v) : Window(x, v, d + 1, z)
  BY <1>11
<1>13. WherePart(v) = x
  BY <1>5, <1>8, <1>10 DEF WherePart
<1>14. ASSUME NEW w \in Where, IsPrefix(<<w, "=">>, x) PROVE FALSE
  <2>1. PICK h : h = << w, "=" >>
    OBVIOUS
  <2>2. w \in Token /\ "=" \in Token
    BY UriParamsAssumption DEF Token, Mark
  <2>3. h \in Text /\ Len(h) = 2 /\ h[1] = w /\ h[2] = "="
    BY <2>1, <2>2 DEF Text
  <2>4. Len(h) <= Len(x) /\ SubSeq(h, 1, Len(h)) = SubSeq(x, 1, Len(h))
    BY <1>14, <2>1 DEF IsPrefix
  <2>5. x \in Text /\ Len(x) \in Nat /\ Len(x) = z - (d + 1) + 1
    <3>1. x \in Text
      BY <1>12 DEF Window
    <3> QED
      BY <1>12, <3>1, WindowNumbers
  <2>6. PICK g : g = SubSeq(x, 1, 2)
    OBVIOUS
  <2>7. \A k \in 1..2 : g[k] = x[k]
    <3>1. 1 \in 1..(Len(x) + 1) /\ 2 \in (1 - 1)..Len(x) /\ 2 - 1 + 1 = 2 /\ \A k \in 1..2 : 1 + k - 1 = k
      BY <2>3, <2>4, <2>5
    <3>2. \A k \in 1..(2 - 1 + 1) : g[k] = x[1 + k - 1]
      BY <2>5, <2>6, <3>1, Piece
    <3> QED
      BY <3>1, <3>2
  <2>8. SubSeq(h, 1, 2) = h
    <3>1. PICK n : n = << >>
      OBVIOUS
    <3>2. h \in Text /\ n \in Text /\ h = h \o n
      BY <2>3, <3>1, EmptyText, WithEmpty
    <3>3. SubSeq(h, 1, Len(h)) = h
      BY ONLY <3>2, Halves
    <3> QED
      BY <2>3, <3>3
  <2>9. x[1] = w /\ x[2] = "="
    <3>1. g = h
      BY <2>3, <2>4, <2>6, <2>8
    <3> QED
      BY <2>3, <2>7, <3>1
  <2>10. 1 \in 1..Len(x) /\ 2 \in 1..Len(x) /\ (d + 1) + 1 - 1 = d + 1 /\ (d + 1) + 2 - 1 = d + 2 /\ d + 2 <= Len(v)
    <3>1. 2 <= Len(x)
      BY <2>3, <2>4
    <3> QED
      BY <1>2, <2>5, <3>1
  <2>11. v[d + 1] = w /\ v[d + 2] = "="
    <3>1. x[1] = v[(d + 1) + 1 - 1] /\ x[2] = v[(d + 1) + 2 - 1]
      BY <1>12, <2>10, WindowAt
    <3> QED
      BY <2>9, <2>10, <3>1
  <2> QED
    BY <1>1, <2>10, <2>11
<1>15. Len(v) # 1 /\ Len(v) # 0
  BY <1>2
<1>16. ~IsShort(v)
  BY <1>15 DEF IsShort
<1> QED
  BY <1>9, <1>13, <1>14, <1>16 DEF BadFormat

-----------------------------------------------------------------------------
(* The query of a URI, and the parameters in it that can be told apart.      *)
IsQuery(u, q) == u \in Text /\ q \in 1..Len(u) /\ u[q] = "?" /\ NotIn(u, 1, q - 1, "?")

PartIn(u, q, i, j) ==
  /\ i \in (q + 1)..(Len(u) + 1) /\ j \in (i - 1)..Len(u)
  /\ i = q + 1 \/ u[i - 1] = "&"
  /\ NotIn(u, i, j, "&")
  /\ \/ j = Len(u) /\ i = q + 1
     \/ j < Len(u) /\ u[j + 1] = "&"

(* The one at i..j is that of a table, and no later one is. *)
KeyAt(u, i, j) ==
  /\ i < j /\ u[i] \in Kind /\ u[i + 1] = "="
  /\ \A k \in (j + 2)..Len(u) : u[k - 1] = "&" => u[k] # u[i]

(* What is known of one that was read: the next begins at p, ... *)
PartRead(i, j) ==
  /\ ~NotIn(uri, i, j, "=")
  /\ KeyAt(uri, i, j) => Value(uri[i]) = Some(SubSeq(uri, i + 2, j))

ReadTo(q, p) ==
  /\ IsQuery(uri, q)
  /\ p \in (q + 1)..(Len(uri) + 1) /\ (p = q + 1 \/ uri[p - 1] = "&")
  /\ Window(rest, uri, p, Len(uri))
  /\ \A i \in 1..(Len(uri) + 1), j \in 0..Len(uri) : PartIn(uri, q, i, j) /\ i < p => PartRead(i, j)

(* ... or there is no other. *)
PartsRead ==
  \A q \in 1..Len(uri), i \in 1..(Len(uri) + 1), j \in 0..Len(uri) :
    IsQuery(uri, q) /\ PartIn(uri, q, i, j) => PartRead(i, j)

LEMMA QueryNumbers ==
  ASSUME NEW u, NEW q, IsQuery(u, q)
  PROVE  u \in Text /\ Len(u) \in Nat /\ q \in 1..Len(u)
BY DEF IsQuery, Text

LEMMA OneQuery ==
  ASSUME NEW u, NEW q, NEW r, IsQuery(u, q), IsQuery(u, r)
  PROVE  q = r
<1>1. Len(u) \in Nat /\ q \in 1..Len(u) /\ r \in 1..Len(u)
  BY QueryNumbers
<1>2. ~(q \in 1..(r - 1)) /\ ~(r \in 1..(q - 1))
  BY DEF IsQuery, NotIn
<1> QED
  BY ONLY <1>1, <1>2

(* A parameter in front of a beginning ends in front of it. *)
LEMMA EarlierPart ==
  ASSUME NEW u, NEW q, NEW p, NEW i, NEW j, IsQuery(u, q),
         p \in (q + 1)..(Len(u) + 1), p = q + 1 \/ u[p - 1] = "&",
         PartIn(u, q, i, j), i < p
  PROVE  u[p - 1] = "&" /\ p \in (j + 2)..(Len(u) + 1)
<1>1. Len(u) \in Nat /\ q \in 1..Len(u)
  BY QueryNumbers
<1>2. i \in (q + 1)..(Len(u) + 1) /\ j \in (i - 1)..Len(u)
  BY DEF PartIn
<1>3. p \in (q + 1)..(Len(u) + 1) /\ i < p
  OBVIOUS
<1>4. p # q + 1
  BY ONLY <1>1, <1>2, <1>3
<1>5. u[p - 1] = "&"
  BY <1>4
<1>6. ~(p - 1 \in i..j)
  BY <1>5 DEF PartIn, NotIn
<1>7. p \in (j + 2)..(Len(u) + 1)
  BY ONLY <1>1, <1>2, <1>3, <1>6
<1> QED
  BY <1>5, <1>7

(* One that begins where the reading has come to: ... *)
LEMMA PartBegins ==
  ASSUME NEW u, NEW q, NEW p, NEW i, NEW j, IsQuery(u, q),
         p \in (q + 1)..(Len(u) + 1), PartIn(u, q, i, j), p <= i,
         NEW e, e \in p..(Len(u) + 1), NotIn(u, p, e - 1, "&"), i <= e
  PROVE  i = p
<1>1. Len(u) \in Nat /\ q \in 1..Len(u)
  BY QueryNumbers
<1>2. i \in (q + 1)..(Len(u) + 1)
  BY DEF PartIn
<1>3. p \in (q + 1)..(Len(u) + 1) /\ p <= i /\ e \in p..(Len(u) + 1) /\ i <= e
  OBVIOUS
<1>4. CASE i = q + 1
  BY ONLY <1>1, <1>3, <1>4
<1>5. CASE u[i - 1] = "&"
  <2>1. ~(i - 1 \in p..(e - 1))
    BY <1>5 DEF NotIn
  <2> QED
    BY ONLY <1>1, <1>2, <1>3, <2>1
<1> QED
  BY <1>4, <1>5 DEF PartIn

(* ... it is cut off by the next "&", ... *)
LEMMA ThisPart ==
  ASSUME NEW u, NEW q, NEW p, NEW i, NEW j, IsQuery(u, q),
         p \in (q + 1)..(Len(u) + 1), PartIn(u, q, i, j), p <= i,
         NEW e, e \in p..Len(u), u[e] = "&", NotIn(u, p, e - 1, "&"), i <= e
  PROVE  i = p /\ j = e - 1
<1>1. Len(u) \in Nat /\ q \in 1..Len(u)
  BY QueryNumbers
<1>2. i \in (q + 1)..(Len(u) + 1) /\ j \in (i - 1)..Len(u)
  BY DEF PartIn
<1>3. p \in (q + 1)..(Len(u) + 1) /\ p <= i /\ e \in p..Len(u) /\ i <= e
  OBVIOUS
<1>4. e \in p..(Len(u) + 1)
  BY ONLY <1>1, <1>3
<1>5. i = p
  BY <1>4, PartBegins
<1>6. ~(e \in i..j)
  BY DEF PartIn, NotIn
<1>7. j # Len(u)
  BY ONLY <1>1, <1>2, <1>3, <1>6
<1>8. j < Len(u) /\ u[j + 1] = "&"
  BY <1>7 DEF PartIn
<1>9. ~(j + 1 \in p..(e - 1))
  BY <1>8 DEF NotIn
<1>10. j = e - 1
  BY ONLY <1>1, <1>2, <1>3, <1>5, <1>6, <1>9
<1> QED
  BY <1>5, <1>10

(* ... and when there is none, it can be told apart if it is the only one. *)
LEMMA LastPart ==
  ASSUME NEW u, NEW q, NEW p, NEW i, NEW j, IsQuery(u, q),
         p \in (q + 1)..(Len(u) + 1), PartIn(u, q, i, j), p <= i, NotIn(u, p, Len(u), "&")
  PROVE  i = p /\ j = Len(u) /\ p = q + 1
<1>1. Len(u) \in Nat /\ q \in 1..Len(u)
  BY QueryNumbers
<1>2. i \in (q + 1)..(Len(u) + 1) /\ j \in (i - 1)..Len(u)
  BY DEF PartIn
<1>3. p \in (q + 1)..(Len(u) + 1) /\ p <= i
  OBVIOUS
<1>4. PICK e : e = Len(u) + 1
  OBVIOUS
<1>5. e \in p..(Len(u) + 1) /\ e - 1 = Len(u) /\ i <= e
  BY ONLY <1>1, <1>2, <1>3, <1>4
<1>6. i = p
  BY <1>5, PartBegins
<1>7. CASE j = Len(u) /\ i = q + 1
  BY <1>6, <1>7
<1>8. CASE j < Len(u) /\ u[j + 1] = "&"
  <2>1. ~(j + 1 \in p..Len(u)) /\ j < Len(u)
    BY <1>8 DEF NotIn
  <2> QED
    BY ONLY <1>1, <1>2, <1>3, <2>1
<1> QED
  BY <1>7, <1>8 DEF PartIn

(* The key and the value of a table's parameter. *)
LEMMA KeyCut ==
  ASSUME NEW w, NEW u, NEW a, NEW z, Window(w, u, a, z), a < z, u[a] \in Kind, u[a + 1] = "="
  PROVE  Before(w, "=") = << u[a] >> /\ After(w, "=") = SubSeq(u, a + 2, z)
<1>1. /\ Len(u) \in Nat /\ a \in Int /\ z \in Int /\ 1 <= a /\ a <= z + 1 /\ z <= Len(u) /\ a < z
  BY WindowNumbers
<1>2. u[a] \in Token /\ u[a] # "="
  BY UriParamsAssumption DEF Kind, Known, Token, Mark
<1>3. a + 1 \in a..z /\ (a + 1) - 1 = a /\ (a + 1) + 1 = a + 2 /\ \A k \in a..a : k = a
  BY ONLY <1>1
<1>4. NotIn(u, a, (a + 1) - 1, "=")
  BY <1>2, <1>3 DEF NotIn
<1>5. CutsAt(w, u, a, z, "=", a + 1)
  BY <1>3, <1>4, WindowCut
<1>6. Window(Before(w, "="), u, a, a) /\ Window(After(w, "="), u, a + 2, z)
  BY <1>3, <1>5 DEF CutsAt
<1>7. PICK b : b = Before(w, "=")
  OBVIOUS
<1>8. b = << u[a] >>
  <2>1. Window(b, u, a, a)
    BY <1>6, <1>7
  <2>2. Len(b) = 1
    <3>1. Len(b) = a - a + 1
      BY <2>1, WindowNumbers
    <3> QED
      BY ONLY <1>1, <3>1
  <2>3. b[1] = u[a]
    <3>1. a <= a
      BY ONLY <1>1
    <3> QED
      BY <2>1, <3>1, WindowTail
  <2>4. b \in Text
    BY <2>1 DEF Window
  <2>5. PICK t : t = << u[a] >>
    OBVIOUS
  <2>6. t \in Text /\ Len(t) = 1 /\ t[1] = u[a]
    BY <1>2, <2>5 DEF Text
  <2>7. \A k \in 1..1 : k = 1
    OBVIOUS
  <2>8. b = t
    BY <2>2, <2>3, <2>4, <2>6, <2>7, SameText
  <2> QED
    BY <2>5, <2>8
<1>9. SubSeq(u, a + 2, z) = After(w, "=")
  <2>1. Window(u, u, 1, Len(u))
    BY WholeWindow DEF Window
  <2>2. a + 2 \in 1..(Len(u) + 1) /\ z \in ((a + 2) - 1)..Len(u) /\ 1 + (a + 2) - 1 = a + 2 /\ 1 + z - 1 = z
    BY ONLY <1>1
  <2>3. Window(SubSeq(u, a + 2, z), u, 1 + (a + 2) - 1, 1 + z - 1)
    BY <2>1, <2>2, WindowPiece
  <2> QED
    BY <1>6, <2>2, <2>3, SameWindow
<1> QED
  BY <1>7, <1>8, <1>9

LEMMA OneToken ==
  ASSUME NEW b, NEW u, NEW a, NEW y, Window(b, u, a, y), NEW x, b = << x >>
  PROVE  u[a] = x /\ a \in 1..Len(u)
<1>1. /\ Len(u) \in Nat /\ a \in Int /\ y \in Int /\ 1 <= a /\ a <= y + 1 /\ y <= Len(u) /\ Len(b) = y - a + 1
  BY WindowNumbers
<1>2. Len(b) = 1 /\ b[1] = x
  OBVIOUS
<1>3. a <= y /\ a \in 1..Len(u)
  BY ONLY <1>1, <1>2
<1> QED
  BY <1>2, <1>3, WindowTail

(* What is stored at p leaves the tables alone that an earlier one describes. *)
LEMMA EarlierRead ==
  ASSUME NEW q, NEW p, NEW i, NEW j, IsQuery(uri, q),
         p \in (q + 1)..(Len(uri) + 1), p = q + 1 \/ uri[p - 1] = "&",
         PartIn(uri, q, i, j), i < p, PartRead(i, j),
         uri' = uri, NEW key, NEW v, params' = Stored(key, v),
         NEW y, Window(key, uri, p, y)
  PROVE  PartRead(i, j)'
<1>1. uri[p - 1] = "&" /\ p \in (j + 2)..(Len(uri) + 1)
  BY EarlierPart
<1>2. ~NotIn(uri, i, j, "=")
  BY DEF PartRead
<1>3. CASE ~KeyAt(uri, i, j)
  BY <1>2, <1>3 DEF PartRead
<1>4. CASE KeyAt(uri, i, j)
  <2>1. PICK x : x = uri[i]
    OBVIOUS
  <2>2. key # << x >>
    <3> SUFFICES ASSUME key = << x >> PROVE FALSE
      OBVIOUS
    <3>1. uri[p] = x /\ p \in 1..Len(uri)
      BY OneToken
    <3>2. p \in (j + 2)..Len(uri)
      <4>1. Len(uri) \in Nat /\ i \in Int /\ j \in Int
        BY QueryNumbers DEF PartIn
      <4> QED
        BY ONLY <1>1, <3>1, <4>1
    <3> QED
      BY <1>1, <1>4, <2>1, <3>1, <3>2 DEF KeyAt
  <2>3. Value(x) = Some(SubSeq(uri, i + 2, j))
    BY <1>4, <2>1 DEF PartRead
  <2>4. /\ DOMAIN params' = DOMAIN params \union {key}
        /\ \A k \in DOMAIN params : k # key => params'[k] = params[k]
    BY DEF Stored
  <2>5. PICK k : k = << x >>
    OBVIOUS
  <2>6. k # key
    BY <2>2, <2>5
  <2>7. (IF k \in DOMAIN params' THEN Some(params'[k]) ELSE None) = IF k \in DOMAIN params THEN Some(params[k]) ELSE None
    BY <2>4, <2>6
  <2>8. Value(x)' = Value(x)
    BY <2>5, <2>7 DEF Value
  <2>9. Value(uri[i])' = Some(SubSeq(uri, i + 2, j))
    BY <2>1, <2>3, <2>8 DEF Value
  <2> QED
    BY <1>2, <2>9 DEF PartRead
<1> QED
  BY <1>3, <1>4

(* The one that is stored at p. *)
LEMMA ThisRead ==
  ASSUME NEW p, NEW j, NEW w, Window(w, uri, p, j), Has(w, "="),
         uri' = uri, params' = Stored(Before(w, "="), After(w, "="))
  PROVE  PartRead(p, j)'
<1>1. ~NotIn(uri, p, j, "=")
  BY WindowUncut
<1>2. CASE ~KeyAt(uri, p, j)
  BY <1>1, <1>2 DEF PartRead
<1>3. CASE KeyAt(uri, p, j)
  <2>1. PICK x : x = uri[p]
    OBVIOUS
  <2>2. PICK v : v = SubSeq(uri, p + 2, j)
    OBVIOUS
  <2>3. Before(w, "=") = << x >> /\ After(w, "=") = v
    BY <1>3, <2>1, <2>2, KeyCut DEF KeyAt
  <2>4. params' = Stored(<< x >>, v)
    BY <2>3
  <2>5. Value(x)' = Some(v)
    BY ONLY <2>4, StoredValue
  <2>6. Value(uri[p])' = Some(v)
    BY <2>1, <2>5 DEF Value
  <2> QED
    BY <1>1, <2>2, <2>6 DEF PartRead
<1> QED
  BY <1>2, <1>3

(* The steps that read the parameters. *)
LEMMA TakeReads ==
  ASSUME NEW q, NEW p, ReadTo(q, p), TakeParam
  PROVE  pc' = "query" /\ \E e : ReadTo(q, e)'
<1>1. IsQuery(uri, q) /\ p \in (q + 1)..(Len(uri) + 1) /\ Window(rest, uri, p, Len(uri))
  BY DEF ReadTo
<1>2. p = q + 1 \/ uri[p - 1] = "&"
  BY DEF ReadTo
<1>3. Has(rest, "&")
  BY DEF TakeParam
<1>4. PICK e \in p..Len(uri) : /\ uri[e] = "&" /\ NotIn(uri, p, e - 1, "&")
                               /\ CutsAt(rest, uri, p, Len(uri), "&", e)
  BY <1>1, <1>3, WindowFind
<1>5. PICK w : w = Before(rest, "&")
  OBVIOUS
<1>6. Has(w, "=") /\ params' = Stored(Before(w, "="), After(w, "=")) /\ uri' = uri /\ pc' = "query"
  BY <1>5 DEF TakeParam
<1>7. Window(w, uri, p, e - 1) /\ Window(rest', uri, e + 1, Len(uri))
  BY <1>4, <1>5 DEF CutsAt, TakeParam
<1>8. PICK g \in p..(e - 1) : CutsAt(w, uri, p, e - 1, "=", g)
  BY <1>6, <1>7, WindowFind
<1>9. Window(Before(w, "="), uri, p, g - 1)
  BY <1>8 DEF CutsAt
<1>10. Len(uri) \in Nat /\ q \in 1..Len(uri) /\ p \in (q + 1)..(Len(uri) + 1) /\ e \in p..Len(uri)
  BY <1>1, QueryNumbers
<1>11. /\ e + 1 \in (q + 1)..(Len(uri) + 1) /\ (e + 1) - 1 = e
       /\ e \in p..(Len(uri) + 1) /\ e # Len(uri) + 1
  BY ONLY <1>10
<1>12. ASSUME NEW i \in 1..(Len(uri) + 1), NEW j \in 0..Len(uri), PartIn(uri, q, i, j), i < e + 1
       PROVE  PartRead(i, j)'
  <2>1. CASE i < p
    <3>1. PartRead(i, j)
      BY <1>12, <2>1 DEF ReadTo
    <3> QED
      BY <1>1, <1>2, <1>6, <1>9, <1>12, <2>1, <3>1, EarlierRead
  <2>2. CASE ~(i < p)
    <3>1. p <= i /\ i <= e
      BY ONLY <1>10, <1>12, <2>2
    <3>2. i = p /\ j = e - 1
      BY <1>1, <1>4, <1>12, <3>1, ThisPart
    <3> QED
      BY <1>6, <1>7, <3>2, ThisRead
  <2> QED
    BY <2>1, <2>2
<1>13. ReadTo(q, e + 1)'
  <2>1. IsQuery(uri, q)'
    BY <1>1, <1>6
  <2> QED
    BY <1>4, <1>6, <1>7, <1>11, <1>12, <2>1 DEF ReadTo
<1> QED
  BY <1>6, <1>13

(* Behind the last "&": what is stored there is a parameter that can be told *)
(* apart only when it is the whole query.                                    *)
LEMMA LastReads ==
  ASSUME NEW q, NEW p, ReadTo(q, p), LastParam \/ StrayParam
  PROVE  pc' = "connect" /\ PartsRead'
<1>1. IsQuery(uri, q) /\ p \in (q + 1)..(Len(uri) + 1) /\ Window(rest, uri, p, Len(uri))
  BY DEF ReadTo
<1>2. p = q + 1 \/ uri[p - 1] = "&"
  BY DEF ReadTo
<1>3. ~Has(rest, "&") /\ uri' = uri /\ pc' = "connect"
  BY DEF LastParam, StrayParam
<1>4. Len(uri) \in Nat /\ q \in 1..Len(uri) /\ p \in (q + 1)..(Len(uri) + 1)
  BY <1>1, QueryNumbers
<1>5. NotIn(uri, p, Len(uri), "&")
  <2>1. ASSUME NEW k \in p..Len(uri), uri[k] = "&" PROVE FALSE
    <3>1. k - p + 1 \in 1..Len(rest) /\ rest[k - p + 1] = "&"
      <4>1. Len(rest) = Len(uri) - p + 1
        BY <1>1, WindowNumbers
      <4>2. k - p + 1 \in 1..Len(rest)
        BY ONLY <1>4, <2>1, <4>1
      <4> QED
        BY <1>1, <2>1, <4>2 DEF Window
    <3>2. rest \in Text
      BY <1>1 DEF Window
    <3> QED
      BY <1>3, <3>1, <3>2, FindProperties DEF Has
  <2> QED
    BY <2>1 DEF NotIn
<1>6. PICK key, v : params' = Stored(key, v) /\ \E y : Window(key, uri, p, y)
  <2>1. CASE LastParam
    <3>1. PICK g \in p..Len(uri) : CutsAt(rest, uri, p, Len(uri), "=", g)
      BY <1>1, <2>1, WindowFind DEF LastParam
    <3>2. Window(Before(rest, "="), uri, p, g - 1)
      BY <3>1 DEF CutsAt
    <3> QED
      BY <2>1, <3>2 DEF LastParam
  <2>2. CASE StrayParam
    BY <1>1, <2>2 DEF StrayParam
  <2> QED
    BY <2>1, <2>2
<1>7. p = q + 1 => Whole
  <2> SUFFICES ASSUME p = q + 1 PROVE Whole
    OBVIOUS
  <2>1. uri \in Text /\ Window(uri, uri, 1, Len(uri))
    BY <1>1, WholeWindow DEF IsQuery
  <2>2. CutsAt(uri, uri, 1, Len(uri), "?", q)
    BY <1>1, <2>1, WindowCut DEF IsQuery
  <2>3. Has(uri, "?") /\ Window(After(uri, "?"), uri, p, Len(uri))
    BY <2>2 DEF CutsAt
  <2>4. After(uri, "?") = rest
    BY <1>1, <2>3, SameWindow
  <2> QED
    BY <2>3, <2>4 DEF Whole, Query
<1>8. ASSUME NEW i \in 1..(Len(uri) + 1), NEW j \in 0..Len(uri), PartIn(uri, q, i, j)
      PROVE  PartRead(i, j)'
  <2>1. CASE i < p
    <3>1. PartRead(i, j)
      BY <1>8, <2>1 DEF ReadTo
    <3>2. PICK y : Window(key, uri, p, y)
      BY <1>6
    <3>3. params' = Stored(key, v)
      BY <1>6
    <3> QED
      BY <1>1, <1>2, <1>3, <1>8, <2>1, <3>1, <3>2, <3>3, EarlierRead
  <2>2. CASE ~(i < p)
    <3>1. p <= i
      BY ONLY <1>4, <1>8, <2>2
    <3>2. i = p /\ j = Len(uri) /\ p = q + 1
      BY <1>1, <1>5, <1>8, <3>1, LastPart
    <3>3. Whole
      BY <1>7, <3>2
    <3>4. LastParam
      BY <3>3 DEF StrayParam
    <3>5. Has(rest, "=") /\ params' = Stored(Before(rest, "="), After(rest, "="))
      BY <3>3, <3>4 DEF LastParam
    <3> QED
      BY <1>1, <1>3, <3>2, <3>5, ThisRead
  <2> QED
    BY <2>1, <2>2
<1>9. PartsRead'
  <2> SUFFICES ASSUME NEW r \in 1..Len(uri), NEW i \in 1..(Len(uri) + 1), NEW j \in 0..Len(uri),
                      IsQuery(uri, r), PartIn(uri, r, i, j)
               PROVE  PartRead(i, j)'
    BY <1>3 DEF PartsRead
  <2>1. r = q
    BY <1>1, OneQuery
  <2> QED
    BY <1>8, <2>1
<1> QED
  BY <1>3, <1>9

(* Both, by where the code is. *)
Placed ==
  /\ pc = "query" => \E q \in 1..Len(uri), p \in 1..(Len(uri) + 1) : ReadTo(q, p)
  /\ pc \in {"connect", "ctx", "conf", "map", "base", "ok"} => PartsRead

LEMMA ReadToPlaced ==
  ASSUME NEW q, NEW p, ReadTo(q, p)
  PROVE  \E r \in 1..Len(uri), s \in 1..(Len(uri) + 1) : ReadTo(r, s)
<1>1. Len(uri) \in Nat /\ q \in 1..Len(uri) /\ p \in (q + 1)..(Len(uri) + 1)
  BY QueryNumbers DEF ReadTo
<1>2. p \in 1..(Len(uri) + 1)
  BY ONLY <1>1
<1> QED
  BY <1>1, <1>2

LEMMA ReadToPlacedNext ==
  ASSUME NEW q, NEW p
  PROVE  ReadTo(q, p)' => (\E r \in 1..Len(uri), s \in 1..(Len(uri) + 1) : ReadTo(r, s))'
<1> DEFINE R == ReadTo(q, p)
           E == \E r \in 1..Len(uri), s \in 1..(Len(uri) + 1) : ReadTo(r, s)
<1>1. R => E
  BY ReadToPlaced
<1> HIDE DEF R, E
<1>2. R' => E'
  BY <1>1, PTL
<1> QED
  BY <1>2 DEF R, E

(* The beginning: the first parameter, or none. *)
LEMMA BeginPlaced ==
  ASSUME NEW u \in Text, uri = u, rest = Or(Query(u), <<>>), pc = FirstStep(u)
  PROVE  Placed
<1>1. pc \in {"query", "connect", "bad"}
  BY DEF FirstStep
<1>2. Window(u, u, 1, Len(u))
  BY WholeWindow
<1>3. ASSUME pc = "query" PROVE \E q \in 1..Len(uri), p \in 1..(Len(uri) + 1) : ReadTo(q, p)
  <2>1. Query(u) # None
    BY <1>3 DEF FirstStep
  <2>2. Has(u, "?") /\ Query(u) = Some(After(u, "?"))
    BY <2>1 DEF Query
  <2>3. rest = After(u, "?")
    BY <2>2, OrSome
  <2>4. PICK q \in 1..Len(u) : u[q] = "?" /\ NotIn(u, 1, q - 1, "?") /\ CutsAt(u, u, 1, Len(u), "?", q)
    BY <1>2, <2>2, WindowFind
  <2>5. IsQuery(uri, q)
    BY <2>4 DEF IsQuery
  <2>6. Window(rest, uri, q + 1, Len(uri))
    BY <2>3, <2>4 DEF CutsAt
  <2>7. Len(uri) \in Nat /\ q \in 1..Len(uri)
    BY <2>5, QueryNumbers
  <2>8. q + 1 \in (q + 1)..(Len(uri) + 1)
    BY ONLY <2>7
  <2>9. ASSUME NEW i, NEW j, PartIn(uri, q, i, j) PROVE ~(i < q + 1)
    <3>1. i \in (q + 1)..(Len(uri) + 1)
      BY <2>9 DEF PartIn
    <3> QED
      BY ONLY <2>7, <3>1
  <2>10. ReadTo(q, q + 1)
    BY <2>5, <2>6, <2>8, <2>9 DEF ReadTo
  <2> QED
    BY <2>10, ReadToPlaced
<1>4. ASSUME pc = "connect" PROVE PartsRead
  <2>1. Query(u) = None
    BY <1>4 DEF FirstStep
  <2>2. ~Has(u, "?")
    BY <2>1 DEF Query, None, Some
  <2>3. ASSUME NEW q, IsQuery(uri, q) PROVE FALSE
    <3>1. q \in 1..Len(u) /\ u[q] = "?" /\ NotIn(u, 1, q - 1, "?")
      BY <2>3 DEF IsQuery
    <3>2. CutsAt(u, u, 1, Len(u), "?", q)
      BY <1>2, <3>1, WindowCut
    <3> QED
      BY <2>2, <3>2 DEF CutsAt
  <2> QED
    BY <2>3 DEF PartsRead
<1> QED
  BY <1>1, <1>3, <1>4 DEF Placed

LEMMA BeginPlacedNext ==
  ASSUME NEW u \in Text
  PROVE  (uri = u /\ rest = Or(Query(u), <<>>) /\ pc = FirstStep(u))' => Placed'
<1> DEFINE Begun == uri = u /\ rest = Or(Query(u), <<>>) /\ pc = FirstStep(u)
           Held == Placed
<1>1. Begun => Held
  BY BeginPlaced
<1> HIDE DEF Begun, Held
<1>2. Begun' => Held'
  BY <1>1, PTL
<1> QED
  BY <1>2 DEF Begun, Held

LEMMA PlacedStep ==
  ASSUME Placed, Step
  PROVE  Placed'
<1>1. CASE TakeParam
  <2>1. pc = "query"
    BY <1>1 DEF TakeParam
  <2>2. PICK q, p : ReadTo(q, p)
    BY <2>1 DEF Placed
  <2>3. pc' = "query" /\ \E e : ReadTo(q, e)'
    BY <1>1, <2>2, TakeReads
  <2>4. PICK e : ReadTo(q, e)'
    BY <2>3
  <2> QED
    BY <2>3, <2>4, ReadToPlacedNext DEF Placed
<1>2. CASE LastParam \/ StrayParam
  <2>1. pc = "query"
    BY <1>2 DEF LastParam, StrayParam
  <2>2. PICK q, p : ReadTo(q, p)
    BY <2>1 DEF Placed
  <2>3. pc' = "connect" /\ PartsRead'
    BY <1>2, <2>2, LastReads
  <2> QED
    BY <2>3 DEF Placed
<1>3. CASE BadParam \/ BadLastParam \/ BadConnect
  BY <1>3 DEF BadParam, BadLastParam, BadConnect, Placed
<1>4. CASE Connect \/ CtxParam \/ ConfParam \/ MapParam \/ BaseParam
  <2>1. /\ uri' = uri /\ params' = params
        /\ pc \in {"connect", "ctx", "conf", "map", "base", "ok"} /\ pc' # "query"
    BY <1>4 DEF Connect, CtxParam, ConfParam, MapParam, TableParam, BaseParam
  <2>2. PartsRead
    BY <2>1 DEF Placed
  <2>3. ASSUME NEW i, NEW j PROVE PartRead(i, j)' <=> PartRead(i, j)
    BY <2>1 DEF PartRead, Value
  <2>4. PartsRead'
    BY <2>1, <2>2, <2>3 DEF PartsRead
  <2> QED
    BY <2>1, <2>4 DEF Placed
<1> QED
  BY <1>1, <1>2, <1>3, <1>4 DEF Step

-----------------------------------------------------------------------------
(* Past the location, it is a good one; past a table, its value is one.      *)
BadValue(kind) ==
  LET v == Or(Value(kind), <<>>) IN ~IsShort(v) /\ BadFormat(kind, v)

Passed(kind) ==
  pc \in (CASE kind = "ctx" -> {"conf", "map", "base", "ok"}
            [] kind = "conf" -> {"map", "base", "ok"}
            [] kind = "map" -> {"base", "ok"})

ColumnsInv ==
  /\ Typed /\ Placed
  /\ Connected => ~BadLocation
  /\ \A kind \in Kind : Passed(kind) => ~BadValue(kind)

LEMMA SameLocation ==
  ASSUME uri' = uri
  PROVE  BadLocation' <=> BadLocation
<1>1. Location' = Location
  BY DEF Location, Authority
<1>2. Bracketed' <=> Bracketed
  BY <1>1 DEF Bracketed
<1>3. HostEnd' = HostEnd
  BY <1>1, <1>2 DEF HostEnd
<1>4. AfterHost' = AfterHost
  BY <1>1, <1>2, <1>3 DEF AfterHost
<1>5. (HasPort' <=> HasPort) /\ PortSpec' = PortSpec
  BY <1>4 DEF HasPort, PortSpec
<1>6. PortNo' = PortNo
  BY <1>5 DEF PortNo
<1> QED
  BY <1>1, <1>2, <1>5, <1>6 DEF BadLocation

LEMMA SameBadValue ==
  ASSUME params' = params, NEW kind
  PROVE  BadValue(kind)' <=> BadValue(kind)
<1>1. Value(kind)' = Value(kind)
  BY DEF Value
<1> QED
  BY <1>1 DEF BadValue

LEMMA ColumnsInit == Init => ColumnsInv
<1> SUFFICES ASSUME Init PROVE ColumnsInv
  OBVIOUS
<1>1. uri \in Text /\ rest = Or(Query(uri), <<>>) /\ pc = FirstStep(uri)
  BY UriParamsAssumption DEF Init
<1>2. Placed
  BY <1>1, BeginPlaced
<1>3. pc \in {"query", "connect", "bad"}
  BY <1>1 DEF FirstStep
<1>4. ~Connected /\ \A kind \in Kind : ~Passed(kind)
  BY <1>3 DEF Connected, Passed, Kind
<1> QED
  BY <1>2, <1>4, InitTyped DEF ColumnsInv

(* A table's step: its value is a good one, or the URI is refused. *)
LEMMA TableGood ==
  ASSUME NEW kind \in Kind, NEW next, TableParam(kind, next)
  PROVE  /\ uri' = uri /\ params' = params /\ pc = kind
         /\ pc' = "bad" \/ (pc' = next /\ ~BadValue(kind))
<1>1. PICK v : v = Or(Value(kind), <<>>)
  OBVIOUS
<1>2. CASE ~IsShort(v) /\ BadFormat(kind, v)
  BY <1>1, <1>2 DEF TableParam
<1>3. CASE ~(~IsShort(v) /\ BadFormat(kind, v))
  <2>1. ~BadValue(kind)
    BY <1>1, <1>3 DEF BadValue
  <2> QED
    BY <1>1, <1>3, <2>1 DEF TableParam
<1> QED
  BY <1>2, <1>3

LEMMA ColumnsStep == ColumnsInv /\ [Next]_vars => ColumnsInv'
<1> SUFFICES ASSUME ColumnsInv, [Next]_vars PROVE ColumnsInv'
  OBVIOUS
<1>1. Typed'
  BY StepTyped DEF ColumnsInv
<1>2. CASE Again
  <2>1. PICK u \in Uris : Begin(u)
    BY <1>2 DEF Again
  <2>2. /\ u \in Text
        /\ uri' = u /\ rest' = Or(Query(u), <<>>) /\ pc' = FirstStep(u)
    BY <2>1, UriParamsAssumption DEF Begin
  <2>3. Placed'
    BY <2>2, BeginPlacedNext
  <2>4. pc' \in {"query", "connect", "bad"}
    BY <2>2 DEF FirstStep
  <2>5. ~Connected' /\ \A kind \in Kind : ~Passed(kind)'
    BY <2>4 DEF Connected, Passed, Kind
  <2> QED
    BY <1>1, <2>3, <2>5 DEF ColumnsInv
<1>3. CASE UNCHANGED vars
  <2>1. uri' = uri /\ rest' = rest /\ params' = params /\ pc' = pc
    BY <1>3 DEF vars
  <2>2. ASSUME NEW i, NEW j PROVE PartRead(i, j)' <=> PartRead(i, j)
    BY <2>1 DEF PartRead, Value
  <2>3. Placed'
    BY <2>1, <2>2 DEF ColumnsInv, Placed, ReadTo, PartsRead
  <2>4. \A kind \in Kind : Passed(kind)' => ~BadValue(kind)'
    BY <2>1, SameBadValue DEF ColumnsInv, Passed
  <2>5. Connected' => ~BadLocation'
    BY <2>1, SameLocation DEF ColumnsInv, Connected
  <2> QED
    BY <1>1, <2>3, <2>4, <2>5 DEF ColumnsInv
<1>4. CASE Step
  <2>1. Placed'
    BY <1>4, PlacedStep DEF ColumnsInv
  <2>2. (Connected => ~BadLocation)' /\ \A kind \in Kind : (Passed(kind) => ~BadValue(kind))'
    <3>1. CASE TakeParam \/ BadParam \/ LastParam \/ BadLastParam \/ StrayParam \/ BadConnect
      <4>1. pc' \in {"query", "connect", "bad"}
        BY <3>1 DEF TakeParam, BadParam, LastParam, BadLastParam, StrayParam, BadConnect
      <4> QED
        BY <4>1 DEF Connected, Passed, Kind
    <3>2. CASE Connect
      <4>1. uri' = uri /\ ~BadLocation /\ pc' = "ctx"
        BY <3>2 DEF Connect
      <4> QED
        BY <4>1, SameLocation DEF Connected, Passed, Kind
    <3>3. CASE CtxParam
      <4>1. "ctx" \in Kind /\ TableParam("ctx", "conf")
        BY <3>3 DEF CtxParam, Kind
      <4>2. uri' = uri /\ params' = params /\ pc = "ctx" /\ (pc' = "bad" \/ (pc' = "conf" /\ ~BadValue("ctx")))
        BY <4>1, TableGood
      <4> QED
        BY <4>2, SameLocation, SameBadValue DEF ColumnsInv, Connected, Passed, Kind
    <3>4. CASE ConfParam
      <4>1. "conf" \in Kind /\ TableParam("conf", "map")
        BY <3>4 DEF ConfParam, Kind
      <4>2. uri' = uri /\ params' = params /\ pc = "conf" /\ (pc' = "bad" \/ (pc' = "map" /\ ~BadValue("conf")))
        BY <4>1, TableGood
      <4> QED
        BY <4>2, SameLocation, SameBadValue DEF ColumnsInv, Connected, Passed, Kind
    <3>5. CASE MapParam
      <4>1. "map" \in Kind /\ TableParam("map", "base")
        BY <3>5 DEF MapParam, Kind
      <4>2. uri' = uri /\ params' = params /\ pc = "map" /\ (pc' = "bad" \/ (pc' = "base" /\ ~BadValue("map")))
        BY <4>1, TableGood
      <4> QED
        BY <4>2, SameLocation, SameBadValue DEF ColumnsInv, Connected, Passed, Kind
    <3>6. CASE BaseParam
      <4>1. uri' = uri /\ params' = params /\ pc = "base" /\ pc' = "ok"
        BY <3>6 DEF BaseParam
      <4> QED
        BY <4>1, SameLocation, SameBadValue DEF ColumnsInv, Connected, Passed, Kind
    <3> QED
      BY <1>4, <3>1, <3>2, <3>3, <3>4, <3>5, <3>6 DEF Step
  <2> QED
    BY <1>1, <2>1, <2>2 DEF ColumnsInv
<1> QED
  BY <1>2, <1>3, <1>4 DEF Next

(* A URI without the scheme, whose server is none, with a parameter that is  *)
(* none, or with a table that lacks some of its columns or has another third *)
(* part than a clause is never accepted, whatever was parsed before it and   *)
(* whatever the memory behind it holds.                                      *)
THEOREM AlwaysAllColumns == Spec => []AllColumns
<1>1. ColumnsInv => AllColumns
  <2> SUFFICES ASSUME ColumnsInv, pc = "ok", Malformed(uri) PROVE FALSE
    BY DEF AllColumns
  <2>1. HasScheme(uri) /\ uri \in Text /\ Connected /\ PartsRead /\ \A kind \in Kind : ~BadValue(kind)
    BY DEF ColumnsInv, Typed, TypeOK, Connected, Placed, Passed, Kind
  <2>2. ~BadServer(uri)
    BY <2>1, ServerRefused DEF ColumnsInv
  <2>3. PICK i \in 1..(Len(uri) + 1), j \in 1..Len(uri) : i <= j + 1 /\ PartAt(uri, i, j) /\ BadPart(uri, i, j)
    BY <2>1, <2>2 DEF Malformed
  <2>4. PICK q \in DOMAIN uri :
          /\ FirstIn(uri, 1, q, {"?"}) /\ q < i
          /\ i = q + 1 \/ uri[i - 1] = "&"
          /\ \A k \in i..j : uri[k] # "&"
          /\ IF j = Len(uri) THEN i = q + 1 ELSE uri[j + 1] = "&"
    BY <2>3 DEF PartAt
  <2>5. Len(uri) \in Nat /\ q \in 1..Len(uri) /\ i \in 1..(Len(uri) + 1) /\ j \in 1..Len(uri) /\ i <= j + 1 /\ q < i
    <3>1. Len(uri) \in Nat /\ q \in 1..Len(uri)
      BY <2>1 DEF Text
    <3> QED
      BY <2>3, <2>4, <3>1
  <2>6. IsQuery(uri, q)
    BY <2>1, <2>4, <2>5 DEF IsQuery, FirstIn, NotIn
  <2>7. /\ i \in (q + 1)..(Len(uri) + 1) /\ j \in (i - 1)..Len(uri) /\ j \in 0..Len(uri)
        /\ j = Len(uri) \/ j < Len(uri)
    BY ONLY <2>5
  <2>8. PartIn(uri, q, i, j)
    BY <2>4, <2>7 DEF PartIn, NotIn
  <2>9. PartRead(i, j)
    BY <2>1, <2>5, <2>6, <2>7, <2>8 DEF PartsRead
  <2>10. KeyAt(uri, i, j) /\ (SomeColumns(uri[i], SubSeq(uri, i + 2, j)) \/ NoClause(SubSeq(uri, i + 2, j)))
    BY <2>3, <2>9 DEF PartRead, NotIn, BadPart, KeyAt
  <2>11. PICK kind : kind = uri[i]
    OBVIOUS
  <2>12. PICK v : v = SubSeq(uri, i + 2, j)
    OBVIOUS
  <2>13. kind \in Kind /\ Value(kind) = Some(v) /\ (SomeColumns(kind, v) \/ NoClause(v))
    BY <2>9, <2>10, <2>11, <2>12 DEF KeyAt, PartRead
  <2>14. v \in Text
    <3>1. i < j
      BY <2>10 DEF KeyAt
    <3>2. i + 2 \in 1..(Len(uri) + 1) /\ j \in ((i + 2) - 1)..Len(uri)
      BY ONLY <2>5, <3>1
    <3> QED
      BY <2>1, <2>12, <3>2, Piece
  <2>15. ~IsShort(v) /\ BadFormat(kind, v)
    BY <2>13, <2>14, SomeColumnsBad, NoClauseBad
  <2>16. Or(Value(kind), <<>>) = v
    BY <2>13, OrSome
  <2>17. BadValue(kind)
    BY <2>15, <2>16 DEF BadValue
  <2> QED
    BY <2>1, <2>13, <2>17
<1> QED
  BY <1>1, ColumnsInit, ColumnsStep, PTL DEF Spec
=============================================================================
