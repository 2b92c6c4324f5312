------------------------- MODULE RoundTripDelivered -------------------------
(***************************************************************************)
(* What is imported comes back: EndToEnd.                                  *)
(*                                                                         *)
(* Meaning is a bag, and a bag does not tell which line is which.  Spells  *)
(* does: a text spells a function E if its lines, the closing tags apart,  *)
(* are matched one for one with the domain of E and each says what E says  *)
(* there.  Two texts that spell the same function have the same meaning.   *)
(*                                                                         *)
(* Three texts are then followed to one function, the tale of the tables:  *)
(* for each row below the root its tag, for each mapping to such a row its *)
(* directive, each within the tags that lead to the row.                   *)
(*   - Visit and Tells follow the recursion of a reader.  Of the contexts  *)
(*     met on the way to where the walk stands, each was met once, and the *)
(*     text spells the tale of those whose queries were answered.  They    *)
(*     hold of the walk of sql2conf.pl (ExportTold) and of the stack of    *)
(*     the server (ServerTold) as long as nobody writes.                   *)
(*   - FileParsed follows the parser: the lines read so far spell the tree *)
(*     in its memory.                                                      *)
(*   - FromFile is what Imported leaves: the rows stand one for one for    *)
(*     the contexts of that tree, and the k-th mapping of a row for the    *)
(*     k-th directive of its context.                                      *)
(***************************************************************************)
EXTENDS RoundTripProofs

-----------------------------------------------------------------------------
(* A text means a bag.  To compare two bags, the lines of each text are      *)
(* matched with the same set of things they stand for.                       *)

LineNos(ls) == {i \in DOMAIN ls : ls[i].kind # "close"}

EntryAt(ls, i) == <<OpenTags(ls)[i - 1], ls[i].kind, ls[i].what>>

OneToOne(f, S, T) ==
  /\ f \in [S -> T]
  /\ \A x, y \in S : f[x] = f[y] => x = y
  /\ \A y \in T : \E x \in S : f[x] = y

(* There is one line for each thing E speaks of, and it says what E says.    *)
Spells(ls, E) ==
  \E b : /\ OneToOne(b, LineNos(ls), DOMAIN E)
         /\ \A i \in LineNos(ls) : EntryAt(ls, i) = E[b[i]]

LEMMA MeaningIs ==
  ASSUME NEW ls
  PROVE  Meaning(ls) = [e \in {EntryAt(ls, i) : i \in LineNos(ls)} |->
                          Cardinality({i \in LineNos(ls) : EntryAt(ls, i) = e})]
  BY DEF Meaning, LineNos, EntryAt

LEMMA OneToOneBack ==
  ASSUME NEW f, NEW S, NEW T, OneToOne(f, S, T)
  PROVE  \E g : OneToOne(g, T, S) /\ (\A x \in S : g[f[x]] = x) /\ (\A y \in T : f[g[y]] = y)
<1> DEFINE g == [y \in T |-> CHOOSE x \in S : f[x] = y]
<1>1. \A y \in T : g[y] \in S /\ f[g[y]] = y
  BY DEF OneToOne
<1>2. g \in [T -> S]
  BY <1>1
<1> HIDE DEF g
<1>3. \A x \in S : g[f[x]] = x
  BY <1>1 DEF OneToOne
<1>4. OneToOne(g, T, S)
  BY <1>1, <1>2, <1>3 DEF OneToOne
<1> QED
  BY <1>1, <1>3, <1>4

LEMMA OneToOneThen ==
  ASSUME NEW f, NEW g, NEW S, NEW T, NEW U, OneToOne(f, S, T), OneToOne(g, T, U)
  PROVE  \E h : OneToOne(h, S, U) /\ \A x \in S : h[x] = g[f[x]]
<1> DEFINE h == [x \in S |-> g[f[x]]]
<1>1. h \in [S -> U] /\ \A x \in S : h[x] = g[f[x]]
  BY DEF OneToOne
<1> HIDE DEF h
<1>2. OneToOne(h, S, U)
  BY <1>1 DEF OneToOne
<1> QED
  BY <1>1, <1>2

LEMMA SpellsVia ==
  ASSUME NEW ls, NEW E, NEW F, NEW g, Spells(ls, E), OneToOne(g, DOMAIN E, DOMAIN F),
         \A u \in DOMAIN E : E[u] = F[g[u]]
  PROVE  Spells(ls, F)
<1>1. PICK b : OneToOne(b, LineNos(ls), DOMAIN E) /\ \A i \in LineNos(ls) : EntryAt(ls, i) = E[b[i]]
  BY DEF Spells
<1>2. PICK h : OneToOne(h, LineNos(ls), DOMAIN F) /\ \A i \in LineNos(ls) : h[i] = g[b[i]]
  BY <1>1, OneToOneThen
<1>3. \A i \in LineNos(ls) : b[i] \in DOMAIN E
  BY <1>1 DEF OneToOne
<1>4. \A i \in LineNos(ls) : EntryAt(ls, i) = F[h[i]]
  BY <1>1, <1>2, <1>3
<1> QED
  BY <1>2, <1>4 DEF Spells

LEMMA SpellsNothing ==
  ASSUME NEW E, DOMAIN E = {}
  PROVE  Spells(<<>>, E)
<1>1. LineNos(<<>>) = {}
  BY DEF LineNos
<1> DEFINE b == [i \in {} |-> i]
<1>2. OneToOne(b, {}, {})
  BY DEF OneToOne
<1> QED
  BY <1>1, <1>2 DEF Spells

(* Two texts that spell the same mean the same. *)
LEMMA SameMeaning ==
  ASSUME NEW S, NEW A \in Seq(S), NEW B \in Seq(S), NEW E, Spells(A, E), Spells(B, E)
  PROVE  Meaning(A) = Meaning(B)
<1>1. PICK a : OneToOne(a, LineNos(A), DOMAIN E) /\ \A i \in LineNos(A) : EntryAt(A, i) = E[a[i]]
  BY DEF Spells
<1>2. PICK b : OneToOne(b, LineNos(B), DOMAIN E) /\ \A i \in LineNos(B) : EntryAt(B, i) = E[b[i]]
  BY DEF Spells
<1>3. PICK c : /\ OneToOne(c, DOMAIN E, LineNos(B))
               /\ \A u \in DOMAIN E : b[c[u]] = u
  BY <1>2, OneToOneBack
<1>4. PICK h : OneToOne(h, LineNos(A), LineNos(B)) /\ \A i \in LineNos(A) : h[i] = c[a[i]]
  BY <1>1, <1>3, OneToOneThen
<1>5. \A i \in LineNos(A) : h[i] \in LineNos(B) /\ EntryAt(B, h[i]) = EntryAt(A, i)
  <2> SUFFICES ASSUME NEW i \in LineNos(A)
               PROVE  h[i] \in LineNos(B) /\ EntryAt(B, h[i]) = EntryAt(A, i)
    OBVIOUS
  <2>1. a[i] \in DOMAIN E /\ h[i] = c[a[i]] /\ h[i] \in LineNos(B)
    BY <1>1, <1>4 DEF OneToOne
  <2>2. EntryAt(B, h[i]) = E[b[h[i]]] /\ b[h[i]] = a[i]
    BY <1>2, <1>3, <2>1
  <2> QED
    BY <1>1, <2>1, <2>2
<1>6. \A j \in LineNos(B) : \E i \in LineNos(A) : h[i] = j
  BY <1>4 DEF OneToOne
<1>7. {EntryAt(A, i) : i \in LineNos(A)} = {EntryAt(B, i) : i \in LineNos(B)}
  BY <1>5, <1>6
<1>8. ASSUME NEW e
      PROVE  Cardinality({i \in LineNos(A) : EntryAt(A, i) = e})
             = Cardinality({i \in LineNos(B) : EntryAt(B, i) = e})
  <2> DEFINE X == {i \in LineNos(A) : EntryAt(A, i) = e}
             Y == {i \in LineNos(B) : EntryAt(B, i) = e}
             f == [i \in X |-> h[i]]
  <2>1. IsFiniteSet(X)
    <3>1. Len(A) \in Nat /\ DOMAIN A = 1..Len(A)
      OBVIOUS
    <3>2. IsFiniteSet(1..Len(A))
      BY ONLY <3>1, FS_Interval
    <3>3. X \subseteq 1..Len(A)
      BY <3>1 DEF LineNos
    <3> QED
      BY <3>2, <3>3, FS_Subset
  <2>2. /\ \A i \in X : f[i] \in Y
        /\ \A i, j \in X : f[i] = f[j] => i = j
        /\ \A j \in Y : \E i \in X : f[i] = j
    <3>1. \A i \in X : f[i] = h[i] /\ i \in LineNos(A)
      OBVIOUS
    <3>2. \A i \in X : f[i] \in Y
      BY <1>5, <3>1
    <3>3. \A i, j \in X : f[i] = f[j] => i = j
      BY <1>4, <3>1 DEF OneToOne
    <3>4. \A j \in Y : \E i \in X : f[i] = j
      BY <1>5, <1>6, <3>1
    <3> QED
      BY <3>2, <3>3, <3>4
  <2>3. f \in [X -> Y]
    BY <2>2
  <2> HIDE DEF X, Y, f
  <2>4. f \in Surjection(X, Y) /\ f \in Injection(X, Y)
    BY <2>2, <2>3 DEF Surjection, Injection, IsInjective
  <2>5. Cardinality(X) = Cardinality(Y)
    BY <2>1, <2>4, FS_Surjection
  <2> QED
    BY <2>5 DEF X, Y
<1> DEFINE fA(e) == Cardinality({i \in LineNos(A) : EntryAt(A, i) = e})
           fB(e) == Cardinality({i \in LineNos(B) : EntryAt(B, i) = e})
<1>9. Meaning(A) = [e \in {EntryAt(A, i) : i \in LineNos(A)} |-> fA(e)]
  BY MeaningIs
<1>10. Meaning(B) = [e \in {EntryAt(B, i) : i \in LineNos(B)} |-> fB(e)]
  BY MeaningIs
<1>11. \A e : fA(e) = fB(e)
  BY <1>8
<1> HIDE DEF fA, fB
<1> QED
  BY <1>7, <1>9, <1>10, <1>11

-----------------------------------------------------------------------------
(* More lines, for things that are new.                                      *)

(* F speaks of what E speaks of, and of what is in V.                        *)
Adds(E, V, F) ==
  /\ DOMAIN F = DOMAIN E \union V
  /\ (DOMAIN E) \intersect V = {}
  /\ \A u \in DOMAIN E : F[u] = E[u]

Joins(ls, new, n, m, all) == n = Len(ls) /\ m = Len(new) /\ all = ls \o new

Joined(ls, new, n, m, all) ==
  /\ Len(all) = n + m
  /\ \A i \in 1..n : all[i] = ls[i]
  /\ \A j \in 1..m : all[n + j] = new[j]
  /\ LineNos(all) = LineNos(ls) \union {n + j : j \in LineNos(new)}
  /\ LineNos(ls) \subseteq 1..n /\ LineNos(new) \subseteq 1..m

LEMMA JoinedLines ==
  ASSUME NEW S, NEW ls \in Seq(S), NEW new \in Seq(S), NEW n \in Nat, NEW m \in Nat,
         NEW all, Joins(ls, new, n, m, all)
  PROVE  all \in Seq(S) /\ Joined(ls, new, n, m, all)
<1>0. n = Len(ls) /\ m = Len(new) /\ all = ls \o new
  BY DEF Joins
<1>1. /\ all \in Seq(S) /\ Len(all) = n + m
      /\ \A i \in 1..(n + m) : all[i] = IF i <= n THEN ls[i] ELSE new[i - n]
  BY <1>0, ConcatProperties
<1>2. \A i \in 1..n : i \in 1..(n + m) /\ i <= n
  OBVIOUS
<1>3. \A j \in 1..m : n + j \in 1..(n + m) /\ ~(n + j <= n) /\ n + j - n = j
  OBVIOUS
<1>4. \A i \in 1..n : all[i] = ls[i]
  BY ONLY <1>1, <1>2
<1>5. \A j \in 1..m : all[n + j] = new[j]
  <2> SUFFICES ASSUME NEW j \in 1..m PROVE all[n + j] = new[j]
    OBVIOUS
  <2>1. n + j \in 1..(n + m) /\ ~(n + j <= n) /\ n + j - n = j
    BY <1>3
  <2>2. all[n + j] = new[n + j - n]
    BY ONLY <1>1, <2>1
  <2> QED
    BY ONLY <2>1, <2>2
<1>6. DOMAIN ls = 1..n /\ DOMAIN new = 1..m /\ DOMAIN all = 1..(n + m)
  BY <1>0, <1>1
<1>7. \A i \in 1..(n + m) : i \in 1..n \/ \E j \in 1..m : i = n + j
  <2> SUFFICES ASSUME NEW i \in 1..(n + m), i \notin 1..n PROVE \E j \in 1..m : i = n + j
    OBVIOUS
  <2>1. i - n \in 1..m /\ i = n + (i - n)
    OBVIOUS
  <2> QED
    BY <2>1
<1>8. LineNos(all) \subseteq LineNos(ls) \union {n + j : j \in LineNos(new)}
  <2> SUFFICES ASSUME NEW i \in LineNos(all), i \notin LineNos(ls)
               PROVE  \E j \in LineNos(new) : i = n + j
    OBVIOUS
  <2>1. i \in 1..(n + m) /\ all[i].kind # "close"
    BY <1>6 DEF LineNos
  <2>2. i \notin 1..n
    BY <1>4, <1>6, <2>1 DEF LineNos
  <2>3. PICK j \in 1..m : i = n + j
    BY <1>7, <2>1, <2>2
  <2>4. new[j].kind # "close"
    BY <1>5, <2>1, <2>3
  <2> QED
    BY <1>6, <2>3, <2>4 DEF LineNos
<1>9. LineNos(ls) \subseteq LineNos(all)
  BY <1>2, <1>4, <1>6 DEF LineNos
<1>10. {n + j : j \in LineNos(new)} \subseteq LineNos(all)
  <2> SUFFICES ASSUME NEW j \in LineNos(new) PROVE n + j \in LineNos(all)
    OBVIOUS
  <2>1. j \in 1..m /\ new[j].kind # "close"
    BY <1>6 DEF LineNos
  <2>2. n + j \in 1..(n + m) /\ all[n + j] = new[j]
    BY <1>3, <1>5, <2>1
  <2> QED
    BY <1>6, <2>1, <2>2 DEF LineNos
<1>11. LineNos(all) = LineNos(ls) \union {n + j : j \in LineNos(new)}
  BY ONLY <1>8, <1>9, <1>10
<1>12. LineNos(ls) \subseteq 1..n /\ LineNos(new) \subseteq 1..m
  BY <1>6 DEF LineNos
<1>13. all \in Seq(S) /\ Len(all) = n + m
  BY <1>1
<1> QED
  BY <1>4, <1>5, <1>11, <1>12, <1>13 DEF Joined

(* By d, F says what the lines new say, which are the lines of all behind n. *)
Says(F, d, all, n, new) ==
  \A j \in LineNos(new) : F[d[j]] = <<OpenTags(all)[n + j - 1], new[j].kind, new[j].what>>

LEMMA SpellsMore ==
  ASSUME NEW S, NEW ls \in Seq(S), NEW new \in Seq(S), NEW n \in Nat, n = Len(ls),
         NEW E, NEW V, NEW F, Spells(ls, E), Adds(E, V, F),
         NEW d, OneToOne(d, LineNos(new), V),
         NEW all, all = ls \o new, Says(F, d, all, n, new)
  PROVE  Spells(all, F)
<1>0. Len(new) \in Nat
  OBVIOUS
<1>1. PICK m \in Nat : m = Len(new)
  BY ONLY <1>0, Zenon
<1>2. Joins(ls, new, n, m, all)
  BY <1>1 DEF Joins
<1>3. all \in Seq(S) /\ Joined(ls, new, n, m, all)
  BY <1>2, JoinedLines
<1>4. PICK b : OneToOne(b, LineNos(ls), DOMAIN E) /\ \A i \in LineNos(ls) : EntryAt(ls, i) = E[b[i]]
  BY DEF Spells
<1> DEFINE c == [i \in LineNos(all) |-> IF i <= n THEN b[i] ELSE d[i - n]]
<1>5. \A i \in LineNos(ls) : i \in LineNos(all) /\ c[i] = b[i] /\ b[i] \in DOMAIN E
  <2> SUFFICES ASSUME NEW i \in LineNos(ls)
               PROVE  i \in LineNos(all) /\ c[i] = b[i] /\ b[i] \in DOMAIN E
    OBVIOUS
  <2>1. i \in LineNos(all) /\ b[i] \in DOMAIN E /\ i \in 1..n
    BY <1>3, <1>4 DEF Joined, OneToOne
  <2>2. i <= n
    BY <2>1
  <2> QED
    BY <2>1, <2>2
<1>6. \A j \in LineNos(new) : n + j \in LineNos(all) /\ c[n + j] = d[j] /\ d[j] \in V
  <2> SUFFICES ASSUME NEW j \in LineNos(new)
               PROVE  n + j \in LineNos(all) /\ c[n + j] = d[j] /\ d[j] \in V
    OBVIOUS
  <2>1. n + j \in LineNos(all) /\ d[j] \in V /\ j \in 1..m
    BY <1>3 DEF Joined, OneToOne
  <2>2. ~(n + j <= n) /\ n + j - n = j
    BY <2>1
  <2> QED
    BY <2>1, <2>2
<1>7. c = [i \in LineNos(all) |-> c[i]]
  OBVIOUS
<1> HIDE DEF c
<1>8. \A i \in LineNos(all) : i \in LineNos(ls) \/ \E j \in LineNos(new) : i = n + j
  BY <1>3 DEF Joined
<1>9. \A i \in LineNos(all) : c[i] \in DOMAIN F
  BY <1>5, <1>6, <1>8 DEF Adds
<1>10. ASSUME NEW x \in LineNos(all), NEW y \in LineNos(all), c[x] = c[y] PROVE x = y
  <2>1. CASE x \in LineNos(ls) /\ y \in LineNos(ls)
    BY <1>4, <1>5, <1>10, <2>1 DEF OneToOne
  <2>2. ASSUME NEW i \in LineNos(new), NEW j \in LineNos(new), x = n + i, y = n + j
        PROVE  x = y
    <3>1. d[i] = d[j]
      BY <1>6, <1>10, <2>2
    <3>2. i = j
      BY <3>1 DEF OneToOne
    <3> QED
      BY <2>2, <3>2
  <2>3. ASSUME NEW i \in LineNos(ls), NEW j \in LineNos(new), c[i] = c[n + j] PROVE FALSE
    <3>1. c[i] \in DOMAIN E /\ c[n + j] \in V
      BY <1>5, <1>6
    <3> QED
      BY <2>3, <3>1 DEF Adds
  <2> QED
    BY <1>8, <1>10, <2>1, <2>2, <2>3
<1>11. ASSUME NEW u \in DOMAIN F PROVE \E i \in LineNos(all) : c[i] = u
  <2>1. CASE u \in DOMAIN E
    <3>1. PICK i \in LineNos(ls) : b[i] = u
      BY <1>4, <2>1 DEF OneToOne
    <3> QED
      BY <1>5, <3>1
  <2>2. CASE u \in V
    <3>1. PICK j \in LineNos(new) : d[j] = u
      BY <2>2 DEF OneToOne
    <3> QED
      BY <1>6, <3>1
  <2> QED
    BY <2>1, <2>2 DEF Adds
<1>12. c \in [LineNos(all) -> DOMAIN F]
  BY <1>7, <1>9
<1>13. OneToOne(c, LineNos(all), DOMAIN F)
  BY <1>10, <1>11, <1>12 DEF OneToOne
<1>14. Continues(OpenTags(ls), OpenTags(all), n, new)
  BY OpenTagsMore
<1>15. ASSUME NEW i \in LineNos(ls) PROVE EntryAt(all, i) = F[c[i]]
  <2>1. i - 1 \in 0..n /\ all[i] = ls[i]
    <3>1. i \in 1..n
      BY <1>3 DEF Joined
    <3> QED
      BY <1>3, <3>1 DEF Joined
  <2>2. OpenTags(all)[i - 1] = OpenTags(ls)[i - 1]
    BY <1>14, <2>1 DEF Continues
  <2>3. EntryAt(all, i) = EntryAt(ls, i)
    BY <2>1, <2>2 DEF EntryAt
  <2>4. EntryAt(ls, i) = E[b[i]] /\ c[i] = b[i] /\ b[i] \in DOMAIN E
    BY <1>4, <1>5
  <2> QED
    BY <2>3, <2>4 DEF Adds
<1>16. ASSUME NEW j \in LineNos(new) PROVE EntryAt(all, n + j) = F[c[n + j]]
  <2>1. all[n + j] = new[j] /\ c[n + j] = d[j]
    BY <1>3, <1>6 DEF Joined
  <2>2. F[d[j]] = <<OpenTags(all)[n + j - 1], new[j].kind, new[j].what>>
    BY DEF Says
  <2>3. EntryAt(all, n + j) = <<OpenTags(all)[n + j - 1], all[n + j].kind, all[n + j].what>>
    <3>1. j \in 1..m
      BY <1>3 DEF Joined
    <3>2. (n + j) - 1 = n + j - 1
      BY <3>1
    <3> QED
      BY <3>2 DEF EntryAt
  <2> QED
    BY ONLY <2>1, <2>2, <2>3
<1>17. \A i \in LineNos(all) : EntryAt(all, i) = F[c[i]]
  BY <1>8, <1>15, <1>16
<1> QED
  BY <1>13, <1>17 DEF Spells

LEMMA OneLineEnds ==
  ASSUME NEW S, NEW ls \in Seq(S), NEW l \in S, NEW tags, Ends(ls, tags)
  PROVE  /\ Ends(ls \o << l >>, After(tags, l)) /\ ls \o << l >> \in Seq(S)
         /\ OpenTags(ls \o << l >>)[Len(ls)] = tags
<1>0. Len(ls) \in Nat /\ << l >> \in Seq(S) /\ Len(<< l >>) = 1
  OBVIOUS
<1>1. PICK n \in Nat, new \in Seq(S) : n = Len(ls) /\ new = << l >>
  BY ONLY <1>0, Zenon
<1>2. PICK all : all = ls \o new
  OBVIOUS
<1>3. Len(new) = 1 /\ new[1] = l /\ 1 \in 1..1 /\ n \in 0..n /\ n + 1 - 1 = n
  BY <1>1
<1>4. Continues(OpenTags(ls), OpenTags(all), n, new)
  BY <1>1, <1>2, OpenTagsMore
<1>5. OpenTags(all)[n] = tags
  BY <1>1, <1>3, <1>4 DEF Continues, Ends
<1>6. OpenTags(all)[n + 1] = After(OpenTags(all)[n + 1 - 1], l)
  BY <1>3, <1>4 DEF Continues
<1>7. all \in Seq(S) /\ Len(all) = n + 1
  <2>1. ls \o new \in Seq(S) /\ Len(ls \o new) = Len(ls) + Len(new)
    BY ConcatProperties
  <2> QED
    BY ONLY <1>1, <1>2, <1>3, <2>1
<1>8. Ends(all, After(tags, l))
  BY <1>3, <1>5, <1>6, <1>7 DEF Ends
<1> QED
  BY <1>1, <1>2, <1>5, <1>7, <1>8

(* One line, ... *)
LEMMA SpellsOne ==
  ASSUME NEW S, NEW ls \in Seq(S), NEW l \in S, NEW tags, Ends(ls, tags), l.kind # "close",
         NEW E, NEW u, NEW F, Spells(ls, E), Adds(E, {u}, F), F[u] = <<tags, l.kind, l.what>>
  PROVE  Spells(ls \o << l >>, F)
<1>0. Len(ls) \in Nat /\ << l >> \in Seq(S)
  OBVIOUS
<1>1. PICK n \in Nat, new \in Seq(S) : n = Len(ls) /\ new = << l >>
  BY ONLY <1>0, Zenon
<1>2. DOMAIN new = {1} /\ new[1] = l
  BY <1>1
<1>3. LineNos(new) = {1}
  BY <1>2 DEF LineNos
<1> DEFINE d == [j \in {1} |-> u]
<1>4. OneToOne(d, {1}, {u}) /\ d[1] = u
  BY DEF OneToOne
<1> HIDE DEF d
<1>5. PICK all : all = ls \o new
  OBVIOUS
<1>6. OpenTags(all)[n] = tags /\ n + 1 - 1 = n
  <2>1. OpenTags(ls \o << l >>)[Len(ls)] = tags
    BY OneLineEnds
  <2> QED
    BY <1>1, <1>5, <2>1
<1>7. Says(F, d, all, n, new)
  BY <1>2, <1>3, <1>4, <1>6 DEF Says
<1>8. OneToOne(d, LineNos(new), {u})
  BY <1>3, <1>4
<1>9. Spells(all, F)
  BY <1>1, <1>5, <1>7, <1>8, SpellsMore
<1> QED
  BY ONLY <1>1, <1>5, <1>9

(* ... none, ... *)
LEMMA SpellsClose ==
  ASSUME NEW S, NEW ls \in Seq(S), NEW l \in S, l.kind = "close", NEW E, Spells(ls, E)
  PROVE  Spells(ls \o << l >>, E)
<1>0. Len(ls) \in Nat /\ << l >> \in Seq(S)
  OBVIOUS
<1>1. PICK n \in Nat, new \in Seq(S) : n = Len(ls) /\ new = << l >>
  BY ONLY <1>0, Zenon
<1>2. DOMAIN new = {1} /\ new[1] = l
  BY <1>1
<1>3. LineNos(new) = {}
  BY <1>2 DEF LineNos
<1> DEFINE d == [j \in {} |-> j]
<1>4. OneToOne(d, LineNos(new), {})
  BY <1>3 DEF OneToOne
<1> HIDE DEF d
<1>5. Adds(E, {}, E)
  BY DEF Adds
<1>6. PICK all : all = ls \o new
  OBVIOUS
<1>7. Says(E, d, all, n, new)
  BY <1>3 DEF Says
<1>8. Spells(all, E)
  BY <1>1, <1>4, <1>5, <1>6, <1>7, SpellsMore
<1> QED
  BY ONLY <1>1, <1>6, <1>8

(* ... or directives. *)
Recites(F, d, tags, new) == \A j \in 1..Len(new) : F[d[j]] = <<tags, "dir", new[j].what>>

LEMMA SpellsDirs ==
  ASSUME NEW S, NEW ls \in Seq(S), NEW new \in Seq(S), NEW m \in Nat, m = Len(new), AllDirs(new),
         NEW tags, Ends(ls, tags), NEW E, NEW V, NEW F, Spells(ls, E), Adds(E, V, F),
         NEW d, OneToOne(d, 1..m, V), Recites(F, d, tags, new)
  PROVE  Spells(ls \o new, F) /\ Ends(ls \o new, tags)
<1>0. Len(ls) \in Nat
  OBVIOUS
<1>1. PICK n \in Nat : n = Len(ls)
  BY ONLY <1>0, Zenon
<1>2. PICK all : all = ls \o new
  OBVIOUS
<1>3. DOMAIN new = 1..m /\ \A j \in 1..m : new[j].kind = "dir"
  BY DEF AllDirs
<1>4. LineNos(new) = 1..m
  BY <1>3 DEF LineNos
<1>5. Continues(OpenTags(ls), OpenTags(all), n, new)
  BY <1>1, <1>2, OpenTagsMore
<1>6. Stays(OpenTags(ls), OpenTags(all), n, new)
  BY <1>5, OpenTagsDirs
<1>7. \A j \in 0..m : OpenTags(all)[n + j] = tags
  BY <1>1, <1>6 DEF Stays, Ends
<1>8. \A j \in 1..m : j - 1 \in 0..m /\ n + j - 1 = n + (j - 1)
  OBVIOUS
<1>9. \A j \in 1..m : OpenTags(all)[n + j - 1] = tags
  BY <1>7, <1>8
<1>10. Says(F, d, all, n, new)
  BY <1>3, <1>4, <1>9 DEF Says, Recites
<1>11. Spells(all, F)
  BY <1>1, <1>2, <1>4, <1>10, SpellsMore
<1>12. Len(all) = n + m /\ m \in 0..m
  <2>1. Len(ls \o new) = Len(ls) + Len(new)
    BY ConcatProperties
  <2> QED
    BY <1>1, <1>2, <2>1
<1>13. Ends(all, tags)
  BY <1>7, <1>12 DEF Ends
<1> QED
  BY <1>2, <1>11, <1>13

-----------------------------------------------------------------------------
(* The walk of a reader through tables that stand still: it comes to each    *)
(* context once.                                                             *)

(* The contexts it is done with, and those whose calls are at these places.  *)
MetAt(W, D, places) == D \union {W[k].id : k \in {j \in 1..Len(W) : W[j].at \in places}}

(* The same without the n-th call, the innermost. *)
Sofar(W, n, D, places) == D \union {W[k].id : k \in {j \in 1..(n - 1) : W[j].at \in places}}

Everywhere == {"row", "dirs", "conf", "push", "ctxs", "loop"}

Met(W, D) == MetAt(W, D, Everywhere)

(* Each call is for a context below that of the one before; the contexts it  *)
(* has yet to call for are those that are below its own and were not met.    *)
CallVisits(W, k, D, root) ==
  /\ W[k].at \in Everywhere /\ (k < Len(W) => W[k].at = "loop")
  /\ IF k = 1 THEN W[k].id = root.id ELSE W[k].id \in Under(W[k - 1].id)
  /\ W[k].id \notin D
  /\ W[k].subs \subseteq Under(W[k].id) /\ (W[k].at # "loop" => W[k].subs = {})
  /\ W[k].subs \intersect Met(W, D) = {}
  /\ W[k].at = "loop" =>
       \A c \in Under(W[k].id) : c \in D \/ c \in W[k].subs \/ (k < Len(W) /\ c = W[k + 1].id)

(* A context is met after a call for its parent asked for what is below it.  *)
Ordered(W, D) ==
  \A c \in Met(W, D) : \A p : c \in Under(p) => p = Null \/ p \in MetAt(W, D, {"loop"})

Visit(W, D, root) ==
  /\ \A k \in 1..Len(W) : CallVisits(W, k, D, root)
  /\ \A j, k \in 1..Len(W) : W[j].id = W[k].id => j = k
  /\ \A c \in D : Under(c) \subseteq D
  /\ Ordered(W, D)
  /\ Met(W, D) \subseteq Below(ctxTab, root.id)
  /\ Len(W) = 0 => root.id \in D

LEMMA MetTop ==
  ASSUME NEW W, NEW n \in Nat \ {0}, Len(W) = n, NEW D, NEW places
  PROVE  MetAt(W, D, places)
         = Sofar(W, n, D, places) \union (IF W[n].at \in places THEN {W[n].id} ELSE {})
<1>1. \A k \in 1..n : k = n \/ k \in 1..(n - 1)
  OBVIOUS
<1>2. n \in 1..n /\ \A k \in 1..(n - 1) : k \in 1..n
  OBVIOUS
<1> QED
  BY <1>1, <1>2 DEF MetAt, Sofar

LEMMA SofarSame ==
  ASSUME NEW V, NEW W, NEW n \in Nat \ {0}, \A k \in 1..(n - 1) : W[k] = V[k], NEW D, NEW places
  PROVE  Sofar(W, n, D, places) = Sofar(V, n, D, places)
  BY DEF Sofar

LEMMA OneParent ==
  ASSUME Numbered, NEW p, NEW q, NEW c, c \in Under(p), c \in Under(q)
  PROVE  p = q
  BY DEF Under, Numbered

LEMMA IdsBelow ==
  ASSUME Typed, Numbered, NEW root, NEW c \in Below(ctxTab, root.id)
  PROVE  c # Null /\ c \in Nat /\ \E r \in ctxTab : r.id = c
<1>1. PICK r \in ctxTab : r.id = c
  BY DEF Below
<1>2. c \in 1..lastCtx /\ lastCtx \in Nat
  BY <1>1 DEF Numbered, Typed, TypeOK
<1> QED
  BY <1>1, <1>2 DEF Null

(* A reader begins with the root. *)
LEMMA VisitBegun ==
  ASSUME Typed, Numbered, NEW root, root \in RootsOf(ctxTab),
         NEW W, Len(W) = 1, W[1].id = root.id, W[1].at = "row", W[1].subs = {}
  PROVE  Visit(W, {}, root) /\ MetAt(W, {}, Everywhere \ {"row"}) = {}
<1>1. Met(W, {}) = {root.id}
  <2>0. W[1].at \in Everywhere
    BY DEF Everywhere
  <2>1. 1..Len(W) = {1}
    OBVIOUS
  <2>2. {j \in 1..Len(W) : W[j].at \in Everywhere} = {1}
    BY ONLY <2>0, <2>1
  <2> QED
    BY <2>2 DEF Met, MetAt
<1>2. MetAt(W, {}, Everywhere \ {"row"}) = {}
  BY DEF MetAt, Everywhere
<1>3. CallVisits(W, 1, {}, root)
  BY <1>1 DEF CallVisits, Everywhere
<1>4. Ordered(W, {})
  BY <1>1 DEF Ordered, Under, RootsOf, Numbered
<1>5. Met(W, {}) \subseteq Below(ctxTab, root.id)
  BY <1>1, BelowRoot DEF RootsOf
<1> QED
  BY <1>2, <1>3, <1>4, <1>5 DEF Visit

(* V becomes W when the innermost call goes on, but does not ask for what is *)
(* below its context.                                                        *)
Onward(V, W, n) ==
  /\ Len(V) = n /\ Len(W) = n /\ \A k \in 1..(n - 1) : W[k] = V[k]
  /\ W[n].id = V[n].id /\ V[n].at \in Everywhere \ {"loop"} /\ W[n].at \in Everywhere \ {"loop"}
  /\ W[n].subs = {}

(* W[n] is a place further. *)
LEMMA MetOnward ==
  ASSUME NEW V, NEW W, NEW n \in Nat \ {0}, Onward(V, W, n), NEW D, NEW places
  PROVE  MetAt(W, D, places)
         = Sofar(V, n, D, places) \union (IF W[n].at \in places THEN {V[n].id} ELSE {})
<1>1. Len(W) = n /\ W[n].id = V[n].id /\ \A k \in 1..(n - 1) : W[k] = V[k]
  BY DEF Onward
<1>2. MetAt(W, D, places)
      = Sofar(W, n, D, places) \union (IF W[n].at \in places THEN {W[n].id} ELSE {})
  BY <1>1, MetTop
<1>3. Sofar(W, n, D, places) = Sofar(V, n, D, places)
  BY <1>1, SofarSame
<1> QED
  BY ONLY <1>1, <1>2, <1>3

LEMMA VisitOnward ==
  ASSUME NEW V, NEW W, NEW n \in Nat \ {0}, Onward(V, W, n),
         NEW D, NEW root, Visit(V, D, root)
  PROVE  Visit(W, D, root)
<1>1. /\ Len(V) = n /\ Len(W) = n /\ \A k \in 1..(n - 1) : W[k] = V[k]
      /\ W[n].id = V[n].id /\ V[n].at \in Everywhere \ {"loop"} /\ W[n].at \in Everywhere \ {"loop"}
      /\ W[n].subs = {}
  BY DEF Onward
<1>2. \A places : MetAt(V, D, places)
        = Sofar(V, n, D, places) \union (IF V[n].at \in places THEN {V[n].id} ELSE {})
  BY <1>1, MetTop
<1>2a. \A places : MetAt(W, D, places)
        = Sofar(V, n, D, places) \union (IF W[n].at \in places THEN {V[n].id} ELSE {})
  BY MetOnward
<1>3. Met(W, D) = Met(V, D)
  <2>1. V[n].at \in Everywhere /\ W[n].at \in Everywhere
    BY <1>1
  <2>2. MetAt(W, D, Everywhere) = MetAt(V, D, Everywhere)
    BY ONLY <1>2, <1>2a, <2>1
  <2> QED
    BY <2>2 DEF Met
<1>4. MetAt(W, D, {"loop"}) = MetAt(V, D, {"loop"})
  <2>1. V[n].at \notin {"loop"} /\ W[n].at \notin {"loop"}
    BY <1>1
  <2> QED
    BY ONLY <1>2, <1>2a, <2>1
<1>5. \A k \in 1..n : W[k].id = V[k].id
  BY <1>1
<1>6. ASSUME NEW k \in 1..n PROVE CallVisits(W, k, D, root)
  <2>1. CallVisits(V, k, D, root)
    BY <1>1 DEF Visit
  <2>2. CASE k = n
    <3>1. n = 1 \/ n - 1 \in 1..(n - 1)
      OBVIOUS
    <3>2. n = 1 \/ W[n - 1] = V[n - 1]
      BY <1>1, <3>1
    <3> QED
      BY <1>1, <1>3, <2>1, <2>2, <3>2 DEF CallVisits, Everywhere
  <2>3. CASE k # n
    <3>1. k \in 1..(n - 1) /\ k + 1 \in 1..n /\ (k = 1 \/ k - 1 \in 1..(n - 1))
      BY <2>3
    <3>2. W[k] = V[k] /\ W[k + 1].id = V[k + 1].id /\ (k = 1 \/ W[k - 1] = V[k - 1])
      BY <1>1, <1>5, <3>1
    <3> QED
      BY <1>1, <1>3, <2>1, <3>2 DEF CallVisits
  <2> QED
    BY <2>2, <2>3
<1>7. Ordered(W, D)
  BY <1>3, <1>4 DEF Visit, Ordered
<1> QED
  BY <1>1, <1>3, <1>5, <1>6, <1>7 DEF Visit

(* It asks. *)
LEMMA VisitAsked ==
  ASSUME Typed, Numbered, NEW V, NEW W, NEW n \in Nat \ {0}, Len(V) = n, Len(W) = n,
         \A k \in 1..(n - 1) : W[k] = V[k], W[n].id = V[n].id, V[n].at = "ctxs", W[n].at = "loop",
         W[n].subs = Under(V[n].id),
         NEW D, NEW root, Visit(V, D, root)
  PROVE  /\ Visit(W, D, root)
         /\ \A places : {"ctxs", "loop"} \subseteq places => MetAt(W, D, places) = MetAt(V, D, places)
<1>1. /\ \A k \in 1..n : CallVisits(V, k, D, root)
      /\ \A j, k \in 1..n : V[j].id = V[k].id => j = k
      /\ Ordered(V, D) /\ Met(V, D) \subseteq Below(ctxTab, root.id)
  BY DEF Visit
<1>2. \A places : MetAt(V, D, places)
        = Sofar(V, n, D, places) \union (IF V[n].at \in places THEN {V[n].id} ELSE {})
  BY MetTop
<1>3. \A places : MetAt(W, D, places)
        = Sofar(V, n, D, places) \union (IF W[n].at \in places THEN {V[n].id} ELSE {})
  <2> SUFFICES ASSUME NEW places
               PROVE  MetAt(W, D, places)
                      = Sofar(V, n, D, places) \union (IF W[n].at \in places THEN {V[n].id} ELSE {})
    OBVIOUS
  <2>1. MetAt(W, D, places)
        = Sofar(W, n, D, places) \union (IF W[n].at \in places THEN {W[n].id} ELSE {})
    BY MetTop
  <2>2. Sofar(W, n, D, places) = Sofar(V, n, D, places)
    BY SofarSame
  <2> QED
    BY <2>1, <2>2
<1>4. \A places : {"ctxs", "loop"} \subseteq places => MetAt(W, D, places) = MetAt(V, D, places)
  BY <1>2, <1>3
<1>5. Met(W, D) = Met(V, D)
  BY <1>4 DEF Met, Everywhere
<1>6. MetAt(W, D, {"loop"}) = MetAt(V, D, {"loop"}) \union {V[n].id}
  <2>1. V[n].at \notin {"loop"} /\ W[n].at \in {"loop"}
    OBVIOUS
  <2> QED
    BY ONLY <1>2, <1>3, <2>1
<1>7. n \in 1..n /\ V[n].id \in Met(V, D) /\ V[n].id \notin MetAt(V, D, {"loop"})
  <2>1. V[n].id \notin D /\ n \in 1..n /\ V[n].at \in Everywhere
    BY <1>1 DEF CallVisits
  <2>2. V[n].id \notin MetAt(V, D, {"loop"})
    BY <1>1, <2>1 DEF MetAt
  <2>3. V[n].id \in Met(V, D)
    BY <2>1 DEF MetAt, Met
  <2> QED
    BY <2>1, <2>2, <2>3
<1>8. V[n].id # Null
  BY <1>1, <1>7, IdsBelow
<1>9. W[n].subs \intersect Met(W, D) = {}
  BY <1>1, <1>5, <1>7, <1>8 DEF Ordered
<1>10. \A k \in 1..n : W[k].id = V[k].id
  OBVIOUS
<1>11. ASSUME NEW k \in 1..n PROVE CallVisits(W, k, D, root)
  <2>1. CallVisits(V, k, D, root)
    BY <1>1
  <2>2. CASE k = n
    <3>1. n = 1 \/ n - 1 \in 1..(n - 1)
      OBVIOUS
    <3>2. n = 1 \/ W[n - 1] = V[n - 1]
      BY <3>1
    <3> QED
      BY <1>9, <2>1, <2>2, <3>2 DEF CallVisits, Everywhere
  <2>3. CASE k # n
    <3>1. k \in 1..(n - 1) /\ k + 1 \in 1..n /\ (k = 1 \/ k - 1 \in 1..(n - 1))
      BY <2>3
    <3>2. W[k] = V[k] /\ W[k + 1].id = V[k + 1].id /\ (k = 1 \/ W[k - 1] = V[k - 1])
      BY <1>10, <3>1
    <3> QED
      BY <1>5, <2>1, <3>2 DEF CallVisits
  <2> QED
    BY <2>2, <2>3
<1>12. Ordered(W, D)
  BY <1>1, <1>5, <1>6 DEF Ordered
<1>13. Visit(W, D, root)
  BY <1>1, <1>5, <1>10, <1>11, <1>12 DEF Visit
<1> QED
  BY <1>4, <1>13

(* It calls. *)
LEMMA VisitEntered ==
  ASSUME Typed, Numbered, NEW V, NEW W, NEW n \in Nat \ {0}, Len(V) = n, Len(W) = n + 1,
         \A k \in 1..(n - 1) : W[k] = V[k], W[n].id = V[n].id, W[n].at = "loop", V[n].at = "loop",
         NEW s \in V[n].subs, W[n].subs = V[n].subs \ {s},
         W[n + 1].id = s, W[n + 1].at = "row", W[n + 1].subs = {},
         NEW D, NEW root, Visit(V, D, root)
  PROVE  /\ Visit(W, D, root)
         /\ \A places : "row" \notin places => MetAt(W, D, places) = MetAt(V, D, places)
<1>1. /\ \A k \in 1..n : CallVisits(V, k, D, root)
      /\ \A j, k \in 1..n : V[j].id = V[k].id => j = k
      /\ Ordered(V, D) /\ Met(V, D) \subseteq Below(ctxTab, root.id)
  BY DEF Visit
<1>2. \A k \in 1..n : W[k].id = V[k].id /\ W[k].at = V[k].at
  <2>1. \A k \in 1..n : k = n \/ k \in 1..(n - 1)
    OBVIOUS
  <2> QED
    BY <2>1
<1>3. \A places : MetAt(W, D, places)
        = MetAt(V, D, places) \union (IF "row" \in places THEN {s} ELSE {})
  <2> SUFFICES ASSUME NEW places
               PROVE  MetAt(W, D, places)
                      = MetAt(V, D, places) \union (IF "row" \in places THEN {s} ELSE {})
    OBVIOUS
  <2>1. n + 1 \in Nat \ {0} /\ n + 1 - 1 = n
    OBVIOUS
  <2>2. MetAt(W, D, places)
        = Sofar(W, n + 1, D, places) \union (IF W[n + 1].at \in places THEN {W[n + 1].id} ELSE {})
    BY <2>1, MetTop
  <2>3. Sofar(W, n + 1, D, places) = MetAt(V, D, places)
    BY <1>2, <2>1 DEF Sofar, MetAt
  <2> QED
    BY <2>2, <2>3
<1>4. Met(W, D) = Met(V, D) \union {s} /\ MetAt(W, D, {"loop"}) = MetAt(V, D, {"loop"})
  <2>1. MetAt(W, D, Everywhere) = MetAt(V, D, Everywhere)
                                  \union (IF "row" \in Everywhere THEN {s} ELSE {})
    BY <1>3
  <2>2. "row" \in Everywhere
    BY DEF Everywhere
  <2>3. MetAt(W, D, {"loop"}) = MetAt(V, D, {"loop"}) \union (IF "row" \in {"loop"} THEN {s} ELSE {})
    BY <1>3
  <2> QED
    BY <2>1, <2>2, <2>3 DEF Met
<1>5. n \in 1..n /\ CallVisits(V, n, D, root)
  BY <1>1
<1>6. s \in Under(V[n].id) /\ s \notin Met(V, D)
  BY <1>5 DEF CallVisits
<1>7. \A k \in 1..n : V[k].id \in Met(V, D)
  BY <1>1 DEF Met, MetAt, CallVisits
<1>8. D \subseteq Met(V, D)
  BY DEF Met, MetAt
<1>9. \A k \in 1..(n - 1) : k \in 1..n /\ V[k].id # V[n].id
  BY <1>1
<1>10. \A k \in 1..n : s \notin W[k].subs
  <2>1. ASSUME NEW k \in 1..(n - 1) PROVE s \notin W[k].subs
    <3>1. V[k].subs \subseteq Under(V[k].id)
      BY <1>1, <1>9 DEF CallVisits
    <3>2. s \notin Under(V[k].id)
      BY <1>6, <1>9, OneParent
    <3> QED
      BY <3>1, <3>2
  <2>2. \A k \in 1..n : k = n \/ k \in 1..(n - 1)
    OBVIOUS
  <2> QED
    BY <2>1, <2>2
<1>11. CallVisits(W, n + 1, D, root)
  <2>1. n + 1 # 1 /\ n + 1 - 1 = n /\ ~(n + 1 < Len(W))
    OBVIOUS
  <2>2. W[n + 1].id \in Under(W[n].id)
    BY <1>6
  <2> QED
    BY <1>6, <1>8, <2>1, <2>2 DEF CallVisits, Everywhere
<1>12. CallVisits(W, n, D, root)
  <2>1. n = 1 \/ (n - 1 \in 1..n)
    OBVIOUS
  <2>2. n = 1 \/ W[n - 1].id = V[n - 1].id
    BY <1>2, <2>1
  <2>3. n < Len(W) /\ W[n].subs \subseteq V[n].subs /\ s \notin W[n].subs
    BY <1>10
  <2>4. W[n].subs \intersect Met(W, D) = {}
    BY <1>4, <1>5, <2>3 DEF CallVisits
  <2> QED
    BY <1>5, <2>2, <2>3, <2>4 DEF CallVisits, Everywhere
<1>13. ASSUME NEW k \in 1..(n - 1) PROVE CallVisits(W, k, D, root)
  <2>1. CallVisits(V, k, D, root) /\ W[k] = V[k] /\ k < Len(V) /\ k < Len(W)
    BY <1>1, <1>9
  <2>2. k + 1 \in 1..n /\ (k = 1 \/ k - 1 \in 1..n)
    OBVIOUS
  <2>3. W[k + 1].id = V[k + 1].id /\ (k = 1 \/ W[k - 1].id = V[k - 1].id)
    BY <1>2, <2>2
  <2>4. W[k].subs \intersect Met(W, D) = {}
    BY <1>4, <1>9, <1>10, <2>1 DEF CallVisits
  <2> QED
    BY <2>1, <2>3, <2>4 DEF CallVisits
<1>14. \A k \in 1..(n + 1) : k = n + 1 \/ k = n \/ k \in 1..(n - 1)
  OBVIOUS
<1>15. \A k \in 1..(n + 1) : CallVisits(W, k, D, root)
  BY <1>11, <1>12, <1>13, <1>14
<1>16. ASSUME NEW j \in 1..(n + 1), NEW k \in 1..(n + 1), W[j].id = W[k].id PROVE j = k
  <2>1. \A i \in 1..(n + 1) : i = n + 1 \/ i \in 1..n
    OBVIOUS
  <2>2. \A i \in 1..n : W[i].id # s
    BY <1>2, <1>6, <1>7
  <2> QED
    BY <1>1, <1>2, <1>16, <2>1, <2>2
<1>17. Ordered(W, D)
  <2> SUFFICES ASSUME NEW c \in Met(W, D), NEW p, c \in Under(p)
               PROVE  p = Null \/ p \in MetAt(W, D, {"loop"})
    BY DEF Ordered
  <2>1. CASE c = s
    <3>1. p = V[n].id
      BY <1>6, <2>1, OneParent
    <3>2. V[n].id \in MetAt(V, D, {"loop"})
      BY <1>5 DEF MetAt
    <3> QED
      BY <1>4, <3>1, <3>2
  <2> QED
    BY <1>1, <1>4, <2>1 DEF Ordered
<1>18. s \in Below(ctxTab, root.id)
  <2>1. V[n].id \in Below(ctxTab, root.id)
    BY <1>1, <1>5, <1>7
  <2> QED
    BY <1>6, <2>1, BelowKid
<1>19. Visit(W, D, root)
  BY <1>1, <1>4, <1>15, <1>16, <1>17, <1>18 DEF Visit
<1>20. ASSUME NEW places, "row" \notin places PROVE MetAt(W, D, places) = MetAt(V, D, places)
  <2>1. MetAt(W, D, places)
        = MetAt(V, D, places) \union (IF "row" \in places THEN {s} ELSE {})
    BY <1>3
  <2> QED
    BY ONLY <1>20, <2>1
<1> QED
  BY ONLY <1>19, <1>20

(* It returns, and its context is done with. *)
LEMMA VisitLeft ==
  ASSUME NEW V, NEW W, NEW n \in Nat \ {0}, Len(V) = n, Len(W) = n - 1,
         \A k \in 1..(n - 1) : W[k] = V[k], V[n].at = "loop", V[n].subs = {},
         NEW D, NEW root, Visit(V, D, root)
  PROVE  \E E : /\ Visit(W, E, root)
                /\ \A places : "loop" \in places => MetAt(W, E, places) = MetAt(V, D, places)
<1>0. PICK E : E = D \union {V[n].id}
  OBVIOUS
<1>1. /\ \A k \in 1..n : CallVisits(V, k, D, root)
      /\ \A j, k \in 1..n : V[j].id = V[k].id => j = k
      /\ \A c \in D : Under(c) \subseteq D
      /\ Ordered(V, D) /\ Met(V, D) \subseteq Below(ctxTab, root.id)
  BY DEF Visit
<1>2. \A places : "loop" \in places => MetAt(W, E, places) = MetAt(V, D, places)
  <2> SUFFICES ASSUME NEW places, "loop" \in places PROVE MetAt(W, E, places) = MetAt(V, D, places)
    OBVIOUS
  <2>1. MetAt(V, D, places) = Sofar(V, n, D, places) \union {V[n].id}
    BY MetTop
  <2>2. MetAt(W, E, places) = Sofar(V, n, D, places) \union {V[n].id}
    BY <1>0 DEF MetAt, Sofar
  <2> QED
    BY <2>1, <2>2
<1>3. Met(W, E) = Met(V, D) /\ MetAt(W, E, {"loop"}) = MetAt(V, D, {"loop"})
  <2>1. "loop" \in Everywhere /\ "loop" \in {"loop"}
    BY DEF Everywhere
  <2> QED
    BY <1>2, <2>1 DEF Met
<1>4. n \in 1..n /\ ~(n < Len(V)) /\ CallVisits(V, n, D, root)
  BY <1>1
<1>5. Under(V[n].id) \subseteq D
  BY <1>4 DEF CallVisits
<1>6. ASSUME NEW k \in 1..(n - 1) PROVE CallVisits(W, k, E, root)
  <2>1. k \in 1..n /\ k < n /\ k # n /\ (k = 1 \/ k - 1 \in 1..(n - 1))
    OBVIOUS
  <2>2. CallVisits(V, k, D, root) /\ V[k].id # V[n].id /\ W[k] = V[k]
    BY <1>1, <1>4, <2>1
  <2>3. k + 1 = n \/ (k < Len(W) /\ k + 1 \in 1..(n - 1))
    OBVIOUS
  <2>4. k = 1 \/ W[k - 1] = V[k - 1]
    BY <2>1
  <2>5. W[k].at = "loop" /\ W[k].at \in Everywhere
    BY <2>1, <2>2 DEF CallVisits
  <2>6. \A c \in Under(W[k].id) : c \in E \/ c \in W[k].subs \/ (k < Len(W) /\ c = W[k + 1].id)
    BY <1>0, <2>1, <2>2, <2>3 DEF CallVisits
  <2> QED
    BY <1>0, <1>3, <2>2, <2>4, <2>5, <2>6 DEF CallVisits
<1>7. \A j, k \in 1..(n - 1) : W[j].id = W[k].id => j = k
  BY <1>1
<1>8. \A c \in E : Under(c) \subseteq E
  BY <1>0, <1>1, <1>5
<1>9. n - 1 = 0 => root.id \in E
  <2> SUFFICES ASSUME n = 1 PROVE root.id \in E
    OBVIOUS
  <2>1. V[1].id = root.id
    BY <1>4 DEF CallVisits
  <2> QED
    BY <1>0, <2>1
<1>10. Ordered(W, E)
  BY <1>1, <1>3 DEF Ordered
<1>11. Visit(W, E, root)
  BY <1>1, <1>3, <1>6, <1>7, <1>8, <1>9, <1>10 DEF Visit
<1> QED
  BY <1>2, <1>11

(* It was everywhere when the outermost call has returned. *)
LEMMA VisitEnded ==
  ASSUME NEW W, Len(W) = 0, NEW D, NEW root, Visit(W, D, root)
  PROVE  \A places : MetAt(W, D, places) = Below(ctxTab, root.id)
<1> DEFINE ids == {r.id : r \in ctxTab}
           S == D \intersect ids
<1>1. (\A c \in D : Under(c) \subseteq D) /\ root.id \in D /\ Met(W, D) \subseteq Below(ctxTab, root.id)
  BY DEF Visit
<1>2. \A places : MetAt(W, D, places) = D
  BY DEF MetAt
<1>3. D \subseteq Below(ctxTab, root.id)
  BY <1>1, <1>2 DEF Met
<1>4. root.id \in S
  BY <1>1, <1>3 DEF Below
<1>5. \A r \in ctxTab : r.parent \in S => r.id \in S
  BY <1>1 DEF Under
<1>6. Below(ctxTab, root.id) \subseteq D
  BY <1>4, <1>5 DEF Below
<1> QED
  BY <1>2, <1>3, <1>6

LEMMA VisitSame ==
  ASSUME UNCHANGED ctxTab, NEW CONSTANT W, NEW CONSTANT D, NEW CONSTANT root, Visit(W, D, root)
  PROVE  Visit(W, D, root)'
<1>1. \A c : Under(c)' = Under(c)
  BY DEF Under
<1>2. Below(ctxTab, root.id)' = Below(ctxTab, root.id)
  BY DEF Below
<1>3. \A k : CallVisits(W, k, D, root)' <=> CallVisits(W, k, D, root)
  BY <1>1 DEF CallVisits, Met, MetAt
<1>4. Ordered(W, D)' <=> Ordered(W, D)
  BY <1>1 DEF Ordered, Met, MetAt
<1>5. Met(W, D)' = Met(W, D)
  BY DEF Met, MetAt
<1> QED
  BY <1>1, <1>2, <1>3, <1>4, <1>5 DEF Visit

-----------------------------------------------------------------------------
(* What a reader has told on its walk.                                       *)

(* A tag is told for each context whose row was read, except the root, and a *)
(* directive for each mapping to the contexts whose directives were.         *)
TagUnits(S, root) == {<<c, 0>> : c \in S \ {root.id}}

DirUnits(c) == {<<c, i>> : i \in MapsTo(c)}

RowRead == {"dirs", "conf", "push", "ctxs", "loop"}

DirsRead == {"ctxs", "loop"}

UnitsOf(S, R, root) == TagUnits(S, root) \union UNION {DirUnits(c) : c \in R}

Units(W, D, root) == UnitsOf(MetAt(W, D, RowRead), MetAt(W, D, DirsRead), root)

(* The tags that lead to each context, spelt as the reader does.             *)
Paths(P, T, sh) ==
  \A r \in ctxTab : /\ P[r.id] \in Seq(T)
                    /\ P[r.id] = IF r.parent = Null THEN <<>> ELSE Append(P[r.parent], sh[r.label])

Told(P, u) ==
  IF u[2] = 0 THEN <<Front(P[u[1]]), "open", Last(P[u[1]])>>
  ELSE <<P[u[1]], "dir", DirOf(mapTab[u[2]].conf)>>

Tale(P, A) == [u \in A |-> Told(P, u)]

(* The tags that are open where the walk stands. *)
Here(W, P) ==
  IF Len(W) = 0 THEN <<>>
  ELSE IF Len(W) > 1 /\ W[Len(W)].at = "row" THEN Front(P[W[Len(W)].id])
  ELSE P[W[Len(W)].id]

(* The lines ls, of which those for the directives in Y are ahead of the     *)
(* walk W.                                                                   *)
Tells(W, Y, ls, P, root) ==
  \E D : /\ Visit(W, D, root)
         /\ Spells(ls, Tale(P, Units(W, D, root) \union Y))
         /\ Ends(ls, Here(W, P))

LEMMA Appended ==
  ASSUME NEW T, NEW s \in Seq(T), NEW x, Append(s, x) \in Seq(T)
  PROVE  Front(Append(s, x)) = s /\ Last(Append(s, x)) = x /\ Append(s, x) # <<>>
<1>1. PICK U : U = T \union {x}
  OBVIOUS
<1>2. s \in Seq(U) /\ x \in U
  BY <1>1, SeqMonotonic
<1>3. PICK t : t = Append(s, x)
  OBVIOUS
<1>4. /\ t \in Seq(U) /\ Len(s) \in Nat /\ Len(t) = Len(s) + 1 /\ t[Len(t)] = x
      /\ \A i \in 1..Len(s) : t[i] = s[i]
  BY <1>2, <1>3, LastAdded
<1>5. t # <<>>
  BY <1>4
<1>6. PICK f : f = SubSeq(t, 1, Len(t) - 1)
  OBVIOUS
<1>7. f \in Seq(U) /\ Len(f) = Len(t) - 1 /\ \A i \in 1..(Len(t) - 1) : f[i] = t[i]
  BY <1>4, <1>5, <1>6, LastDropped
<1>8. Len(t) - 1 = Len(s)
  BY <1>4
<1>9. f = s
  BY <1>2, <1>4, <1>7, <1>8
<1> QED
  BY <1>3, <1>4, <1>5, <1>6, <1>9 DEF Front, Last

(* The path to a sub-context. *)
LEMMA PathBelow ==
  ASSUME Numbered, NEW P, NEW T, NEW sh, Paths(P, T, sh),
         NEW q \in ctxTab, q.id # Null, NEW c, c \in Under(q.id)
  PROVE  /\ P[c] # <<>> /\ Front(P[c]) = P[q.id] /\ P[c] = Append(Front(P[c]), Last(P[c]))
         /\ \A r \in ctxTab : r.id = c => Last(P[c]) = sh[r.label]
<1>1. PICK r \in ctxTab : r.id = c /\ r.parent = q.id
  BY DEF Under
<1>2. P[c] = Append(P[q.id], sh[r.label]) /\ P[c] \in Seq(T) /\ P[q.id] \in Seq(T)
  BY <1>1 DEF Paths
<1>3. Front(P[c]) = P[q.id] /\ Last(P[c]) = sh[r.label] /\ P[c] # <<>>
  BY <1>2, Appended
<1>4. \A s \in ctxTab : s.id = c => s = r
  BY <1>1 DEF Numbered
<1> QED
  BY <1>2, <1>3, <1>4

LEMMA PathOfRoot ==
  ASSUME NEW P, NEW T, NEW sh, Paths(P, T, sh), NEW root, root \in RootsOf(ctxTab)
  PROVE  P[root.id] = <<>>
  BY DEF Paths, RootsOf

(* The context of a call, and the way to it. *)
CallPath(P, W, n, root, sh) ==
  /\ W[n].id # Null /\ \E r \in ctxTab : r.id = W[n].id
  /\ n = 1 => W[n].id = root.id /\ P[W[n].id] = <<>>
  /\ n # 1 => /\ W[n].id # root.id /\ P[W[n].id] # <<>>
              /\ Front(P[W[n].id]) = P[W[n - 1].id]
              /\ P[W[n].id] = Append(Front(P[W[n].id]), Last(P[W[n].id]))
              /\ \A r \in ctxTab : r.id = W[n].id => Last(P[W[n].id]) = sh[r.label]

LEMMA PathOfCall ==
  ASSUME Typed, Numbered, NEW P, NEW T, NEW sh, Paths(P, T, sh), NEW root, root \in RootsOf(ctxTab),
         NEW W, NEW D, Visit(W, D, root), NEW n \in Nat \ {0}, n \in 1..Len(W)
  PROVE  CallPath(P, W, n, root, sh)
<1>1. /\ \A k \in 1..Len(W) : CallVisits(W, k, D, root)
      /\ \A j, k \in 1..Len(W) : W[j].id = W[k].id => j = k
      /\ Met(W, D) \subseteq Below(ctxTab, root.id)
  BY DEF Visit
<1>2. \A k \in 1..Len(W) : W[k].id \in Met(W, D)
  BY <1>1 DEF CallVisits, Met, MetAt
<1>3. \A k \in 1..Len(W) : W[k].id # Null /\ \E r \in ctxTab : r.id = W[k].id
  BY <1>1, <1>2, IdsBelow
<1>4. ASSUME n = 1 PROVE W[n].id = root.id /\ P[W[n].id] = <<>>
  <2>1. W[n].id = root.id
    BY <1>1, <1>4 DEF CallVisits
  <2> QED
    BY <2>1, PathOfRoot
<1>5. ASSUME n # 1
      PROVE  /\ W[n].id # root.id /\ P[W[n].id] # <<>>
             /\ Front(P[W[n].id]) = P[W[n - 1].id]
             /\ P[W[n].id] = Append(Front(P[W[n].id]), Last(P[W[n].id]))
             /\ \A r \in ctxTab : r.id = W[n].id => Last(P[W[n].id]) = sh[r.label]
  <2>1. W[n].id \in Under(W[n - 1].id)
    BY <1>1, <1>5 DEF CallVisits
  <2>2. n - 1 \in 1..Len(W) /\ 1 \in 1..Len(W)
    BY <1>5
  <2>3. PICK q \in ctxTab : q.id = W[n - 1].id /\ q.id # Null
    BY <1>3, <2>2
  <2>4. W[1].id = root.id
    BY <1>1, <2>2 DEF CallVisits
  <2>5. W[n].id # root.id
    BY <1>1, <1>5, <2>2, <2>4
  <2>6. W[n].id \in Under(q.id)
    BY <2>1, <2>3
  <2>7. /\ P[W[n].id] # <<>> /\ Front(P[W[n].id]) = P[q.id]
        /\ P[W[n].id] = Append(Front(P[W[n].id]), Last(P[W[n].id]))
        /\ \A r \in ctxTab : r.id = W[n].id => Last(P[W[n].id]) = sh[r.label]
    BY <2>3, <2>6, PathBelow
  <2> QED
    BY <2>3, <2>5, <2>7
<1> QED
  BY <1>3, <1>4, <1>5 DEF CallPath

LEMMA TaleMore ==
  ASSUME NEW P, NEW A, NEW Z, A \intersect Z = {}
  PROVE  /\ Adds(Tale(P, A), Z, Tale(P, A \union Z))
         /\ \A u \in Z : Tale(P, A \union Z)[u] = Told(P, u)
  BY DEF Adds, Tale

LEMMA TellsBegun ==
  ASSUME Typed, Numbered, NEW P, NEW T, NEW sh, Paths(P, T, sh), NEW root, root \in RootsOf(ctxTab),
         NEW W, Len(W) = 1, W[1].id = root.id, W[1].at = "row", W[1].subs = {}
  PROVE  Tells(W, {}, <<>>, P, root)
<1>1. Visit(W, {}, root)
  BY VisitBegun
<1>2. MetAt(W, {}, RowRead) = {} /\ MetAt(W, {}, DirsRead) = {}
  BY DEF MetAt, RowRead, DirsRead
<1>3. Units(W, {}, root) = {}
  BY <1>2 DEF Units, UnitsOf, TagUnits
<1>4. DOMAIN Tale(P, Units(W, {}, root) \union {}) = {}
  BY <1>3 DEF Tale
<1>5. Spells(<<>>, Tale(P, Units(W, {}, root) \union {}))
  BY <1>4, SpellsNothing
<1>6. Here(W, P) = <<>>
  BY PathOfRoot DEF Here
<1>7. Ends(<<>>, <<>>)
  <2>1. Len(<<>>) = 0
    OBVIOUS
  <2> QED
    BY <2>1, OpenTagsIs DEF Ends
<1> QED
  BY <1>1, <1>5, <1>6, <1>7 DEF Tells

(* The context of the innermost call is new to it as long as it has not read *)
(* so far.                                                                   *)
LEMMA NotSofar ==
  ASSUME NEW V, NEW n \in Nat \ {0}, Len(V) = n, NEW D, NEW root, Visit(V, D, root), NEW places
  PROVE  V[n].id \notin Sofar(V, n, D, places)
<1>1. n \in 1..n /\ \A k \in 1..(n - 1) : k \in 1..n /\ k # n
  OBVIOUS
<1>2. V[n].id \notin D /\ \A k \in 1..(n - 1) : V[k].id # V[n].id
  BY <1>1 DEF Visit, CallVisits
<1> QED
  BY <1>2 DEF Sofar

LEMMA UnitsOnward ==
  ASSUME Typed, NEW V, NEW W, NEW n \in Nat \ {0}, Onward(V, W, n),
         NEW D, NEW root, Visit(V, D, root)
  PROVE  /\ V[n].at \in RowRead /\ W[n].at \in RowRead
              => MetAt(W, D, RowRead) = MetAt(V, D, RowRead)
         /\ V[n].at \notin RowRead /\ W[n].at \in RowRead
              => /\ MetAt(W, D, RowRead) = MetAt(V, D, RowRead) \union {V[n].id}
                 /\ V[n].id \notin MetAt(V, D, RowRead)
         /\ V[n].at \notin DirsRead => V[n].id \notin MetAt(V, D, DirsRead)
         /\ V[n].at \notin DirsRead /\ W[n].at \notin DirsRead
              => MetAt(W, D, DirsRead) = MetAt(V, D, DirsRead)
         /\ V[n].at \notin DirsRead /\ W[n].at \in DirsRead
              => MetAt(W, D, DirsRead) = MetAt(V, D, DirsRead) \union {V[n].id}
<1>1. \A places : V[n].id \notin Sofar(V, n, D, places)
  BY NotSofar DEF Onward
<1>2. \A places : MetAt(V, D, places)
        = Sofar(V, n, D, places) \union (IF V[n].at \in places THEN {V[n].id} ELSE {})
  BY MetTop DEF Onward
<1>3. \A places : MetAt(W, D, places)
        = Sofar(V, n, D, places) \union (IF W[n].at \in places THEN {V[n].id} ELSE {})
  BY MetOnward
<1>4. /\ V[n].id \notin Sofar(V, n, D, RowRead)
      /\ MetAt(V, D, RowRead)
         = Sofar(V, n, D, RowRead) \union (IF V[n].at \in RowRead THEN {V[n].id} ELSE {})
      /\ MetAt(W, D, RowRead)
         = Sofar(V, n, D, RowRead) \union (IF W[n].at \in RowRead THEN {V[n].id} ELSE {})
  BY <1>1, <1>2, <1>3
<1>5. /\ V[n].id \notin Sofar(V, n, D, DirsRead)
      /\ MetAt(V, D, DirsRead)
         = Sofar(V, n, D, DirsRead) \union (IF V[n].at \in DirsRead THEN {V[n].id} ELSE {})
      /\ MetAt(W, D, DirsRead)
         = Sofar(V, n, D, DirsRead) \union (IF W[n].at \in DirsRead THEN {V[n].id} ELSE {})
  BY <1>1, <1>2, <1>3
<1> QED
  BY ONLY <1>4, <1>5

(* Nothing is told twice. *)
LEMMA NewTag ==
  ASSUME Typed, NEW S, NEW R, NEW root, NEW c, c \notin S, c # root.id
  PROVE  /\ UnitsOf(S \union {c}, R, root) = UnitsOf(S, R, root) \union {<<c, 0>>}
         /\ <<c, 0>> \notin UnitsOf(S, R, root)
<1>1. \A d : \A i \in MapsTo(d) : i # 0
  BY DEF MapsTo, Typed, TypeOK
<1>2. <<c, 0>> \notin UnitsOf(S, R, root)
  BY <1>1 DEF UnitsOf, TagUnits, DirUnits
<1>3. TagUnits(S \union {c}, root) = TagUnits(S, root) \union {<<c, 0>>}
  BY DEF TagUnits
<1> QED
  BY <1>2, <1>3 DEF UnitsOf

LEMMA NoTag ==
  ASSUME NEW S, NEW R, NEW root
  PROVE  UnitsOf(S \union {root.id}, R, root) = UnitsOf(S, R, root)
  BY DEF UnitsOf, TagUnits

LEMMA NewDirs ==
  ASSUME Typed, NEW S, NEW R, NEW root, NEW c, c \notin R
  PROVE  /\ UnitsOf(S, R \union {c}, root) = UnitsOf(S, R, root) \union DirUnits(c)
         /\ UnitsOf(S, R, root) \intersect DirUnits(c) = {}
<1>1. \A d : \A i \in MapsTo(d) : i # 0
  BY DEF MapsTo, Typed, TypeOK
<1>2. UnitsOf(S, R, root) \intersect DirUnits(c) = {}
  BY <1>1 DEF UnitsOf, TagUnits, DirUnits
<1> QED
  BY <1>2 DEF UnitsOf

(* More lines than before: a tag, unless the call is the outermost. *)
TagOf(S, ls, more, n, kind, tag) ==
  /\ n = 1 => more = ls
  /\ n # 1 => \E l \in S : more = ls \o << l >> /\ l.kind = kind /\ l.what = tag

(* The row is read, and its tag told. *)
LEMMA TellsRow ==
  ASSUME Typed, Numbered, NEW P, NEW T, NEW sh, Paths(P, T, sh), NEW root, root \in RootsOf(ctxTab),
         NEW V, NEW W, NEW n \in Nat \ {0}, Onward(V, W, n),
         V[n].at = "row", W[n].at \in {"dirs", "conf"},
         NEW S, NEW ls \in Seq(S), NEW more, NEW tag, TagOf(S, ls, more, n, "open", tag),
         \A r \in ctxTab : r.id = V[n].id => tag = sh[r.label],
         Tells(V, {}, ls, P, root)
  PROVE  Tells(W, {}, more, P, root)
<1>1. PICK D : /\ Visit(V, D, root) /\ Spells(ls, Tale(P, Units(V, D, root) \union {}))
               /\ Ends(ls, Here(V, P))
  BY DEF Tells
<1>2. /\ Len(V) = n /\ Len(W) = n /\ W[n].id = V[n].id /\ n \in 1..n
  BY DEF Onward
<1>3. Visit(W, D, root)
  BY <1>1, VisitOnward
<1>4. PICK c : c = V[n].id
  OBVIOUS
<1>5. PICK A, M : A = MetAt(V, D, RowRead) /\ M = MetAt(V, D, DirsRead)
  OBVIOUS
<1>6. MetAt(W, D, RowRead) = A \union {c} /\ c \notin A /\ MetAt(W, D, DirsRead) = M
  <2>1. V[n].at \notin RowRead /\ W[n].at \in RowRead /\ V[n].at \notin DirsRead
        /\ W[n].at \notin DirsRead
    BY DEF RowRead, DirsRead
  <2> QED
    BY <1>1, <1>4, <1>5, <2>1, UnitsOnward
<1>7. Units(V, D, root) = UnitsOf(A, M, root) /\ Units(W, D, root) = UnitsOf(A \union {c}, M, root)
  BY <1>5, <1>6 DEF Units
<1>8. PICK U : U = UnitsOf(A, M, root)
  OBVIOUS
<1>9. Spells(ls, Tale(P, U))
  <2>1. U \union {} = U
    OBVIOUS
  <2> QED
    BY <1>1, <1>7, <1>8, <2>1
<1>10. CASE n = 1
  <2>1. c = root.id /\ P[c] = <<>>
    <3>1. CallPath(P, V, n, root, sh)
      BY <1>1, <1>2, PathOfCall
    <3> QED
      BY <1>4, <1>10, <3>1 DEF CallPath
  <2>2. Units(W, D, root) \union {} = U
    BY <1>7, <1>8, <2>1, NoTag
  <2>3. Here(V, P) = <<>> /\ Here(W, P) = <<>>
    BY <1>2, <1>4, <1>10, <2>1 DEF Here
  <2> QED
    BY <1>1, <1>3, <1>9, <1>10, <2>2, <2>3 DEF Tells, TagOf
<1>11. CASE n # 1
  <2>1. /\ c # root.id /\ P[c] = Append(Front(P[c]), Last(P[c]))
        /\ \E r \in ctxTab : r.id = c
        /\ \A r \in ctxTab : r.id = c => Last(P[c]) = sh[r.label]
    <3>1. CallPath(P, V, n, root, sh)
      BY <1>1, <1>2, PathOfCall
    <3> QED
      BY <1>4, <1>11, <3>1 DEF CallPath
  <2>2. PICK l \in S : /\ more = ls \o << l >> /\ l.kind = "open"
                       /\ \A r \in ctxTab : r.id = c => l.what = sh[r.label]
    BY <1>4, <1>11 DEF TagOf
  <2>3. l.what = Last(P[c])
    BY <2>1, <2>2
  <2>4. PICK u : u = <<c, 0>>
    OBVIOUS
  <2>5. Units(W, D, root) \union {} = U \union {u} /\ u \notin U
    <3>1. /\ UnitsOf(A \union {c}, M, root) = UnitsOf(A, M, root) \union {<<c, 0>>}
          /\ <<c, 0>> \notin UnitsOf(A, M, root)
      <4>1. Typed /\ c \notin A /\ c # root.id
        BY <1>6, <2>1
      <4> QED
        BY ONLY <4>1, NewTag, Zenon
    <3> QED
      BY <1>7, <1>8, <2>4, <3>1
  <2>6. /\ Adds(Tale(P, U), {u}, Tale(P, U \union {u}))
        /\ Tale(P, U \union {u})[u] = Told(P, u)
    <3>1. PICK Z : Z = {u}
      OBVIOUS
    <3>2. U \intersect Z = {} /\ u \in Z
      BY <2>5, <3>1
    <3>3. /\ Adds(Tale(P, U), Z, Tale(P, U \union Z))
          /\ \A v \in Z : Tale(P, U \union Z)[v] = Told(P, v)
      BY ONLY <3>2, TaleMore, Zenon
    <3> QED
      BY <3>1, <3>2, <3>3
  <2>7. Told(P, u) = <<Front(P[c]), l.kind, l.what>>
    BY <2>2, <2>3, <2>4 DEF Told
  <2>8. Here(V, P) = Front(P[c]) /\ Here(W, P) = P[c]
    <3>1. Len(V) > 1 /\ Len(V) # 0
      BY <1>2, <1>11
    <3> QED
      BY <1>2, <1>4, <3>1 DEF Here
  <2>9. PICK tags, E, F : tags = Front(P[c]) /\ E = Tale(P, U) /\ F = Tale(P, U \union {u})
    OBVIOUS
  <2>10. Ends(ls, tags) /\ Spells(ls, E) /\ Adds(E, {u}, F) /\ F[u] = <<tags, l.kind, l.what>>
    BY <1>1, <1>9, <2>6, <2>7, <2>8, <2>9
  <2>11. l.kind # "close"
    BY <2>2
  <2>12. Spells(ls \o << l >>, F)
    BY <2>10, <2>11, SpellsOne
  <2>13. Ends(ls \o << l >>, After(tags, l))
    BY <2>10, OneLineEnds
  <2>14. After(tags, l) = P[c]
    BY <2>1, <2>2, <2>3, <2>9 DEF After
  <2> QED
    BY <1>3, <2>2, <2>5, <2>8, <2>9, <2>12, <2>13, <2>14 DEF Tells
<1> QED
  BY <1>10, <1>11

(* The call goes on, and nothing is told. *)
LEMMA TellsStill ==
  ASSUME Typed, NEW P, NEW root, NEW V, NEW W, NEW n \in Nat \ {0}, Onward(V, W, n),
         V[n].at \in {"dirs", "conf", "push"}, W[n].at \in {"dirs", "conf", "push"},
         NEW Y, NEW ls, Tells(V, Y, ls, P, root)
  PROVE  Tells(W, Y, ls, P, root)
<1>1. PICK D : /\ Visit(V, D, root) /\ Spells(ls, Tale(P, Units(V, D, root) \union Y))
               /\ Ends(ls, Here(V, P))
  BY DEF Tells
<1>2. Visit(W, D, root)
  BY <1>1, VisitOnward
<1>3. /\ V[n].at \in RowRead /\ W[n].at \in RowRead /\ V[n].at \notin DirsRead
      /\ W[n].at \notin DirsRead /\ V[n].at # "row" /\ W[n].at # "row"
  BY DEF RowRead, DirsRead
<1>4. /\ MetAt(W, D, RowRead) = MetAt(V, D, RowRead)
      /\ MetAt(W, D, DirsRead) = MetAt(V, D, DirsRead)
  BY <1>1, <1>3, UnitsOnward
<1>5. Units(W, D, root) = Units(V, D, root)
  BY <1>4 DEF Units
<1>6. Here(W, P) = Here(V, P)
  BY <1>3 DEF Here, Onward
<1> QED
  BY <1>1, <1>2, <1>5, <1>6 DEF Tells

(* The lines for directives of a context. *)
DirsToldAs(P, d, c, new) == \A j \in 1..Len(new) : Told(P, d[j]) = <<P[c], "dir", new[j].what>>

(* Directives of its context are told. *)
LEMMA TellsDirs ==
  ASSUME Typed, NEW P, NEW root, NEW V, NEW n \in Nat \ {0}, Len(V) = n,
         V[n].at \in {"dirs", "conf", "push"},
         NEW S, NEW ls \in Seq(S), NEW new \in Seq(S), NEW m \in Nat, m = Len(new), AllDirs(new),
         NEW Y, NEW Z, Y \intersect Z = {}, Z \subseteq DirUnits(V[n].id),
         NEW d, OneToOne(d, 1..m, Z),
         DirsToldAs(P, d, V[n].id, new),
         Tells(V, Y, ls, P, root)
  PROVE  Tells(V, Y \union Z, ls \o new, P, root)
<1>1. PICK D : /\ Visit(V, D, root) /\ Spells(ls, Tale(P, Units(V, D, root) \union Y))
               /\ Ends(ls, Here(V, P))
  BY DEF Tells
<1>2. PICK c, A, M : c = V[n].id /\ A = MetAt(V, D, RowRead) /\ M = MetAt(V, D, DirsRead)
  OBVIOUS
<1>3. c \notin M
  <2>1. c \notin Sofar(V, n, D, DirsRead)
    BY <1>1, <1>2, NotSofar
  <2>2. V[n].at \notin DirsRead
    BY DEF DirsRead
  <2>3. MetAt(V, D, DirsRead)
        = Sofar(V, n, D, DirsRead) \union (IF V[n].at \in DirsRead THEN {V[n].id} ELSE {})
    BY MetTop
  <2> QED
    BY <1>2, <2>1, <2>2, <2>3
<1>4. UnitsOf(A, M, root) \intersect DirUnits(c) = {}
  <2>1. Typed /\ c \notin M
    BY <1>3
  <2> QED
    BY ONLY <2>1, NewDirs, Zenon
<1>5. PICK U : U = Units(V, D, root) \union Y
  OBVIOUS
<1>6. U \intersect Z = {}
  <2>1. Z \subseteq DirUnits(c)
    BY <1>2
  <2> QED
    BY <1>2, <1>4, <1>5, <2>1 DEF Units
<1>7. Adds(Tale(P, U), Z, Tale(P, U \union Z)) /\ \A u \in Z : Tale(P, U \union Z)[u] = Told(P, u)
  BY ONLY <1>6, TaleMore, Zenon
<1>8. Here(V, P) = P[c]
  BY <1>2 DEF Here
<1>9. PICK E, F, tags : E = Tale(P, U) /\ F = Tale(P, U \union Z) /\ tags = P[c]
  OBVIOUS
<1>10. Adds(E, Z, F) /\ Spells(ls, E) /\ Ends(ls, tags)
  BY <1>1, <1>5, <1>7, <1>8, <1>9
<1>11. \A j \in 1..m : d[j] \in Z
  BY DEF OneToOne
<1>12. Recites(F, d, tags, new)
  BY <1>2, <1>7, <1>9, <1>11 DEF Recites, DirsToldAs
<1>13. Spells(ls \o new, F) /\ Ends(ls \o new, tags)
  BY <1>10, <1>12, SpellsDirs
<1>14. U \union Z = Units(V, D, root) \union (Y \union Z)
  BY <1>5
<1> QED
  BY <1>1, <1>8, <1>9, <1>13, <1>14 DEF Tells

(* All of them are. *)
LEMMA TellsMapped ==
  ASSUME Typed, NEW P, NEW root, NEW V, NEW W, NEW n \in Nat \ {0}, Onward(V, W, n),
         V[n].at \in {"dirs", "push"}, W[n].at = "ctxs",
         NEW Y, Y = DirUnits(V[n].id), NEW ls, Tells(V, Y, ls, P, root)
  PROVE  Tells(W, {}, ls, P, root)
<1>1. PICK D : /\ Visit(V, D, root) /\ Spells(ls, Tale(P, Units(V, D, root) \union Y))
               /\ Ends(ls, Here(V, P))
  BY DEF Tells
<1>2. Visit(W, D, root)
  BY <1>1, VisitOnward
<1>3. /\ V[n].at \in RowRead /\ W[n].at \in RowRead /\ V[n].at \notin DirsRead
      /\ W[n].at \in DirsRead /\ V[n].at # "row" /\ W[n].at # "row"
  BY DEF RowRead, DirsRead
<1>4. PICK c, A, M : c = V[n].id /\ A = MetAt(V, D, RowRead) /\ M = MetAt(V, D, DirsRead)
  OBVIOUS
<1>5. MetAt(W, D, RowRead) = A /\ MetAt(W, D, DirsRead) = M \union {c} /\ c \notin M
  BY <1>1, <1>3, <1>4, UnitsOnward
<1>6. UnitsOf(A, M \union {c}, root) = UnitsOf(A, M, root) \union DirUnits(c)
  <2>1. Typed /\ c \notin M
    BY <1>5
  <2> QED
    BY ONLY <2>1, NewDirs, Zenon
<1>7. Units(W, D, root) \union {} = Units(V, D, root) \union Y
  BY <1>4, <1>5, <1>6 DEF Units
<1>8. Here(W, P) = Here(V, P)
  BY <1>3 DEF Here, Onward
<1> QED
  BY <1>1, <1>2, <1>7, <1>8 DEF Tells

LEMMA TellsAsked ==
  ASSUME Typed, Numbered, NEW P, NEW root,
         NEW V, NEW W, NEW n \in Nat \ {0}, Len(V) = n, Len(W) = n,
         \A k \in 1..(n - 1) : W[k] = V[k], W[n].id = V[n].id, V[n].at = "ctxs", W[n].at = "loop",
         W[n].subs = Under(V[n].id),
         NEW ls, Tells(V, {}, ls, P, root)
  PROVE  Tells(W, {}, ls, P, root)
<1>1. PICK D : /\ Visit(V, D, root) /\ Spells(ls, Tale(P, Units(V, D, root) \union {}))
               /\ Ends(ls, Here(V, P))
  BY DEF Tells
<1>2. /\ Visit(W, D, root)
      /\ \A places : {"ctxs", "loop"} \subseteq places => MetAt(W, D, places) = MetAt(V, D, places)
  BY <1>1, VisitAsked
<1>3. Units(W, D, root) = Units(V, D, root)
  <2>1. {"ctxs", "loop"} \subseteq RowRead /\ {"ctxs", "loop"} \subseteq DirsRead
    BY DEF RowRead, DirsRead
  <2> QED
    BY <1>2, <2>1 DEF Units
<1>4. Here(W, P) = Here(V, P)
  BY DEF Here
<1> QED
  BY <1>1, <1>2, <1>3, <1>4 DEF Tells

LEMMA TellsEntered ==
  ASSUME Typed, Numbered, NEW P, NEW T, NEW sh, Paths(P, T, sh), NEW root, root \in RootsOf(ctxTab),
         NEW V, NEW W, NEW n \in Nat \ {0}, Len(V) = n, Len(W) = n + 1,
         \A k \in 1..(n - 1) : W[k] = V[k], W[n].id = V[n].id, W[n].at = "loop", V[n].at = "loop",
         NEW s \in V[n].subs, W[n].subs = V[n].subs \ {s},
         W[n + 1].id = s, W[n + 1].at = "row", W[n + 1].subs = {},
         NEW ls, Tells(V, {}, ls, P, root)
  PROVE  Tells(W, {}, ls, P, root)
<1>1. PICK D : /\ Visit(V, D, root) /\ Spells(ls, Tale(P, Units(V, D, root) \union {}))
               /\ Ends(ls, Here(V, P))
  BY DEF Tells
<1>2. /\ Visit(W, D, root)
      /\ \A places : "row" \notin places => MetAt(W, D, places) = MetAt(V, D, places)
  BY <1>1, VisitEntered
<1>3. Units(W, D, root) = Units(V, D, root)
  <2>1. "row" \notin RowRead /\ "row" \notin DirsRead
    BY DEF RowRead, DirsRead
  <2>3. MetAt(W, D, RowRead) = MetAt(V, D, RowRead) /\ MetAt(W, D, DirsRead) = MetAt(V, D, DirsRead)
    BY <1>2, <2>1
  <2> QED
    BY <2>3 DEF Units
<1>4. Here(V, P) = P[V[n].id]
  BY DEF Here
<1>5. Here(W, P) = Front(P[s])
  <2>1. Len(W) > 1 /\ Len(W) # 0
    OBVIOUS
  <2> QED
    BY <2>1 DEF Here
<1>6. PICK j \in Nat \ {0} : j = n + 1
  OBVIOUS
<1>7. j \in 1..Len(W) /\ j # 1 /\ j - 1 = n
  BY <1>6
<1>8. Front(P[W[j].id]) = P[W[j - 1].id]
  <2>1. CallPath(P, W, j, root, sh)
    BY <1>2, <1>7, PathOfCall
  <2> QED
    BY <1>7, <2>1 DEF CallPath
<1>9. Here(W, P) = Here(V, P)
  BY <1>4, <1>5, <1>6, <1>7, <1>8
<1> QED
  BY <1>1, <1>2, <1>3, <1>9 DEF Tells

(* It returns; the closing tag is told of a context that has one. *)
LEMMA TellsLeft ==
  ASSUME Typed, Numbered, NEW P, NEW T, NEW sh, Paths(P, T, sh), NEW root, root \in RootsOf(ctxTab),
         NEW V, NEW W, NEW n \in Nat \ {0}, Len(V) = n, Len(W) = n - 1,
         \A k \in 1..(n - 1) : W[k] = V[k], V[n].at = "loop", V[n].subs = {},
         NEW S, NEW ls \in Seq(S), NEW more, NEW tag, TagOf(S, ls, more, n, "close", tag),
         Tells(V, {}, ls, P, root)
  PROVE  Tells(W, {}, more, P, root)
<1>1. PICK D : /\ Visit(V, D, root) /\ Spells(ls, Tale(P, Units(V, D, root) \union {}))
               /\ Ends(ls, Here(V, P))
  BY DEF Tells
<1>3. PICK E : /\ Visit(W, E, root)
               /\ \A places : "loop" \in places => MetAt(W, E, places) = MetAt(V, D, places)
  BY <1>1, VisitLeft
<1>4. Units(W, E, root) = Units(V, D, root)
  <2>1. "loop" \in RowRead /\ "loop" \in DirsRead
    BY DEF RowRead, DirsRead
  <2> QED
    BY <1>3, <2>1 DEF Units
<1>5. PICK U : U = Tale(P, Units(V, D, root) \union {})
  OBVIOUS
<1>6. Here(V, P) = P[V[n].id] /\ n \in 1..Len(V)
  BY DEF Here
<1>7. CASE n = 1
  <2>1. Here(V, P) = <<>>
    <3>1. CallPath(P, V, n, root, sh)
      BY <1>1, <1>6, PathOfCall
    <3> QED
      BY <1>6, <1>7, <3>1 DEF CallPath
  <2>2. Here(W, P) = <<>>
    BY <1>7 DEF Here
  <2> QED
    BY <1>1, <1>3, <1>4, <1>7, <2>1, <2>2 DEF Tells, TagOf
<1>8. CASE n # 1
  <2>1. P[V[n].id] # <<>> /\ Front(P[V[n].id]) = P[V[n - 1].id]
    <3>1. CallPath(P, V, n, root, sh)
      BY <1>1, <1>6, PathOfCall
    <3> QED
      BY <1>6, <1>8, <3>1 DEF CallPath
  <2>2. Here(W, P) = P[V[n - 1].id]
    <3>1. n - 1 \in 1..(n - 1) /\ Len(W) # 0 /\ n - 1 \in 1..Len(V) /\ n - 1 < n
      BY <1>8
    <3>2. W[n - 1] = V[n - 1]
      BY <3>1
    <3>3. V[n - 1].at = "loop"
      BY <1>1, <3>1 DEF Visit, CallVisits
    <3> QED
      BY <3>1, <3>2, <3>3 DEF Here
  <2>3. PICK l \in S : more = ls \o << l >> /\ l.kind = "close"
    BY <1>8 DEF TagOf
  <2>4. PICK tags : tags = P[V[n].id]
    OBVIOUS
  <2>5. Ends(ls, tags) /\ Spells(ls, U)
    BY <1>1, <1>5, <1>6, <2>4
  <2>6. Spells(ls \o << l >>, U)
    BY <2>3, <2>5, SpellsClose
  <2>7. Ends(ls \o << l >>, After(tags, l))
    BY <2>5, OneLineEnds
  <2>8. After(tags, l) = Here(W, P)
    BY <2>1, <2>2, <2>3, <2>4 DEF After
  <2> QED
    BY <1>3, <1>4, <1>5, <2>3, <2>6, <2>7, <2>8 DEF Tells
<1> QED
  BY <1>7, <1>8

LEMMA TellsSame ==
  ASSUME UNCHANGED <<ctxTab, confTab, mapTab>>, NEW CONSTANT W, NEW CONSTANT Y, NEW CONSTANT ls,
         NEW CONSTANT P, NEW CONSTANT root, Tells(W, Y, ls, P, root)
  PROVE  Tells(W, Y, ls, P, root)'
<1>1. PICK D : /\ Visit(W, D, root) /\ Spells(ls, Tale(P, Units(W, D, root) \union Y))
               /\ Ends(ls, Here(W, P))
  BY DEF Tells
<1>2. Visit(W, D, root)'
  BY <1>1, VisitSame
<1>3. Units(W, D, root)' = Units(W, D, root)
  BY DEF Units, UnitsOf, MetAt, DirUnits, MapsTo, TagUnits
<1>4. \A A : Tale(P, A)' = Tale(P, A)
  BY DEF Tale, Told, DirOf
<1>5. PICK E : E = Tale(P, Units(W, D, root) \union Y)
  OBVIOUS
<1>6. E = Tale(P, Units(W, D, root) \union Y)'
  BY <1>3, <1>4, <1>5
<1>7. Spells(ls, E)'
  BY <1>1, <1>5 DEF Spells, LineNos, EntryAt, OpenTags
<1>8. Ends(ls, Here(W, P))'
  BY <1>1 DEF Ends, OpenTags, Here
<1>9. Spells(ls, Tale(P, Units(W, D, root) \union Y))'
  BY <1>6, <1>7
<1> QED
  BY <1>2, <1>8, <1>9 DEF Tells

(* When the outermost call has returned, all below the root is told. *)
LEMMA TellsAll ==
  ASSUME NEW P, NEW root, NEW W, Len(W) = 0, NEW ls, Tells(W, {}, ls, P, root)
  PROVE  Spells(ls, Tale(P, UnitsOf(Below(ctxTab, root.id), Below(ctxTab, root.id), root)))
<1>1. PICK D : /\ Visit(W, D, root) /\ Spells(ls, Tale(P, Units(W, D, root) \union {}))
  BY DEF Tells
<1>2. \A places : MetAt(W, D, places) = Below(ctxTab, root.id)
  BY <1>1, VisitEnded
<1>3. Units(W, D, root) \union {} = UnitsOf(Below(ctxTab, root.id), Below(ctxTab, root.id), root)
  BY <1>2 DEF Units
<1> QED
  BY <1>1, <1>3

-----------------------------------------------------------------------------
(* sql2conf.pl tells all.                                                    *)

(* One root, and the tags that lead to each context as this reader spells    *)
(* them.                                                                     *)
Routed(P, T, sh, root) == RootsOf(ctxTab) = {root} /\ Paths(P, T, sh)

LEMMA DirOfRow ==
  ASSUME Typed, NEW lab, NEW dir, Remembered(lab, dir), NEW c \in confTab
  PROVE  DirOf(c.id) = c.dir /\ \A b \in confTab : b.id = c.id => b = c
<1>1. \A a, b \in confTab : a.id = b.id => a.dir = b.dir
  BY DEF Remembered
<1>2. \A a, b \in confTab : a.id = b.id => a = b
  <2>1. \A b \in confTab : b \in ConfRow
    BY DEF Typed, TypeOK
  <2> QED
    BY <1>1, <2>1 DEF ConfRow
<1> QED
  BY <1>2 DEF DirOf

(* The answer to the join has a row for each mapping. *)
LEMMA JoinUnits ==
  ASSUME Typed, Finite, NEW lab, NEW dir, Remembered(lab, dir),
         NEW id, NEW rows \in Export!SetToSeqs(Export!Join(id)),
         NEW m \in Nat, DOMAIN rows = 1..m
  PROVE  \E d : /\ OneToOne(d, 1..m, DirUnits(id))
                /\ \A j \in 1..m : /\ d[j] = <<id, rows[j][1]>> /\ rows[j][1] # 0
                                   /\ DirOf(mapTab[rows[j][1]].conf) = rows[j][2].dir
<1>1. PICK J : J = Export!Join(id)
  OBVIOUS
<1>2. IsFiniteSet(J)
  BY <1>1, JoinFinite
<1>3. PICK k \in Nat : k = Cardinality(J)
  BY <1>2, FS_CardinalityType
<1>4. rows \in [1..k -> J] /\ \A i, j \in 1..k : i # j => rows[i] # rows[j]
  BY <1>1, <1>3, SameCountExport DEF Export!SetToSeqs
<1>5. rows \in Injection(1..k, J)
  BY <1>4 DEF Injection, IsInjective
<1>6. Cardinality(1..k) = k
  BY <1>3, FS_Interval
<1>7. rows \in Surjection(1..k, J)
  BY <1>2, <1>3, <1>5, <1>6, FS_Injection
<1>8. /\ \A i \in 1..m : rows[i] \in J
      /\ \A p \in J : \E i \in 1..m : rows[i] = p
      /\ \A i, j \in 1..m : rows[i] = rows[j] => i = j
  BY <1>4, <1>7 DEF Surjection
<1>9. \A p \in J : /\ p = <<p[1], p[2]>> /\ p[1] \in DOMAIN mapTab /\ p[2] \in confTab
                   /\ mapTab[p[1]].ctx = id /\ mapTab[p[1]].conf = p[2].id
  BY <1>1 DEF Export!Join
<1>10. \A p, q \in J : p[1] = q[1] => p = q
  <2> SUFFICES ASSUME NEW p \in J, NEW q \in J, p[1] = q[1] PROVE p = q
    OBVIOUS
  <2>1. p[2] \in confTab /\ q[2] \in confTab /\ p[2].id = q[2].id
    BY <1>9
  <2>2. p[2] = q[2]
    BY <2>1, DirOfRow
  <2>3. p = <<p[1], p[2]>> /\ q = <<q[1], q[2]>>
    BY <1>9
  <2> QED
    BY <2>2, <2>3
<1> DEFINE d == [j \in 1..m |-> <<id, rows[j][1]>>]
<1>11. \A j \in 1..m : d[j] = <<id, rows[j][1]>>
  OBVIOUS
<1>12. ASSUME NEW j \in 1..m
       PROVE  /\ rows[j][1] \in MapsTo(id) /\ rows[j][1] # 0
              /\ DirOf(mapTab[rows[j][1]].conf) = rows[j][2].dir
  <2>1. /\ rows[j][1] \in DOMAIN mapTab /\ rows[j][2] \in confTab
        /\ mapTab[rows[j][1]].ctx = id /\ mapTab[rows[j][1]].conf = rows[j][2].id
    BY <1>8, <1>9
  <2>2. rows[j][1] # 0
    BY <2>1 DEF Typed, TypeOK
  <2>3. DirOf(rows[j][2].id) = rows[j][2].dir
    BY <2>1, DirOfRow
  <2> QED
    BY <2>1, <2>2, <2>3 DEF MapsTo
<1>13. d \in [1..m -> DirUnits(id)]
  BY <1>12 DEF DirUnits
<1> HIDE DEF d
<1>14. \A i, j \in 1..m : d[i] = d[j] => i = j
  <2> SUFFICES ASSUME NEW i \in 1..m, NEW j \in 1..m, d[i] = d[j] PROVE i = j
    OBVIOUS
  <2>1. rows[i][1] = rows[j][1]
    BY <1>11
  <2>2. rows[i] = rows[j]
    BY <1>8, <1>10, <2>1
  <2> QED
    BY <1>8, <2>2
<1>15. \A u \in DirUnits(id) : \E j \in 1..m : d[j] = u
  <2> SUFFICES ASSUME NEW a \in MapsTo(id) PROVE \E j \in 1..m : d[j] = <<id, a>>
    BY DEF DirUnits
  <2>1. PICK c \in confTab : c.id = mapTab[a].conf
    BY DEF MapsTo
  <2>2. <<a, c>> \in J
    BY <1>1, <2>1 DEF Export!Join, MapsTo
  <2>3. PICK j \in 1..m : rows[j] = <<a, c>>
    BY <1>8, <2>2
  <2> QED
    BY <1>11, <2>3
<1>16. OneToOne(d, 1..m, DirUnits(id))
  BY <1>13, <1>14, <1>15 DEF OneToOne
<1> QED
  BY <1>11, <1>12, <1>16

(* What it prints for the row of a context. *)
LEMMA RowShown ==
  ASSUME Numbered, NEW r \in ctxTab
  PROVE  Export!LabelOf(r.id) = Shown[r.label]
<1>1. PICK q \in ctxTab : q = (CHOOSE s \in ctxTab : s.id = r.id)
  OBVIOUS
<1>2. q.id = r.id
  BY <1>1
<1>3. q = r
  BY <1>2 DEF Numbered
<1> QED
  BY <1>1, <1>3 DEF Export!LabelOf

(* What it has told after a step. *)
Recounts(P, root) == \E W, ls : W = walk' /\ ls = text' /\ Tells(W, {}, ls, P, root)

LEMMA RecountBegins ==
  ASSUME Typed, Numbered, NEW P, NEW T, NEW root, Routed(P, T, Shown, root),
         text = <<>>, Export!SelectRoot
  PROVE  Recounts(P, root)
<1>1. root \in RootsOf(ctxTab) /\ root \in ctxTab /\ Paths(P, T, Shown)
  BY DEF Routed, RootsOf
<1>2. Export!Parentless = {root.id}
  BY DEF Routed, RootsOf, Export!Parentless
<1>3. walk' = <<Export!NewCall(root.id)>> /\ text' = <<>>
  BY <1>2 DEF Export!SelectRoot
<1>4. PICK W : W = walk'
  OBVIOUS
<1>5. Len(W) = 1 /\ W[1].id = root.id /\ W[1].at = "row" /\ W[1].subs = {}
  BY <1>3, <1>4 DEF Export!NewCall
<1>6. Tells(W, {}, <<>>, P, root)
  BY <1>1, <1>5, TellsBegun
<1> QED
  BY <1>3, <1>4, <1>6 DEF Recounts

(* Its call goes on. *)
LEMMA TopOnward ==
  ASSUME Reads, NEW n \in Nat \ {0}, n = Len(walk), NEW call, Export!SetTop(call),
         call.id = walk[n].id, call.subs = {}, walk[n].at \in Everywhere \ {"loop"},
         call.at \in Everywhere \ {"loop"}
  PROVE  \E V, W : V = walk /\ W = walk' /\ Onward(V, W, n) /\ V[n].at = walk[n].at /\ W[n] = call
<1>1. PICK V, W : V = walk /\ W = walk'
  OBVIOUS
<1>2. Len(W) = n /\ W[n] = call /\ \A k \in 1..(n - 1) : W[k] = V[k]
  BY <1>1, TopSet
<1>3. Onward(V, W, n)
  BY <1>1, <1>2 DEF Onward
<1> QED
  BY <1>1, <1>2, <1>3

(* A call that has not asked what is below its context knows nothing of it. *)
LEMMA NothingBelow ==
  ASSUME NEW W, NEW Y, NEW ls, NEW P, NEW root, Tells(W, Y, ls, P, root),
         NEW n \in 1..Len(W), W[n].at # "loop"
  PROVE  W[n].subs = {}
  BY DEF Tells, Visit, CallVisits

(* Its tag, which the outermost call does not print. *)
LEMMA TagPrinted ==
  ASSUME Printed, NEW kind \in {"open", "close"}, NEW id \in Nat, NEW label \in Tags,
         NEW n \in Nat \ {0}, n = Len(walk),
         text' = text \o Export!Tagged(<<Export!Tag(kind, id, label)>>)
  PROVE  TagOf(TextLine, text, text', n, kind, label)
<1>1. text \in Seq(TextLine)
  BY DEF Printed
<1>2. PICK l \in TextLine : l = Export!Tag(kind, id, label) /\ l.kind = kind /\ l.what = label
  BY TagTyped
<1>3. text' = text \o Export!Tagged(<< l >>)
  BY <1>2
<1>4. CASE n = 1
  <2>1. ~(Len(walk) > 1)
    BY <1>4
  <2>2. text' = text \o <<>>
    BY <1>3, <2>1 DEF Export!Tagged
  <2> QED
    BY <1>1, <1>4, <2>2 DEF TagOf
<1>5. CASE n # 1
  <2>1. Len(walk) > 1
    BY <1>5
  <2> QED
    BY <1>2, <1>3, <1>5, <2>1 DEF Export!Tagged, TagOf
<1> QED
  BY <1>4, <1>5

LEMMA RecountRow ==
  ASSUME Typed, Numbered, NEW lab, NEW dir, Remembered(lab, dir), Reads, Printed,
         NEW P, NEW T, NEW root, Routed(P, T, Shown, root),
         Tells(walk, {}, text, P, root), Export!SelectRow
  PROVE  Recounts(P, root)
<1>0. root \in RootsOf(ctxTab) /\ Paths(P, T, Shown) /\ text \in Seq(TextLine)
  BY DEF Routed, Printed
<1>1. walk # <<>>
  BY DEF Export!SelectRow, Export!At
<1>2. PICK n \in Nat \ {0} :
        /\ n = Len(walk) /\ n \in 1..n /\ Export!Top = walk[n] /\ walk[n] \in ExportCall
        /\ RowsRead(walk) = IF walk[n].at = "row" THEN n - 1 ELSE n
  BY <1>1, TopRead
<1>3. PICK id \in Nat : id = walk[n].id
  BY <1>2 DEF ExportCall
<1>4. PICK label \in Tags : label = Export!LabelOf(id)
  BY RowLabel
<1>5. PICK call : call = [walk[n] EXCEPT !.at = "dirs", !.label = label]
  OBVIOUS
<1>6. /\ Export!SetTop(call) /\ call.id = walk[n].id /\ call.at = "dirs" /\ walk[n].at = "row"
      /\ call.subs = walk[n].subs
  BY <1>2, <1>3, <1>4, <1>5 DEF Export!SelectRow, Export!At, ExportCall
<1>7. text' = text \o Export!Tagged(<<Export!Tag("open", id, label)>>)
  BY <1>2, <1>3, <1>4 DEF Export!SelectRow
<1>8. walk[n].subs = {}
  BY <1>2, <1>6, NothingBelow
<1>9. PICK V, W : V = walk /\ W = walk' /\ Onward(V, W, n) /\ V[n].at = walk[n].at /\ W[n] = call
  <2>1. walk[n].at \in Everywhere \ {"loop"} /\ call.at \in Everywhere \ {"loop"} /\ call.subs = {}
    BY <1>6, <1>8 DEF Everywhere
  <2> QED
    BY <1>2, <1>6, <2>1, TopOnward
<1>10. PICK ls, more : ls = text /\ more = text'
  OBVIOUS
<1>11. TagOf(TextLine, ls, more, n, "open", label)
  BY <1>2, <1>7, <1>10, TagPrinted
<1>12. \A r \in ctxTab : r.id = V[n].id => label = Shown[r.label]
  BY <1>3, <1>4, <1>9, RowShown
<1>14. Tells(V, {}, ls, P, root)
  BY <1>9, <1>10
<1>15. V[n].at = "row" /\ W[n].at \in {"dirs", "conf"} /\ ls \in Seq(TextLine)
  BY <1>0, <1>6, <1>9, <1>10
<1>16. Tells(W, {}, more, P, root)
  BY <1>0, <1>9, <1>11, <1>12, <1>14, <1>15, TellsRow
<1> QED
  BY <1>9, <1>10, <1>16 DEF Recounts

LEMMA RecountDirs ==
  ASSUME Typed, Numbered, Finite, NEW lab, NEW dir, Remembered(lab, dir), Reads, Printed,
         NEW P, NEW T, NEW root, Routed(P, T, Shown, root),
         Tells(walk, {}, text, P, root), Export!SelectDirs
  PROVE  Recounts(P, root)
<1>0. root \in RootsOf(ctxTab) /\ Paths(P, T, Shown) /\ text \in Seq(TextLine)
  BY DEF Routed, Printed
<1>1. walk # <<>>
  BY DEF Export!SelectDirs, Export!At
<1>2. PICK n \in Nat \ {0} :
        /\ n = Len(walk) /\ n \in 1..n /\ Export!Top = walk[n] /\ walk[n] \in ExportCall
        /\ RowsRead(walk) = IF walk[n].at = "row" THEN n - 1 ELSE n
  BY <1>1, TopRead
<1>3. PICK id \in Nat : id = walk[n].id
  BY <1>2 DEF ExportCall
<1>4. PICK call : call = [walk[n] EXCEPT !.at = "ctxs"]
  OBVIOUS
<1>5. /\ Export!SetTop(call) /\ call.id = walk[n].id /\ call.at = "ctxs" /\ walk[n].at = "dirs"
      /\ call.subs = walk[n].subs
  BY <1>2, <1>4 DEF Export!SelectDirs, Export!At, ExportCall
<1>6. PICK rows \in Export!SetToSeqs(Export!Join(id)) :
        text' = text \o [i \in DOMAIN rows |-> Export!Directive(id, rows[i][2])]
  BY <1>2, <1>3 DEF Export!SelectDirs
<1>7. PICK m \in Nat : DOMAIN rows = 1..m /\ \A j \in 1..m : rows[j] \in Export!Join(id)
  BY <1>6, JoinRows
<1>8. PICK new : new = [i \in 1..m |-> Export!Directive(id, rows[i][2])]
  OBVIOUS
<1>9. text' = text \o new
  BY <1>6, <1>7, <1>8
<1>10. PICK d : /\ OneToOne(d, 1..m, DirUnits(id))
                /\ \A j \in 1..m : /\ d[j] = <<id, rows[j][1]>> /\ rows[j][1] # 0
                                   /\ DirOf(mapTab[rows[j][1]].conf) = rows[j][2].dir
  BY <1>6, <1>7, JoinUnits
<1>11. \A j \in 1..m : new[j].kind = "dir" /\ new[j].what = rows[j][2].dir
  BY <1>8 DEF Export!Directive
<1>12. PICK S : S = TextLine \union {new[i] : i \in 1..m}
  OBVIOUS
<1>13. new \in Seq(S) /\ text \in Seq(S) /\ m = Len(new)
  <2>1. new \in [1..m -> S]
    BY <1>8, <1>12
  <2>2. new \in Seq(S) /\ m = Len(new)
    BY ONLY <2>1, m \in Nat
  <2> QED
    BY <1>0, <1>12, <2>2, SeqMonotonic
<1>14. AllDirs(new)
  BY <1>11, <1>13 DEF AllDirs
<1>15. walk[n].subs = {}
  BY <1>2, <1>5, NothingBelow
<1>16. PICK V, W : V = walk /\ W = walk' /\ Onward(V, W, n) /\ V[n].at = walk[n].at /\ W[n] = call
  <2>1. walk[n].at \in Everywhere \ {"loop"} /\ call.at \in Everywhere \ {"loop"} /\ call.subs = {}
    BY <1>5, <1>15 DEF Everywhere
  <2> QED
    BY <1>2, <1>5, <2>1, TopOnward
<1>17. PICK Y, Z, ls : Y = {} /\ Z = DirUnits(id) /\ ls = text
  OBVIOUS
<1>18. DirsToldAs(P, d, V[n].id, new)
  BY <1>3, <1>10, <1>11, <1>13, <1>16 DEF Told, DirsToldAs
<1>19. Len(V) = n /\ V[n].at \in {"dirs", "push"} /\ V[n].at \in {"dirs", "conf", "push"}
       /\ W[n].at = "ctxs" /\ V[n].id = id
  BY <1>2, <1>3, <1>5, <1>16
<1>20. Tells(V, Y, ls, P, root) /\ ls \in Seq(S) /\ Y \intersect Z = {} /\ Z \subseteq DirUnits(V[n].id)
       /\ OneToOne(d, 1..m, Z)
  BY <1>10, <1>13, <1>16, <1>17, <1>19
<1>21. Tells(V, Y \union Z, ls \o new, P, root)
  BY <1>13, <1>14, <1>18, <1>19, <1>20, TellsDirs
<1>22. Tells(V, Z, ls \o new, P, root) /\ Z = DirUnits(V[n].id)
  <2>1. Y \union Z = Z
    BY <1>17
  <2> QED
    BY <1>17, <1>19, <1>21, <2>1
<1>23. Tells(W, {}, ls \o new, P, root)
  BY <1>16, <1>19, <1>22, TellsMapped
<1> QED
  BY <1>9, <1>16, <1>17, <1>23 DEF Recounts

LEMMA RecountCtxs ==
  ASSUME Typed, Numbered, Reads, NEW P, NEW T, NEW root, Routed(P, T, Shown, root),
         Tells(walk, {}, text, P, root), Export!SelectCtxs
  PROVE  Recounts(P, root)
<1>0. root \in RootsOf(ctxTab) /\ Paths(P, T, Shown)
  BY DEF Routed
<1>1. walk # <<>> /\ text' = text
  BY DEF Export!SelectCtxs, Export!At
<1>2. PICK n \in Nat \ {0} :
        /\ n = Len(walk) /\ n \in 1..n /\ Export!Top = walk[n] /\ walk[n] \in ExportCall
        /\ RowsRead(walk) = IF walk[n].at = "row" THEN n - 1 ELSE n
  BY <1>1, TopRead
<1>3. PICK id \in Nat : id = walk[n].id
  BY <1>2 DEF ExportCall
<1>4. PICK call : call = [walk[n] EXCEPT !.at = "loop", !.subs = Export!Children(id)]
  OBVIOUS
<1>5. /\ Export!SetTop(call) /\ call.id = walk[n].id /\ call.at = "loop"
      /\ call.subs = Export!Children(id) /\ walk[n].at = "ctxs"
  BY <1>2, <1>3, <1>4 DEF Export!SelectCtxs, Export!At, ExportCall
<1>6. id # Null
  <2>1. PICK D : Visit(walk, D, root)
    BY DEF Tells
  <2>2. n \in 1..Len(walk)
    BY <1>2
  <2>3. CallPath(P, walk, n, root, Shown)
    BY <1>0, <2>1, <2>2, PathOfCall
  <2> QED
    BY <1>3, <2>3 DEF CallPath
<1>7. call.subs = Under(id)
  BY <1>5, <1>6 DEF Export!Children, Under
<1>8. PICK V, W, ls : V = walk /\ W = walk' /\ ls = text
  OBVIOUS
<1>9. Len(W) = n /\ W[n] = call /\ \A k \in 1..(n - 1) : W[k] = V[k]
  BY <1>2, <1>5, <1>8, TopSet
<1>10. /\ Len(V) = n /\ W[n].id = V[n].id /\ V[n].at = "ctxs" /\ W[n].at = "loop"
       /\ W[n].subs = Under(V[n].id) /\ Tells(V, {}, ls, P, root)
  BY <1>2, <1>3, <1>5, <1>7, <1>8, <1>9
<1>11. Tells(W, {}, ls, P, root)
  BY <1>9, <1>10, TellsAsked
<1> QED
  BY <1>1, <1>8, <1>11 DEF Recounts

LEMMA RecountEnters ==
  ASSUME Typed, Numbered, Reads, NEW P, NEW T, NEW root, Routed(P, T, Shown, root),
         Tells(walk, {}, text, P, root), Export!EnterCtx
  PROVE  Recounts(P, root)
<1>0. root \in RootsOf(ctxTab) /\ Paths(P, T, Shown)
  BY DEF Routed
<1>1. walk # <<>> /\ text' = text
  BY DEF Export!EnterCtx, Export!At
<1>2. PICK n \in Nat \ {0} :
        /\ n = Len(walk) /\ n \in 1..n /\ Export!Top = walk[n] /\ walk[n] \in ExportCall
        /\ RowsRead(walk) = IF walk[n].at = "row" THEN n - 1 ELSE n
  BY <1>1, TopRead
<1>3. PICK s \in walk[n].subs :
        walk' = Append([walk EXCEPT ![n].subs = @ \ {s}], Export!NewCall(s))
  BY <1>1, <1>2 DEF Export!EnterCtx
<1>4. PICK top, new : top = [walk[n] EXCEPT !.subs = @ \ {s}] /\ new = Export!NewCall(s)
  OBVIOUS
<1>5. /\ top \in ExportCall /\ top.id = walk[n].id /\ top.at = "loop" /\ walk[n].at = "loop"
      /\ top.subs = walk[n].subs \ {s}
  BY <1>2, <1>4 DEF ExportCall, Export!EnterCtx, Export!At
<1>6. new \in ExportCall /\ new.id = s /\ new.at = "row" /\ new.subs = {}
  <2>1. s \in Nat
    BY <1>2 DEF ExportCall
  <2> QED
    BY <1>4, <2>1, NewCallTyped DEF Export!NewCall
<1>7. PICK V, W, ls : V = walk /\ W = walk' /\ ls = text
  OBVIOUS
<1>8. /\ Len(V) = n /\ Len(W) = n + 1 /\ W[n + 1] = new /\ W[n] = top
      /\ \A i \in 1..(n - 1) : W[i] = V[i]
  <2>1. walk' = Append([walk EXCEPT ![n] = top], new)
    BY <1>3, <1>4
  <2>2. /\ walk' \in Seq(ExportCall) /\ Len(walk') = n + 1 /\ walk'[n + 1] = new /\ walk'[n] = top
        /\ \A i \in 1..(n - 1) : walk'[i] = walk[i]
    BY <1>1, <1>2, <1>5, <1>6, <2>1, LastReplacedAndAdded DEF Reads
  <2> QED
    BY <1>2, <1>7, <2>2
<1>9. /\ s \in V[n].subs /\ W[n].subs = V[n].subs \ {s} /\ W[n].id = V[n].id
      /\ W[n].at = "loop" /\ V[n].at = "loop"
      /\ W[n + 1].id = s /\ W[n + 1].at = "row" /\ W[n + 1].subs = {} /\ Tells(V, {}, ls, P, root)
  BY <1>5, <1>6, <1>7, <1>8
<1>10. Tells(W, {}, ls, P, root)
  BY <1>0, <1>8, <1>9, TellsEntered
<1> QED
  BY <1>1, <1>7, <1>10 DEF Recounts

LEMMA RecountLeaves ==
  ASSUME Typed, Numbered, Reads, Printed, NEW P, NEW T, NEW root, Routed(P, T, Shown, root),
         Tells(walk, {}, text, P, root), Export!LeaveCtx
  PROVE  Recounts(P, root)
<1>0. root \in RootsOf(ctxTab) /\ Paths(P, T, Shown) /\ text \in Seq(TextLine)
  BY DEF Routed, Printed
<1>1. walk # <<>>
  BY DEF Export!LeaveCtx, Export!At
<1>2. PICK n \in Nat \ {0} :
        /\ n = Len(walk) /\ n \in 1..n /\ Export!Top = walk[n] /\ walk[n] \in ExportCall
        /\ RowsRead(walk) = IF walk[n].at = "row" THEN n - 1 ELSE n
  BY <1>1, TopRead
<1>3. walk[n].at = "loop" /\ walk[n].subs = {} /\ walk[n].id \in Nat /\ walk[n].label \in Tags
  BY <1>2 DEF Export!LeaveCtx, Export!At, ExportCall, Tags
<1>4. text' = text \o Export!Tagged(<<Export!Tag("close", walk[n].id, walk[n].label)>>)
  BY <1>2 DEF Export!LeaveCtx
<1>5. TagOf(TextLine, text, text', n, "close", walk[n].label)
  BY <1>2, <1>3, <1>4, TagPrinted
<1>6. PICK V, W, ls, more, tag :
        V = walk /\ W = walk' /\ ls = text /\ more = text' /\ tag = walk[n].label
  OBVIOUS
<1>7. Len(V) = n /\ Len(W) = n - 1 /\ \A k \in 1..(n - 1) : W[k] = V[k]
  <2>1. walk \in Seq(ExportCall) /\ walk' = SubSeq(walk, 1, Len(walk) - 1)
    BY DEF Reads, Export!LeaveCtx
  <2>2. /\ walk' \in Seq(ExportCall) /\ Len(walk') = n - 1
        /\ \A k \in 1..(n - 1) : walk'[k] = walk[k]
    BY <1>1, <1>2, <2>1, LastDropped
  <2> QED
    BY <1>2, <1>6, <2>2
<1>8. /\ V[n].at = "loop" /\ V[n].subs = {} /\ TagOf(TextLine, ls, more, n, "close", tag)
      /\ ls \in Seq(TextLine) /\ Tells(V, {}, ls, P, root)
  BY <1>0, <1>3, <1>5, <1>6
<1>9. Tells(W, {}, more, P, root)
  BY <1>0, <1>7, <1>8, TellsLeft
<1> QED
  BY <1>6, <1>9 DEF Recounts

(* What it has told so far, if nobody writes meanwhile. *)
ExportTells == \A P, T, root : Routed(P, T, Shown, root) => Tells(walk, {}, text, P, root)

ExportTold == quiet /\ step \in {"collect", "end"} => ExportTells

(* The same lines, where nothing was written. *)
LEMMA ExportTellsStill ==
  ASSUME UNCHANGED <<ctxTab, confTab, mapTab>>,
         \A P, T, root : Routed(P, T, Shown, root) => Recounts(P, root)
  PROVE  ExportTells'
<1> SUFFICES ASSUME NEW CONSTANT P, NEW CONSTANT T, NEW CONSTANT root, Routed(P, T, Shown, root)'
             PROVE  Tells(walk, {}, text, P, root)'
  BY DEF ExportTells
<1>1. Routed(P, T, Shown, root)
  BY DEF Routed, RootsOf, Paths
<1>2. Recounts(P, root)
  BY <1>1
<1>3. PICK W, ls : W = walk' /\ ls = text' /\ Tells(W, {}, ls, P, root)
  BY <1>2 DEF Recounts
<1>4. PICK Y : Y = {}
  OBVIOUS
<1>5. Tells(W, Y, ls, P, root)'
  BY <1>3, <1>4, TellsSame
<1> QED
  BY <1>3, <1>4, <1>5

LEMMA ExportToldKept ==
  ASSUME ExportTold, UNCHANGED exportVars,
         quiet' /\ step # "start" => quiet /\ UNCHANGED <<ctxTab, confTab, mapTab>>
  PROVE  ExportTold'
<1>1. UNCHANGED <<step, walk, text>>
  BY DEF exportVars
<1>2. ASSUME quiet', step \in {"collect", "end"} PROVE ExportTells'
  <2>1. ExportTells /\ UNCHANGED <<ctxTab, confTab, mapTab>>
    BY <1>2 DEF ExportTold
  <2>2. \A P, T, root : Routed(P, T, Shown, root) => Recounts(P, root)
    BY <1>1, <2>1 DEF ExportTells, Recounts
  <2> QED
    BY <2>1, <2>2, ExportTellsStill
<1> QED
  BY <1>1, <1>2 DEF ExportTold

LEMMA ExportToldExports ==
  ASSUME Kept, ExportOwed, ExportTold, ExportStep
  PROVE  ExportTold'
<1>1. /\ Typed /\ Numbered /\ Reads /\ Finite /\ Printed
      /\ UNCHANGED <<ctxTab, confTab, mapTab>> /\ quiet' = quiet /\ Export!Next
  BY DEF Kept, Orderly, Trees, ExportStep, vars
<1>2. PICK lab, dir : Remembered(lab, dir)
  BY DEF Kept, NamesKept
<1>3. ASSUME \A P, T, root : Routed(P, T, Shown, root) => Recounts(P, root) PROVE ExportTold'
  BY <1>1, <1>3, ExportTellsStill DEF ExportTold
<1>4. CASE ~quiet
  BY <1>1, <1>4 DEF ExportTold
<1>5. CASE Export!SelectRoot
  <2>1. text = <<>>
    BY <1>5 DEF Export!SelectRoot, ExportOwed
  <2>2. \A P, T, root : Routed(P, T, Shown, root) => Recounts(P, root)
    BY <1>1, <1>5, <2>1, RecountBegins
  <2> QED
    BY <1>3, <2>2
<1>6. ASSUME quiet, \/ Export!SelectRow \/ Export!SelectDirs \/ Export!SelectCtxs \/ Export!EnterCtx
                    \/ Export!LeaveCtx \/ Export!Show
      PROVE  ExportTold'
  <2>1. step = "collect"
    BY <1>6 DEF Export!SelectRow, Export!SelectDirs, Export!SelectCtxs, Export!EnterCtx,
                Export!LeaveCtx, Export!Show, Export!At
  <2>2. ExportTells
    BY <1>6, <2>1 DEF ExportTold
  <2> SUFFICES ASSUME NEW CONSTANT P, NEW CONSTANT T, NEW CONSTANT root, Routed(P, T, Shown, root)
               PROVE  Recounts(P, root)
    BY <1>3
  <2>3. Tells(walk, {}, text, P, root)
    BY <2>2 DEF ExportTells
  <2>4. CASE Export!SelectRow
    BY <1>1, <1>2, <2>3, <2>4, RecountRow
  <2>5. CASE Export!SelectDirs
    BY <1>1, <1>2, <2>3, <2>5, RecountDirs
  <2>6. CASE Export!SelectCtxs
    BY <1>1, <2>3, <2>6, RecountCtxs
  <2>7. CASE Export!EnterCtx
    BY <1>1, <2>3, <2>7, RecountEnters
  <2>8. CASE Export!LeaveCtx
    BY <1>1, <2>3, <2>8, RecountLeaves
  <2>9. CASE Export!Show
    <3>1. walk' = walk /\ text' = text
      BY <2>9 DEF Export!Show
    <3> QED
      BY <2>3, <3>1 DEF Recounts
  <2> QED
    BY <1>6, <2>4, <2>5, <2>6, <2>7, <2>8, <2>9
<1>7. CASE Export!Die
  <2>1. step' = "dead"
    BY <1>7 DEF Export!Die
  <2> QED
    BY <2>1 DEF ExportTold
<1> QED
  BY <1>1, <1>4, <1>5, <1>6, <1>7 DEF Export!Next

-----------------------------------------------------------------------------
(* So does the server.                                                       *)

(* It spells tags as they are. *)
AsIs == [l \in Labels |-> l]

(* Its lines, as the rows of the tables spell them. *)
LineAs(l) == [kind |-> l.kind, ctx |-> l.ctx, conf |-> ConfOf(l),
              what |-> IF l.kind = "dir" THEN DirOf(ConfOf(l)) ELSE LabelOf(l.ctx)]

AsText(ls) == [i \in DOMAIN ls |-> LineAs(ls[i])]

LinesAs == {LineAs(l) : l \in ServerLine}

LEMMA AsTextMore ==
  ASSUME NEW ls \in Seq(ServerLine), NEW l \in ServerLine
  PROVE  /\ AsText(ls) \in Seq(LinesAs) /\ LineAs(l) \in LinesAs
         /\ AsText(Append(ls, l)) = AsText(ls) \o <<LineAs(l)>>
<1>0. Len(ls) \in Nat /\ Append(ls, l) \in Seq(ServerLine)
  BY AppendProperties
<1>1. PICK n \in Nat, all \in Seq(ServerLine) : n = Len(ls) /\ all = Append(ls, l)
  BY ONLY <1>0, Zenon
<1>2. /\ DOMAIN ls = 1..n /\ DOMAIN all = 1..(n + 1) /\ all[n + 1] = l
      /\ \A i \in 1..n : all[i] = ls[i] /\ ls[i] \in ServerLine
  BY <1>1
<1>3. PICK new : new = LineAs(l)
  OBVIOUS
<1>4. new \in LinesAs /\ \A i \in 1..n : LineAs(ls[i]) \in LinesAs
  BY <1>2, <1>3 DEF LinesAs
<1>5. AsText(ls) = [i \in 1..n |-> LineAs(ls[i])]
  BY <1>2 DEF AsText
<1>6. PICK A \in Seq(LinesAs) : A = AsText(ls) /\ Len(A) = n /\ \A i \in 1..n : A[i] = LineAs(ls[i])
  <2>1. PICK A : A = AsText(ls)
    OBVIOUS
  <2>2. A \in [1..n -> LinesAs] /\ \A i \in 1..n : A[i] = LineAs(ls[i])
    BY <1>4, <1>5, <2>1
  <2>3. A \in Seq(LinesAs) /\ Len(A) = n
    BY ONLY <2>2, n \in Nat
  <2> QED
    BY <2>1, <2>2, <2>3
<1>7. PICK B : B = AsText(all)
  OBVIOUS
<1>8. B = [i \in 1..(n + 1) |-> LineAs(all[i])]
  BY <1>2, <1>7 DEF AsText
<1>9. \A i \in 1..(n + 1) : i \in 1..n \/ i = n + 1
  OBVIOUS
<1>10. PICK C : C = A \o << new >>
  OBVIOUS
<1>11. /\ C \in Seq(LinesAs) /\ Len(C) = n + 1 /\ C[n + 1] = new /\ \A i \in 1..n : C[i] = A[i]
  <2>1. << new >> \in Seq(LinesAs) /\ Len(<< new >>) = 1 /\ << new >>[1] = new
    BY <1>4
  <2>2. PICK one \in Seq(LinesAs) : one = << new >>
    BY ONLY <2>1, Zenon
  <2>3. /\ A \o one \in Seq(LinesAs) /\ Len(A \o one) = Len(A) + Len(one)
        /\ \A i \in 1..(Len(A) + Len(one)) :
             (A \o one)[i] = IF i <= Len(A) THEN A[i] ELSE one[i - Len(A)]
    BY ConcatProperties
  <2>4. /\ C \in Seq(LinesAs) /\ Len(C) = n + 1
        /\ \A i \in 1..(n + 1) : C[i] = IF i <= n THEN A[i] ELSE one[i - n]
    BY ONLY <1>6, <1>10, <2>1, <2>2, <2>3
  <2>5. n + 1 \in 1..(n + 1) /\ ~(n + 1 <= n) /\ n + 1 - n = 1
        /\ \A i \in 1..n : i \in 1..(n + 1) /\ i <= n
    OBVIOUS
  <2> QED
    BY ONLY <2>1, <2>2, <2>4, <2>5
<1>12. C = [i \in 1..(n + 1) |-> C[i]]
  BY <1>11
<1>13. \A i \in 1..(n + 1) : C[i] = LineAs(all[i])
  <2>1. C[n + 1] = LineAs(all[n + 1])
    BY <1>2, <1>3, <1>11
  <2>2. \A i \in 1..n : C[i] = LineAs(all[i])
    BY <1>2, <1>6, <1>11
  <2> QED
    BY ONLY <1>9, <2>1, <2>2
<1>14. B = C
  BY ONLY <1>8, <1>12, <1>13
<1> QED
  BY <1>1, <1>3, <1>4, <1>6, <1>7, <1>10, <1>14

(* The directives that the innermost activation has pushed, while it does. *)
Pushed(stk) ==
  LET n == Len(stk) IN
    IF n # 0 /\ stk[n].at = "push" THEN {<<stk[n].ctx, i>> : i \in MapsTo(stk[n].ctx) \ stk[n].dirs}
    ELSE {}

(* The k-th activation. *)
FrameRight(f, k) ==
  /\ f.at = "push" => f.dirs \subseteq MapsTo(f.ctx)
  /\ f.at # "row" => (f.tagged <=> k # 1)
  /\ \A x, y \in f.kids : x.id = y.id => x = y

FramesRight(stk) == \A k \in 1..Len(stk) : FrameRight(stk[k], k)

Reported(stk, ls, P, root) ==
  Tells(View(stk), Pushed(stk), AsText(ls), P, root) /\ FramesRight(stk)

Reports(P, root) == \E stk, ls : stk = stack' /\ ls = lines' /\ Reported(stk, ls, P, root)

LEMMA ReportedSame ==
  ASSUME UNCHANGED <<ctxTab, confTab, mapTab>>, NEW CONSTANT stk, NEW CONSTANT ls,
         NEW CONSTANT P, NEW CONSTANT root, Reported(stk, ls, P, root)
  PROVE  Reported(stk, ls, P, root)'
<1>1. \A c : MapsTo(c)' = MapsTo(c)
  BY DEF MapsTo
<1>2. PICK W, Y, t : W = View(stk) /\ Y = Pushed(stk) /\ t = AsText(ls)
  OBVIOUS
<1>3. W = View(stk)'
  BY <1>2 DEF View, FrameView
<1>4. Y = Pushed(stk)'
  BY <1>1, <1>2 DEF Pushed
<1>5. t = AsText(ls)'
  BY <1>2 DEF AsText, LineAs, ConfOf, DirOf, LabelOf
<1>6. Tells(W, Y, t, P, root)
  BY <1>2 DEF Reported
<1>7. Tells(W, Y, t, P, root)'
  BY <1>6, TellsSame
<1>8. FramesRight(stk)'
  BY <1>1 DEF Reported, FramesRight, FrameRight
<1> QED
  BY <1>3, <1>4, <1>5, <1>7, <1>8 DEF Reported

(* The innermost activation goes on. *)
FrameSteps(V, W, stk, n, frame) ==
  /\ V = View(stack) /\ stk = stack' /\ W = View(stk)
  /\ Len(V) = n /\ Len(W) = n /\ Len(stk) = n /\ stk[n] = frame
  /\ \A k \in 1..(n - 1) : W[k] = V[k] /\ stk[k] = stack[k]
  /\ V[n] = FrameView(stack[n]) /\ W[n] = FrameView(frame) /\ W[n].id = V[n].id

LEMMA FrameMoved ==
  ASSUME Reads, NEW n \in Nat \ {0}, n = Len(stack), NEW frame, Server!SetTop(frame),
         frame.ctx = stack[n].ctx
  PROVE  \E V, W, stk : FrameSteps(V, W, stk, n, frame)
<1>1. PICK stk, old2, V, W : stk = stack' /\ old2 = stack /\ V = View(old2) /\ W = View(stk)
  OBVIOUS
<1>2. /\ Len(stk) = n /\ stk[n] = frame /\ \A k \in 1..(n - 1) : stk[k] = old2[k]
      /\ Len(old2) = n
  BY <1>1, FrameSet
<1>3. /\ Len(V) = n /\ \A k \in 1..n : V[k] = FrameView(old2[k])
      /\ Len(W) = n /\ \A k \in 1..n : W[k] = FrameView(stk[k])
  BY <1>1, <1>2, ViewOf
<1>4. \A k \in 1..(n - 1) : k \in 1..n
  OBVIOUS
<1>5. \A k \in 1..(n - 1) : W[k] = V[k]
  BY <1>2, <1>3, <1>4
<1>6. n \in 1..n
  OBVIOUS
<1>7. V[n] = FrameView(stack[n]) /\ W[n] = FrameView(frame)
  BY <1>1, <1>2, <1>3, <1>6
<1>8. W[n].id = V[n].id
  BY <1>7 DEF FrameView
<1> QED
  BY <1>1, <1>2, <1>3, <1>5, <1>7, <1>8 DEF FrameSteps

LEMMA FramesRightStill ==
  ASSUME NEW n \in Nat \ {0}, n = Len(stack), FramesRight(stack),
         NEW V, NEW W, NEW stk, NEW frame, FrameSteps(V, W, stk, n, frame), FrameRight(frame, n)
  PROVE  FramesRight(stk)
<1>1. \A k \in 1..n : k = n \/ k \in 1..(n - 1)
  OBVIOUS
<1> QED
  BY <1>1 DEF FrameSteps, FramesRight

LEMMA ReportBegins ==
  ASSUME Typed, Finite, Numbered, NEW P, NEW T, NEW root, Routed(P, T, AsIs, root),
         stack = <<>>, lines = <<>>, Server!SelectRoot
  PROVE  Reports(P, root)
<1>0. root \in RootsOf(ctxTab) /\ Paths(P, T, AsIs)
  BY DEF Routed
<1>1. PICK seen \in {"intact"}, id \in Server!RootIds \union {ZeroId} :
        /\ id = ZeroId <=> Server!RootRows = {}
        /\ \/ /\ seen = "intact" => Server!Cardinality(Server!RootRows) = 1
              /\ stack' = <<Server!NewFrame(id)>>
           \/ /\ seen = "intact" => Server!Cardinality(Server!RootRows) # 1
              /\ stack' = stack
  BY DEF Server!SelectRoot
<1>2. PICK stk, ls : stk = stack' /\ ls = lines'
  OBVIOUS
<1>3. ls = <<>>
  BY <1>2 DEF Server!SelectRoot
<1>4. Cardinality(RootsOf(ctxTab)) = 1
  BY FS_Singleton DEF Routed
<1>5. Server!RootIds = {root.id}
  <2>1. PICK r \in RootsOf(ctxTab) : Server!RootIds = {r.id}
    BY <1>4, ServerRoots
  <2> QED
    BY <2>1 DEF Routed
<1>6. stk = <<Server!NewFrame(id)>>
  BY <1>1, <1>2, <1>4, ServerRoots
<1>7. id = root.id
  <2>1. Server!RootRows # {}
    BY <1>5 DEF Server!RootIds
  <2> QED
    BY <1>1, <1>5, <2>1
<1>8. Len(stk) = 1 /\ stk[1].ctx = id /\ stk[1].at = "row" /\ stk[1].kids = {}
  BY <1>6 DEF Server!NewFrame
<1>9. PICK W : W = View(stk)
  OBVIOUS
<1>10. Len(W) = 1 /\ W[1] = FrameView(stk[1])
  BY <1>8, <1>9, ViewOf
<1>11. W[1].id = root.id /\ W[1].at = "row" /\ W[1].subs = {}
  BY <1>7, <1>8, <1>10 DEF FrameView
<1>12. Tells(W, {}, <<>>, P, root)
  BY <1>0, <1>10, <1>11, TellsBegun
<1>13. Pushed(stk) = {} /\ FramesRight(stk)
  BY <1>8 DEF Pushed, FramesRight, FrameRight
<1>14. AsText(ls) = <<>>
  BY <1>3 DEF AsText
<1> QED
  BY <1>2, <1>9, <1>12, <1>13, <1>14 DEF Reports, Reported

(* What the server finds of a context that has a row. *)
LEMMA RowFound ==
  ASSUME Typed, Numbered, NEW r \in ctxTab, r.id # Null
  PROVE  Server!RowsOf(Server!Now, r.id) # {}
<1>1. r.id \in Ids
  BY DEF Typed, TypeOK, CtxRow, Ids, Null
<1>2. PICK x \in AsTable.ctxs : r.id = x.id
  BY ServerSees
<1>3. Server!Now = AsTable
  BY ServerSees
<1> QED
  BY <1>1, <1>2, <1>3 DEF Server!RowsOf

LEMMA KidsOnce ==
  ASSUME Numbered, NEW id
  PROVE  \A x, y \in Server!KidsOf(Server!Now, id) : x.id = y.id => x = y
<1> DEFINE seen(r) == [id |-> r.id, parent |-> r.parent, key |-> "named",
                       val |-> IF r.label = Default THEN "null" ELSE "text"]
<1>1. Server!Now.ctxs = {seen(r) : r \in ctxTab}
  BY DEF Server!Now, AsTable
<1>2. \A r \in ctxTab : seen(r).id = r.id
  OBVIOUS
<1> HIDE DEF seen
<1>3. \A x, y \in Server!Now.ctxs : x.id = y.id => x = y
  BY <1>1, <1>2 DEF Numbered
<1> QED
  BY <1>3 DEF Server!KidsOf

(* The call of the innermost activation. *)
LEMMA FramePath ==
  ASSUME Typed, Numbered, Reads, NEW P, NEW T, NEW sh, NEW root, Routed(P, T, sh, root),
         NEW n \in Nat \ {0}, n = Len(stack), NEW ls, Reported(stack, ls, P, root)
  PROVE  stack[n].ctx # Null /\ \E r \in ctxTab : r.id = stack[n].ctx
<1>0. root \in RootsOf(ctxTab) /\ Paths(P, T, sh)
  BY DEF Routed
<1>1. PICK V : V = View(stack)
  OBVIOUS
<1>2. PICK D : Visit(V, D, root)
  BY <1>1 DEF Reported, Tells
<1>3. Len(V) = n /\ V[n] = FrameView(stack[n]) /\ n \in 1..Len(V)
  BY <1>1, ViewOf
<1>4. CallPath(P, V, n, root, sh)
  BY <1>0, <1>2, <1>3, PathOfCall
<1> QED
  BY <1>3, <1>4 DEF CallPath, FrameView

LEMMA NoKids ==
  ASSUME Reads, NEW P, NEW root, NEW n \in Nat \ {0}, n = Len(stack), NEW ls,
         Reported(stack, ls, P, root), stack[n].at # "loop"
  PROVE  stack[n].kids = {}
<1>1. PICK V, Y, t : V = View(stack) /\ Y = Pushed(stack) /\ t = AsText(ls)
  OBVIOUS
<1>2. Tells(V, Y, t, P, root)
  BY <1>1 DEF Reported
<1>3. Len(V) = n /\ V[n] = FrameView(stack[n]) /\ n \in 1..Len(V)
  BY <1>1, ViewOf
<1>4. V[n].at # "loop"
  BY <1>3 DEF FrameView
<1>5. V[n].subs = {}
  BY <1>2, <1>3, <1>4, NothingBelow
<1>6. {y.id : y \in stack[n].kids} = {}
  <2>1. FrameView(stack[n]).subs = {y.id : y \in stack[n].kids}
    BY DEF FrameView
  <2> QED
    BY ONLY <1>3, <1>5, <2>1
<1>7. \A y \in stack[n].kids : FALSE
  BY ONLY <1>6
<1> QED
  BY <1>7

(* Before the loop over its sub-contexts. *)
LEMMA FrameOnward ==
  ASSUME NEW V, NEW W, NEW stk, NEW n \in Nat \ {0}, NEW frame, FrameSteps(V, W, stk, n, frame),
         frame.kids = {}, frame.at \in Everywhere \ {"loop"}, stack[n].at \in Everywhere \ {"loop"}
  PROVE  Onward(V, W, n) /\ V[n].at = stack[n].at /\ W[n].at = frame.at /\ V[n].id = stack[n].ctx
  BY DEF FrameSteps, Onward, FrameView

LEMMA ReportRow ==
  ASSUME Typed, Numbered, Reads, lines \in Seq(ServerLine),
         NEW P, NEW T, NEW root, Routed(P, T, AsIs, root), Reported(stack, lines, P, root),
         Server!ReadRow \/ Server!RowVanished
  PROVE  Reports(P, root)
<1>0. root \in RootsOf(ctxTab) /\ Paths(P, T, AsIs)
  BY DEF Routed
<1>1. stack # <<>>
  BY DEF Server!ReadRow, Server!RowVanished, Server!In
<1>2. PICK n \in Nat \ {0} : /\ n = Len(stack) /\ n \in 1..n /\ Server!Top = stack[n]
                             /\ stack[n] \in ServerFrame
  BY <1>1, StackTop
<1>3. PICK id \in Nat : id = stack[n].ctx
  BY <1>2 DEF ServerFrame
<1>4. PICK q \in ctxTab : q.id = id /\ id # Null
  BY <1>2, <1>3, FramePath
<1>5. Server!ReadRow
  <2>1. Server!RowsOf(Server!Now, Server!Top.ctx) # {}
    BY <1>2, <1>3, <1>4, RowFound
  <2> QED
    BY <2>1 DEF Server!RowVanished
<1>6. stack[n].at = "row"
  BY <1>2, <1>5 DEF Server!ReadRow, Server!In
<1>7. PICK r \in Server!Now.ctxs :
              /\ lines' = IF Server!IsTagged(r) THEN Append(lines, Server!OpenTag(id)) ELSE lines
              /\ Server!SetTop([stack[n] EXCEPT !.at = "conf", !.tagged = Server!IsTagged(r)])
  BY <1>2, <1>3, <1>5 DEF Server!ReadRow, Server!RowsOf
<1>8. Server!IsTagged(r) <=> n # 1
  <2>1. r.key = "named"
    BY DEF Server!Now, AsTable
  <2> QED
    BY <1>2, <2>1 DEF Server!IsTagged, Server!IsNamed
<1>9. PICK frame : frame = [stack[n] EXCEPT !.at = "conf", !.tagged = Server!IsTagged(r)]
  OBVIOUS
<1>10. /\ Server!SetTop(frame) /\ frame.ctx = stack[n].ctx /\ frame.at = "conf"
       /\ frame.kids = stack[n].kids /\ (frame.tagged <=> n # 1)
  BY <1>2, <1>7, <1>8, <1>9 DEF ServerFrame
<1>11. stack[n].kids = {}
  BY <1>2, <1>6, NoKids
<1>12. PICK V, W, stk : FrameSteps(V, W, stk, n, frame)
  BY <1>2, <1>10, FrameMoved
<1>13. Onward(V, W, n) /\ V[n].at = "row" /\ W[n].at = "conf" /\ V[n].id = id
  <2>1. frame.kids = {} /\ frame.at \in Everywhere \ {"loop"} /\ stack[n].at \in Everywhere \ {"loop"}
    BY <1>6, <1>10, <1>11 DEF Everywhere
  <2> QED
    BY <1>3, <1>6, <1>10, <1>12, <2>1, FrameOnward
<1>14. PICK ls, more, tag : ls = AsText(lines) /\ more = AsText(lines') /\ tag = LabelOf(id)
  OBVIOUS
<1>15. ls \in Seq(LinesAs) /\ TagOf(LinesAs, ls, more, n, "open", tag)
  <2>0. /\ Server!OpenTag(id) \in ServerLine /\ Server!OpenTag(id).kind = "open"
        /\ Server!OpenTag(id).ctx = id
    BY DEF Server!OpenTag, ServerLine, Null
  <2>1. PICK l \in ServerLine : l = Server!OpenTag(id) /\ l.kind = "open" /\ l.ctx = id
    BY <2>0
  <2>2. /\ AsText(lines) \in Seq(LinesAs) /\ LineAs(l) \in LinesAs
        /\ AsText(Append(lines, l)) = AsText(lines) \o <<LineAs(l)>>
    BY <2>1, AsTextMore
  <2>3. LineAs(l).kind = "open" /\ LineAs(l).what = tag
    BY <1>14, <2>1 DEF LineAs
  <2>4. CASE n = 1
    BY <1>7, <1>8, <1>14, <2>2, <2>4 DEF TagOf
  <2>5. CASE n # 1
    <3>1. lines' = Append(lines, l)
      BY <1>7, <1>8, <2>1, <2>5
    <3> QED
      BY <1>14, <2>2, <2>3, <2>5, <3>1 DEF TagOf
  <2> QED
    BY <2>4, <2>5
<1>16. \A s \in ctxTab : s.id = V[n].id => tag = AsIs[s.label]
  <2> SUFFICES ASSUME NEW s \in ctxTab, s.id = id PROVE tag = AsIs[s.label]
    BY <1>13
  <2>1. tag = (CHOOSE x \in ctxTab : x.id = id).label
    BY <1>14 DEF LabelOf
  <2>2. PICK x \in ctxTab : x = (CHOOSE y \in ctxTab : y.id = id) /\ x.id = id
    OBVIOUS
  <2>3. x = s
    BY <2>2 DEF Numbered
  <2>4. AsIs[s.label] = s.label
    <3>1. s.label \in Labels
      BY DEF Typed, TypeOK, CtxRow, Labels
    <3> QED
      BY <3>1 DEF AsIs
  <2>5. tag = x.label
    BY <2>1, <2>2
  <2> QED
    BY <2>3, <2>4, <2>5
<1>17. Pushed(stack) = {} /\ Pushed(stk) = {}
  <2>1. stk[Len(stk)].at = "conf" /\ stack[Len(stack)].at = "row"
    BY <1>2, <1>6, <1>10, <1>12 DEF FrameSteps
  <2> QED
    BY <2>1 DEF Pushed
<1>18. Tells(V, {}, ls, P, root) /\ FramesRight(stack)
  BY <1>12, <1>14, <1>17 DEF Reported, FrameSteps
<1>19. W[n].at \in {"dirs", "conf"}
  BY <1>13
<1>20. Tells(W, {}, more, P, root)
  BY <1>0, <1>13, <1>15, <1>16, <1>18, <1>19, TellsRow
<1>21. FrameRight(frame, n)
  BY <1>10, <1>11 DEF FrameRight
<1>22. FramesRight(stk)
  BY <1>2, <1>12, <1>18, <1>21, FramesRightStill
<1> QED
  BY <1>12, <1>14, <1>17, <1>20, <1>22 DEF Reports, Reported, FrameSteps

LEMMA ReportConf ==
  ASSUME Typed, Numbered, Reads, NEW P, NEW T, NEW root, Routed(P, T, AsIs, root),
         Reported(stack, lines, P, root), Server!SelectConf
  PROVE  Reports(P, root)
<1>1. stack # <<>> /\ lines' = lines
  BY DEF Server!SelectConf, Server!In
<1>2. PICK n \in Nat \ {0} : /\ n = Len(stack) /\ n \in 1..n /\ Server!Top = stack[n]
                             /\ stack[n] \in ServerFrame
  BY <1>1, StackTop
<1>3. PICK id, dirs : id = stack[n].ctx /\ dirs = Server!DirsOf(Server!Now, id)
  OBVIOUS
<1>4. PICK frame : frame = [stack[n] EXCEPT !.at = "push", !.dirs = dirs]
  OBVIOUS
<1>5. /\ Server!SetTop(frame) /\ frame.ctx = stack[n].ctx /\ frame.at = "push"
      /\ frame.kids = stack[n].kids /\ frame.dirs = dirs /\ frame.tagged = stack[n].tagged
      /\ stack[n].at = "conf"
  BY <1>2, <1>3, <1>4 DEF Server!SelectConf, Server!In, ServerFrame
<1>6. dirs = MapsTo(id)
  <2>1. Server!Now = AsTable
    BY ServerSees
  <2> QED
    BY <1>3, <2>1, ServerMaps
<1>7. stack[n].kids = {}
  BY <1>2, <1>5, NoKids
<1>8. PICK V, W, stk : FrameSteps(V, W, stk, n, frame)
  BY <1>2, <1>5, FrameMoved
<1>9. Onward(V, W, n) /\ V[n].at = "conf" /\ W[n].at = "push"
  <2>1. frame.kids = {} /\ frame.at \in Everywhere \ {"loop"} /\ stack[n].at \in Everywhere \ {"loop"}
    BY <1>5, <1>7 DEF Everywhere
  <2> QED
    BY <1>5, <1>8, <2>1, FrameOnward
<1>10. Pushed(stack) = {} /\ Pushed(stk) = {}
  <2>1. stack[Len(stack)].at = "conf"
    BY <1>2, <1>5
  <2>2. stk[Len(stk)].ctx = id /\ stk[Len(stk)].dirs = MapsTo(id)
    BY <1>3, <1>5, <1>6, <1>8 DEF FrameSteps
  <2> QED
    BY <2>1, <2>2 DEF Pushed
<1>11. PICK ls : ls = AsText(lines)
  OBVIOUS
<1>12. Tells(V, {}, ls, P, root) /\ FramesRight(stack)
  BY <1>8, <1>10, <1>11 DEF Reported, FrameSteps
<1>13. V[n].at \in {"dirs", "conf", "push"} /\ W[n].at \in {"dirs", "conf", "push"}
  BY <1>9
<1>14. Tells(W, {}, ls, P, root)
  BY <1>9, <1>12, <1>13, TellsStill
<1>15. FrameRight(frame, n)
  <2>1. FrameRight(stack[n], n)
    BY <1>2, <1>12 DEF FramesRight
  <2> QED
    BY <1>3, <1>5, <1>6, <1>7, <2>1 DEF FrameRight
<1>16. FramesRight(stk)
  BY <1>2, <1>8, <1>12, <1>15, FramesRightStill
<1> QED
  BY <1>1, <1>8, <1>10, <1>11, <1>14, <1>16 DEF Reports, Reported, FrameSteps

LEMMA ReportPush ==
  ASSUME Typed, Numbered, Reads, lines \in Seq(ServerLine),
         NEW P, NEW T, NEW root, Routed(P, T, AsIs, root), Reported(stack, lines, P, root),
         Server!PushDirective
  PROVE  Reports(P, root)
<1>1. stack # <<>>
  BY DEF Server!PushDirective, Server!In
<1>2. PICK n \in Nat \ {0} : /\ n = Len(stack) /\ n \in 1..n /\ Server!Top = stack[n]
                             /\ stack[n] \in ServerFrame
  BY <1>1, StackTop
<1>3. PICK d \in stack[n].dirs :
        /\ lines' = Append(lines, Server!DirLine(stack[n].ctx, d))
        /\ Server!SetTop([stack[n] EXCEPT !.dirs = @ \ {d}])
  BY <1>2 DEF Server!PushDirective
<1>4. stack[n].at = "push" /\ stack[n].ctx \in Nat /\ d \in Nat
  BY <1>2, <1>3 DEF Server!PushDirective, Server!In, ServerFrame
<1>5. PICK id : id = stack[n].ctx
  OBVIOUS
<1>6. PICK frame : frame = [stack[n] EXCEPT !.dirs = @ \ {d}]
  OBVIOUS
<1>7. /\ Server!SetTop(frame) /\ frame.ctx = stack[n].ctx /\ frame.at = "push"
      /\ frame.kids = stack[n].kids /\ frame.dirs = stack[n].dirs \ {d}
      /\ frame.tagged = stack[n].tagged
  BY <1>2, <1>3, <1>4, <1>6 DEF ServerFrame
<1>8. PICK l \in ServerLine : /\ l = Server!DirLine(id, d) /\ l.kind = "dir" /\ l.ctx = id
                              /\ l.dir = d
  <2>1. /\ Server!DirLine(id, d) \in ServerLine /\ Server!DirLine(id, d).kind = "dir"
        /\ Server!DirLine(id, d).ctx = id /\ Server!DirLine(id, d).dir = d
    BY <1>4, <1>5 DEF Server!DirLine, ServerLine
  <2> QED
    BY <2>1
<1>9. FramesRight(stack) /\ FrameRight(stack[n], n)
  BY <1>2 DEF Reported, FramesRight
<1>10. d \in MapsTo(id) /\ stack[n].dirs \subseteq MapsTo(id) /\ d # 0
  <2>1. d \in MapsTo(id) /\ stack[n].dirs \subseteq MapsTo(id)
    BY <1>4, <1>5, <1>9 DEF FrameRight
  <2>2. d # 0
    BY <2>1 DEF MapsTo, Typed, TypeOK
  <2> QED
    BY <2>1, <2>2
<1>11. stack[n].kids = {}
  BY <1>2, <1>4, NoKids
<1>12. PICK V, W, stk : FrameSteps(V, W, stk, n, frame)
  BY <1>2, <1>7, FrameMoved
<1>13. Onward(V, W, n) /\ V[n].at = "push" /\ W[n].at = "push" /\ V[n].id = id
  <2>1. frame.kids = {} /\ frame.at \in Everywhere \ {"loop"} /\ stack[n].at \in Everywhere \ {"loop"}
    BY <1>4, <1>7, <1>11 DEF Everywhere
  <2> QED
    BY <1>4, <1>5, <1>7, <1>12, <2>1, FrameOnward
<1>14. PICK ls, new, Y, Z, u :
         /\ ls = AsText(lines) /\ new = <<LineAs(l)>> /\ Y = Pushed(stack) /\ u = <<id, d>>
         /\ Z = {u}
  OBVIOUS
<1>15. ls \in Seq(LinesAs) /\ new \in Seq(LinesAs) /\ Len(new) = 1 /\ new[1] = LineAs(l)
       /\ AsText(lines') = ls \o new
  <2>1. /\ AsText(lines) \in Seq(LinesAs) /\ LineAs(l) \in LinesAs
        /\ AsText(Append(lines, l)) = AsText(lines) \o <<LineAs(l)>>
    BY AsTextMore
  <2>2. lines' = Append(lines, l)
    BY <1>3, <1>5, <1>8
  <2> QED
    BY <1>14, <2>1, <2>2
<1>16. new[1].kind = "dir" /\ new[1].what = DirOf(mapTab[d].conf)
  BY <1>8, <1>15 DEF LineAs, ConfOf
<1>17. AllDirs(new)
  BY <1>15, <1>16 DEF AllDirs
<1>18. Y = {<<id, i>> : i \in MapsTo(id) \ stack[n].dirs}
  <2>1. Len(stack) # 0 /\ stack[Len(stack)].at = "push"
    BY <1>2, <1>4
  <2> QED
    BY <1>2, <1>5, <1>14, <2>1 DEF Pushed
<1>19. Pushed(stk) = {<<id, i>> : i \in MapsTo(id) \ (stack[n].dirs \ {d})}
  <2>1. Len(stk) = n /\ stk[n] = frame /\ n # 0
    BY <1>12 DEF FrameSteps
  <2> QED
    BY <1>5, <1>7, <2>1 DEF Pushed
<1>20. Pushed(stk) = Y \union Z
  <2>1. MapsTo(id) \ (stack[n].dirs \ {d}) = (MapsTo(id) \ stack[n].dirs) \union {d}
    BY <1>10
  <2> QED
    BY <1>14, <1>18, <1>19, <2>1
<1>21. Y \intersect Z = {} /\ Z \subseteq DirUnits(id)
  BY <1>3, <1>10, <1>14, <1>18 DEF DirUnits
<1> DEFINE b == [j \in 1..1 |-> u]
<1>22. OneToOne(b, 1..1, Z) /\ b[1] = u
  BY <1>14 DEF OneToOne
<1> HIDE DEF b
<1>23. DirsToldAs(P, b, id, new)
  <2>1. Told(P, u) = <<P[id], "dir", DirOf(mapTab[d].conf)>>
    BY <1>10, <1>14 DEF Told
  <2> QED
    BY <1>15, <1>16, <1>22, <2>1 DEF DirsToldAs
<1>24. Tells(V, Y, ls, P, root) /\ Len(V) = n
  BY <1>12, <1>14 DEF Reported, FrameSteps
<1>25. Tells(V, Y \union Z, ls \o new, P, root)
  <2>1. PICK m \in Nat : m = 1
    OBVIOUS
  <2>2. /\ m = Len(new) /\ OneToOne(b, 1..m, Z) /\ DirsToldAs(P, b, V[n].id, new)
        /\ Z \subseteq DirUnits(V[n].id) /\ V[n].at \in {"dirs", "conf", "push"}
    BY <1>13, <1>15, <1>21, <1>22, <1>23, <2>1
  <2> QED
    BY <1>15, <1>17, <1>21, <1>24, <2>2, TellsDirs
<1>26. PICK X, more : X = Y \union Z /\ more = ls \o new
  OBVIOUS
<1>27. Tells(W, X, more, P, root)
  <2>1. /\ V[n].at \in {"dirs", "conf", "push"} /\ W[n].at \in {"dirs", "conf", "push"}
        /\ Tells(V, X, more, P, root)
    BY <1>13, <1>25, <1>26
  <2> QED
    BY <1>13, <2>1, TellsStill
<1>28. FrameRight(frame, n)
  <2>1. frame.at = "push" /\ frame.dirs \subseteq MapsTo(frame.ctx)
    BY <1>5, <1>7, <1>10
  <2>2. frame.tagged <=> n # 1
    BY <1>4, <1>7, <1>9 DEF FrameRight
  <2>3. frame.kids = {}
    BY <1>7, <1>11
  <2> QED
    BY <2>1, <2>2, <2>3 DEF FrameRight
<1>29. FramesRight(stk)
  BY <1>2, <1>9, <1>12, <1>28, FramesRightStill
<1> QED
  BY <1>12, <1>15, <1>20, <1>26, <1>27, <1>29 DEF Reports, Reported, FrameSteps

LEMMA ReportPushed ==
  ASSUME Typed, Numbered, Reads, NEW P, NEW T, NEW root, Routed(P, T, AsIs, root),
         Reported(stack, lines, P, root), Server!DirectivesDone
  PROVE  Reports(P, root)
<1>1. stack # <<>> /\ lines' = lines
  BY DEF Server!DirectivesDone, Server!In
<1>2. PICK n \in Nat \ {0} : /\ n = Len(stack) /\ n \in 1..n /\ Server!Top = stack[n]
                             /\ stack[n] \in ServerFrame
  BY <1>1, StackTop
<1>3. stack[n].at = "push" /\ stack[n].dirs = {}
  BY <1>2 DEF Server!DirectivesDone, Server!In
<1>4. PICK frame : frame = [stack[n] EXCEPT !.at = "ctxs"]
  OBVIOUS
<1>5. /\ Server!SetTop(frame) /\ frame.ctx = stack[n].ctx /\ frame.at = "ctxs"
      /\ frame.kids = stack[n].kids /\ frame.tagged = stack[n].tagged
  BY <1>2, <1>4 DEF Server!DirectivesDone, ServerFrame
<1>6. stack[n].kids = {}
  BY <1>2, <1>3, NoKids
<1>7. PICK V, W, stk : FrameSteps(V, W, stk, n, frame)
  BY <1>2, <1>5, FrameMoved
<1>8. Onward(V, W, n) /\ V[n].at = "push" /\ W[n].at = "ctxs" /\ V[n].id = stack[n].ctx
  <2>1. frame.kids = {} /\ frame.at \in Everywhere \ {"loop"} /\ stack[n].at \in Everywhere \ {"loop"}
    BY <1>3, <1>5, <1>6 DEF Everywhere
  <2> QED
    BY <1>3, <1>5, <1>7, <2>1, FrameOnward
<1>9. PICK ls, Y : ls = AsText(lines) /\ Y = Pushed(stack)
  OBVIOUS
<1>10. Y = DirUnits(V[n].id)
  <2>1. Len(stack) # 0 /\ stack[Len(stack)].at = "push"
    BY <1>2, <1>3
  <2>2. MapsTo(stack[n].ctx) \ stack[n].dirs = MapsTo(stack[n].ctx)
    BY <1>3
  <2> QED
    BY <1>2, <1>8, <1>9, <2>1, <2>2 DEF Pushed, DirUnits
<1>11. Pushed(stk) = {}
  BY <1>5, <1>7 DEF Pushed, FrameSteps
<1>12. Tells(V, Y, ls, P, root) /\ FramesRight(stack) /\ V[n].at \in {"dirs", "push"}
  BY <1>7, <1>8, <1>9 DEF Reported, FrameSteps
<1>13. Tells(W, {}, ls, P, root)
  BY <1>8, <1>10, <1>12, TellsMapped
<1>14. FrameRight(frame, n)
  <2>1. FrameRight(stack[n], n)
    BY <1>2, <1>12 DEF FramesRight
  <2> QED
    BY <1>3, <1>5, <2>1 DEF FrameRight
<1>15. FramesRight(stk)
  BY <1>2, <1>7, <1>12, <1>14, FramesRightStill
<1> QED
  BY <1>1, <1>7, <1>9, <1>11, <1>13, <1>15 DEF Reports, Reported, FrameSteps

LEMMA ReportCtxs ==
  ASSUME Typed, Numbered, Reads, NEW lab, NEW dir, Remembered(lab, dir),
         NEW P, NEW T, NEW root, Routed(P, T, AsIs, root),
         Reported(stack, lines, P, root), Server!SelectCtxs
  PROVE  Reports(P, root)
<1>1. stack # <<>> /\ lines' = lines
  BY DEF Server!SelectCtxs, Server!In
<1>2. PICK n \in Nat \ {0} : /\ n = Len(stack) /\ n \in 1..n /\ Server!Top = stack[n]
                             /\ stack[n] \in ServerFrame
  BY <1>1, StackTop
<1>3. PICK id, kids : id = stack[n].ctx /\ kids = Server!KidsOf(Server!Now, id)
  OBVIOUS
<1>4. PICK frame : frame = [stack[n] EXCEPT !.at = "loop", !.kids = kids]
  OBVIOUS
<1>5. /\ Server!SetTop(frame) /\ frame.ctx = stack[n].ctx /\ frame.at = "loop"
      /\ frame.kids = kids /\ stack[n].at = "ctxs" /\ frame.tagged = stack[n].tagged
  BY <1>2, <1>3, <1>4 DEF Server!SelectCtxs, Server!In, ServerFrame
<1>6. PICK V, W, stk : FrameSteps(V, W, stk, n, frame)
  BY <1>2, <1>5, FrameMoved
<1>7. /\ Len(V) = n /\ Len(W) = n /\ \A k \in 1..(n - 1) : W[k] = V[k]
      /\ W[n].id = V[n].id /\ V[n].at = "ctxs" /\ W[n].at = "loop" /\ V[n].id = id
  BY <1>3, <1>5, <1>6 DEF FrameSteps, FrameView
<1>8. W[n].subs = Under(V[n].id)
  <2>1. {y.id : y \in kids} = Under(id)
    BY <1>3, ServerRows
  <2>2. FrameView(frame).subs = {y.id : y \in frame.kids}
    BY DEF FrameView
  <2>3. W[n] = FrameView(frame)
    BY <1>6 DEF FrameSteps
  <2> QED
    BY <1>5, <1>7, <2>1, <2>2, <2>3
<1>9. PICK ls : ls = AsText(lines)
  OBVIOUS
<1>10. Pushed(stack) = {} /\ Pushed(stk) = {}
  <2>1. stack[Len(stack)].at = "ctxs"
    BY <1>2, <1>5
  <2> QED
    BY <1>5, <1>6, <2>1 DEF Pushed, FrameSteps
<1>11. Tells(V, {}, ls, P, root) /\ FramesRight(stack)
  BY <1>6, <1>9, <1>10 DEF Reported, FrameSteps
<1>12. Tells(W, {}, ls, P, root)
  BY <1>7, <1>8, <1>11, TellsAsked
<1>13. FrameRight(frame, n)
  <2>1. FrameRight(stack[n], n)
    BY <1>2, <1>11 DEF FramesRight
  <2>2. \A x, y \in kids : x.id = y.id => x = y
    BY <1>3, KidsOnce
  <2> QED
    BY <1>5, <2>1, <2>2 DEF FrameRight
<1>14. FramesRight(stk)
  BY <1>2, <1>6, <1>11, <1>13, FramesRightStill
<1> QED
  BY <1>1, <1>6, <1>9, <1>10, <1>12, <1>14 DEF Reports, Reported, FrameSteps

LEMMA ReportEnters ==
  ASSUME Typed, Numbered, Reads, NEW P, NEW T, NEW root, Routed(P, T, AsIs, root),
         Reported(stack, lines, P, root), Server!EnterCtx
  PROVE  Reports(P, root)
<1>0. root \in RootsOf(ctxTab) /\ Paths(P, T, AsIs)
  BY DEF Routed
<1>1. stack # <<>> /\ lines' = lines
  BY DEF Server!EnterCtx, Server!In
<1>2. PICK n \in Nat \ {0} : /\ n = Len(stack) /\ n \in 1..n /\ Server!Top = stack[n]
                             /\ stack[n] \in ServerFrame
  BY <1>1, StackTop
<1>3. PICK y \in stack[n].kids :
        stack' = Append(Server!WithTop([stack[n] EXCEPT !.kids = @ \ {y}]), Server!NewFrame(y.id))
  BY <1>2 DEF Server!EnterCtx
<1>4. PICK top, new : top = [stack[n] EXCEPT !.kids = @ \ {y}] /\ new = Server!NewFrame(y.id)
  OBVIOUS
<1>5. /\ top \in ServerFrame /\ top.ctx = stack[n].ctx /\ top.at = "loop" /\ stack[n].at = "loop"
      /\ top.kids = stack[n].kids \ {y} /\ top.tagged = stack[n].tagged
  BY <1>2, <1>4 DEF ServerFrame, Server!EnterCtx, Server!In
<1>6. new \in ServerFrame /\ new.ctx = y.id /\ new.at = "row" /\ new.kids = {}
  <2>1. y.id \in Nat
    BY <1>2, <1>3 DEF ServerFrame, TableRow
  <2> QED
    BY <1>4, <2>1 DEF Server!NewFrame, ServerFrame
<1>7. PICK old2, stk : old2 = stack /\ stk = stack'
  OBVIOUS
<1>8. /\ Len(old2) = n /\ Len(stk) = n + 1 /\ stk[n + 1] = new /\ stk[n] = top
      /\ \A i \in 1..(n - 1) : stk[i] = old2[i]
  <2>1. stack' = Append([stack EXCEPT ![n] = top], new)
    BY <1>2, <1>3, <1>4 DEF Server!WithTop
  <2>2. /\ stack' \in Seq(ServerFrame) /\ Len(stack') = n + 1 /\ stack'[n + 1] = new
        /\ stack'[n] = top
        /\ \A i \in 1..(n - 1) : stack'[i] = stack[i]
    BY <1>1, <1>2, <1>5, <1>6, <2>1, LastReplacedAndAdded DEF Reads
  <2> QED
    BY <1>2, <1>7, <2>2
<1>9. PICK V, W, ls : V = View(old2) /\ W = View(stk) /\ ls = AsText(lines)
  OBVIOUS
<1>10. Len(V) = n /\ \A k \in 1..n : V[k] = FrameView(old2[k])
  BY <1>8, <1>9, ViewOf
<1>11. Len(W) = n + 1 /\ \A k \in 1..(n + 1) : W[k] = FrameView(stk[k])
  BY <1>8, <1>9, ViewOf
<1>12. n + 1 \in 1..(n + 1) /\ n \in 1..(n + 1) /\ \A k \in 1..(n - 1) : k \in 1..n /\ k \in 1..(n + 1)
  OBVIOUS
<1>13. \A k \in 1..(n - 1) : W[k] = V[k]
  BY <1>8, <1>10, <1>11, <1>12
<1>14. W[n] = FrameView(top) /\ W[n + 1] = FrameView(new) /\ V[n] = FrameView(stack[n])
  BY <1>2, <1>7, <1>8, <1>10, <1>11, <1>12
<1>15. Pushed(old2) = {} /\ Pushed(stk) = {}
  <2>1. old2[Len(old2)].at = "loop" /\ stk[Len(stk)].at = "row"
    BY <1>2, <1>5, <1>6, <1>7, <1>8
  <2> QED
    BY <2>1 DEF Pushed
<1>16. Tells(V, {}, ls, P, root) /\ FramesRight(old2)
  BY <1>7, <1>9, <1>15 DEF Reported
<1>17. \A x, z \in stack[n].kids : x.id = z.id => x = z
  BY <1>2, <1>7, <1>8, <1>16 DEF FramesRight, FrameRight
<1>18. PICK s : s = y.id
  OBVIOUS
<1>19. s \in V[n].subs /\ W[n].subs = V[n].subs \ {s}
  <2>1. FrameView(stack[n]).subs = {x.id : x \in stack[n].kids}
    BY DEF FrameView
  <2>2. FrameView(top).subs = {x.id : x \in top.kids}
    BY DEF FrameView
  <2>3. {x.id : x \in stack[n].kids \ {y}} = {x.id : x \in stack[n].kids} \ {y.id}
    BY <1>3, <1>17
  <2>4. top.kids = stack[n].kids \ {y}
    BY <1>5
  <2> QED
    BY ONLY <1>3, <1>14, <1>18, <2>1, <2>2, <2>3, <2>4
<1>20. W[n].id = V[n].id /\ W[n].at = "loop" /\ V[n].at = "loop"
  BY <1>5, <1>14 DEF FrameView
<1>21. W[n + 1].id = s /\ W[n + 1].at = "row" /\ W[n + 1].subs = {}
  BY <1>6, <1>14, <1>18 DEF FrameView
<1>22. Tells(W, {}, ls, P, root)
  BY <1>0, <1>10, <1>11, <1>13, <1>16, <1>19, <1>20, <1>21, TellsEntered
<1>23. ASSUME NEW k \in 1..(n + 1) PROVE FrameRight(stk[k], k)
  <2>1. CASE k = n + 1
    BY <1>6, <1>8, <2>1 DEF FrameRight
  <2>2. CASE k = n
    <3>1. FrameRight(stack[n], n)
      BY <1>2, <1>7, <1>8, <1>16 DEF FramesRight
    <3>2. top.tagged <=> n # 1
      BY <1>5, <3>1 DEF FrameRight
    <3> QED
      BY <1>5, <1>8, <1>17, <2>2, <3>2 DEF FrameRight
  <2>3. CASE k # n + 1 /\ k # n
    <3>1. k \in 1..(n - 1)
      BY <2>3
    <3>2. FrameRight(old2[k], k)
      BY <1>8, <1>12, <1>16, <3>1 DEF FramesRight
    <3> QED
      BY <1>8, <3>1, <3>2
  <2> QED
    BY <2>1, <2>2, <2>3
<1>24. FramesRight(stk)
  BY <1>8, <1>23 DEF FramesRight
<1> QED
  BY <1>1, <1>7, <1>9, <1>15, <1>22, <1>24 DEF Reports, Reported

LEMMA ReportLeaves ==
  ASSUME Typed, Numbered, Reads, lines \in Seq(ServerLine),
         NEW P, NEW T, NEW root, Routed(P, T, AsIs, root), Reported(stack, lines, P, root),
         Server!LeaveCtx
  PROVE  Reports(P, root)
<1>0. root \in RootsOf(ctxTab) /\ Paths(P, T, AsIs)
  BY DEF Routed
<1>1. stack # <<>>
  BY DEF Server!LeaveCtx, Server!In
<1>2. PICK n \in Nat \ {0} : /\ n = Len(stack) /\ n \in 1..n /\ Server!Top = stack[n]
                             /\ stack[n] \in ServerFrame
  BY <1>1, StackTop
<1>3. stack[n].at = "loop" /\ stack[n].kids = {} /\ stack[n].ctx \in Nat
  BY <1>2 DEF Server!LeaveCtx, Server!In, ServerFrame
<1>4. PICK id : id = stack[n].ctx
  OBVIOUS
<1>5. lines' = IF stack[n].tagged THEN Append(lines, Server!CloseTag(id)) ELSE lines
  BY <1>2, <1>4 DEF Server!LeaveCtx
<1>6. PICK old2, stk : old2 = stack /\ stk = stack'
  OBVIOUS
<1>7. Len(old2) = n /\ Len(stk) = n - 1 /\ \A k \in 1..(n - 1) : stk[k] = old2[k]
  <2>1. stack \in Seq(ServerFrame) /\ stack' = SubSeq(stack, 1, Len(stack) - 1)
    BY DEF Reads, Server!LeaveCtx, Server!Pop
  <2>2. /\ stack' \in Seq(ServerFrame) /\ Len(stack') = n - 1
        /\ \A k \in 1..(n - 1) : stack'[k] = stack[k]
    BY <1>1, <1>2, <2>1, LastDropped
  <2> QED
    BY <1>2, <1>6, <2>2
<1>8. PICK V, W, ls, more, tag :
        /\ V = View(old2) /\ W = View(stk) /\ ls = AsText(lines) /\ more = AsText(lines')
        /\ tag = LabelOf(id)
  OBVIOUS
<1>9. PICK m \in Nat : m = n - 1
  OBVIOUS
<1>10. Len(V) = n /\ \A k \in 1..n : V[k] = FrameView(old2[k])
  BY <1>7, <1>8, ViewOf
<1>11. Len(W) = m /\ \A k \in 1..m : W[k] = FrameView(stk[k])
  BY <1>7, <1>8, <1>9, ViewOf
<1>12. \A k \in 1..m : k \in 1..n
  BY <1>9
<1>13. Len(W) = n - 1 /\ \A k \in 1..(n - 1) : W[k] = V[k]
  BY <1>7, <1>9, <1>10, <1>11, <1>12
<1>14. V[n].at = "loop" /\ V[n].subs = {}
  <2>1. V[n] = FrameView(stack[n])
    BY <1>2, <1>6, <1>10
  <2> QED
    BY <1>3, <2>1 DEF FrameView
<1>15. Pushed(old2) = {} /\ Tells(V, {}, ls, P, root) /\ FramesRight(old2)
  <2>1. old2[Len(old2)].at = "loop"
    BY <1>2, <1>3, <1>6, <1>7
  <2>2. Pushed(old2) = {}
    BY <2>1 DEF Pushed
  <2> QED
    BY <1>6, <1>8, <2>2 DEF Reported
<1>16. stack[n].tagged <=> n # 1
  <2>1. FrameRight(stack[n], n)
    BY <1>2, <1>6, <1>7, <1>15 DEF FramesRight
  <2> QED
    BY <1>3, <2>1 DEF FrameRight
<1>17. ls \in Seq(LinesAs) /\ TagOf(LinesAs, ls, more, n, "close", tag)
  <2>0. /\ Server!CloseTag(id) \in ServerLine /\ Server!CloseTag(id).kind = "close"
        /\ Server!CloseTag(id).ctx = id
    BY <1>3, <1>4 DEF Server!CloseTag, ServerLine, Null
  <2>1. PICK l \in ServerLine : l = Server!CloseTag(id) /\ l.kind = "close" /\ l.ctx = id
    BY <2>0
  <2>2. /\ AsText(lines) \in Seq(LinesAs) /\ LineAs(l) \in LinesAs
        /\ AsText(Append(lines, l)) = AsText(lines) \o <<LineAs(l)>>
    BY <2>1, AsTextMore
  <2>3. LineAs(l).kind = "close" /\ LineAs(l).what = tag
    BY <1>8, <2>1 DEF LineAs
  <2>4. CASE n = 1
    <3>1. lines' = lines
      BY <1>5, <1>16, <2>4
    <3> QED
      BY <1>8, <2>2, <2>4, <3>1 DEF TagOf
  <2>5. CASE n # 1
    <3>1. lines' = Append(lines, l)
      BY <1>5, <1>16, <2>1, <2>5
    <3> QED
      BY <1>8, <2>2, <2>3, <2>5, <3>1 DEF TagOf
  <2> QED
    BY <2>4, <2>5
<1>18. Tells(W, {}, more, P, root)
  BY <1>0, <1>10, <1>13, <1>14, <1>15, <1>17, TellsLeft
<1>19. Pushed(stk) = {}
  <2>1. CASE m = 0
    BY <1>7, <1>9, <2>1 DEF Pushed
  <2>2. CASE m # 0
    <3>1. m \in 1..Len(V) /\ m < Len(V)
      BY <1>9, <1>10, <2>2
    <3>2. V[m].at # "push"
      BY <1>15, <3>1 DEF Tells, Visit, CallVisits
    <3>3. stk[m].at = V[m].at
      BY <1>7, <1>9, <1>10, <1>12, <2>2 DEF FrameView
    <3> QED
      BY <1>7, <1>9, <3>2, <3>3 DEF Pushed
  <2> QED
    BY <2>1, <2>2
<1>20. FramesRight(stk)
  BY <1>7, <1>9, <1>12, <1>15 DEF FramesRight
<1> QED
  BY <1>6, <1>8, <1>18, <1>19, <1>20 DEF Reports, Reported

(* What it has told so far, if nobody writes meanwhile. *)
ServerTells == \A P, T, root : Routed(P, T, AsIs, root) => Reported(stack, lines, P, root)

ServerTold == quiet /\ pcS \in {"walk", "close", "cleanup", "done"} => ServerTells

(* The same lines, where nothing was written. *)
LEMMA ServerTellsStill ==
  ASSUME UNCHANGED <<ctxTab, confTab, mapTab>>,
         \A P, T, root : Routed(P, T, AsIs, root) => Reports(P, root)
  PROVE  ServerTells'
<1> SUFFICES ASSUME NEW CONSTANT P, NEW CONSTANT T, NEW CONSTANT root, Routed(P, T, AsIs, root)'
             PROVE  Reported(stack, lines, P, root)'
  BY DEF ServerTells
<1>1. Routed(P, T, AsIs, root)
  BY DEF Routed, RootsOf, Paths, AsIs, Labels
<1>2. Reports(P, root)
  BY <1>1
<1>3. PICK stk, ls : stk = stack' /\ ls = lines' /\ Reported(stk, ls, P, root)
  BY <1>2 DEF Reports
<1>4. Reported(stk, ls, P, root)'
  BY <1>3, ReportedSame
<1> QED
  BY <1>3, <1>4

LEMMA ServerToldKept ==
  ASSUME ServerTold, UNCHANGED <<stack, lines>>,
         \/ pcS' = pcS
         \/ pcS' \in {"load", "prepare", "define", "open", "root"}
         \/ pcS \in {"walk", "close", "cleanup", "done"} /\ pcS' \in {"cleanup", "done"},
         quiet' /\ pcS \in {"walk", "close", "cleanup", "done"} =>
           quiet /\ UNCHANGED <<ctxTab, confTab, mapTab>>
  PROVE  ServerTold'
<1>1. ASSUME quiet', pcS' \in {"walk", "close", "cleanup", "done"} PROVE ServerTells'
  <2>1. pcS \in {"walk", "close", "cleanup", "done"}
    BY <1>1
  <2>2. ServerTells /\ UNCHANGED <<ctxTab, confTab, mapTab>>
    BY <1>1, <2>1 DEF ServerTold
  <2>3. \A P, T, root : Routed(P, T, AsIs, root) => Reports(P, root)
    <3> SUFFICES ASSUME NEW P, NEW T, NEW root, Routed(P, T, AsIs, root) PROVE Reports(P, root)
      OBVIOUS
    <3>1. PICK stk, ls : stk = stack /\ ls = lines
      OBVIOUS
    <3>2. Reported(stk, ls, P, root) /\ stk = stack' /\ ls = lines'
      BY <2>2, <3>1 DEF ServerTells
    <3> QED
      BY <3>2 DEF Reports
  <2> QED
    BY <2>2, <2>3, ServerTellsStill
<1> QED
  BY <1>1 DEF ServerTold

LEMMA ServerToldServes ==
  ASSUME Kept, Kept', ServerOwed, ServerTold, ServerStep
  PROVE  ServerTold'
<1>1. /\ Typed /\ Reads /\ Finite /\ Numbered
      /\ UNCHANGED <<ctxTab, confTab, mapTab>> /\ quiet' = quiet /\ Server!Step
  BY DEF Kept, Orderly, Trees, ServerStep, vars
<1>2. PICK lab, dir : Remembered(lab, dir)
  BY DEF Kept, NamesKept
<1>3. \A call : ~Server!Fails(call)
  BY DEF Server!Fails
<1>4. ASSUME \A P, T, root : Routed(P, T, AsIs, root) => Reports(P, root) PROVE ServerTold'
  BY <1>1, <1>4, ServerTellsStill DEF ServerTold
<1>5. ASSUME UNCHANGED <<stack, lines>>,
             \/ pcS' \in {"load", "prepare", "define", "open", "root"}
             \/ pcS \in {"walk", "close", "cleanup", "done"} /\ pcS' \in {"cleanup", "done"}
      PROVE  ServerTold'
  BY <1>1, <1>5, ServerToldKept
<1>6. CASE Server!CheckModule \/ Server!LoadBackend \/ Server!Prepare \/ Server!DefineConn
           \/ Server!OpenConn
  <2>1. /\ UNCHANGED <<stack, lines>>
        /\ pcS' \in {"load", "prepare", "define", "open", "root"}
    BY <1>3, <1>6 DEF Server!CheckModule, Server!LoadBackend, Server!Prepare, Server!DefineConn,
                      Server!OpenConn, Server!Hook
  <2> QED
    BY <1>5, <2>1
<1>7. ~Server!RootFailed
  BY <1>3 DEF Server!RootFailed, Server!NotUnique
<1>8. CASE Server!SelectRoot
  <2>1. pcS = "root"
    BY <1>8 DEF Server!SelectRoot
  <2>2. stack = <<>> /\ lines = <<>>
    BY <2>1 DEF ServerOwed
  <2>3. \A P, T, root : Routed(P, T, AsIs, root) => Reports(P, root)
    BY <1>1, <1>8, <2>2, ReportBegins
  <2> QED
    BY <1>4, <2>3
<1>9. CASE Server!CloseConn \/ Server!CleanUp
  <2>1. /\ UNCHANGED <<stack, lines>> /\ pcS' \in {"cleanup", "done"}
        /\ pcS \in {"walk", "close", "cleanup"}
    BY <1>3, <1>9 DEF Server!CloseConn, Server!CleanUp, Server!Return
  <2> QED
    BY <1>5, <2>1
<1>10. CASE Server!Walk /\ pcS' = "crashed"
  BY <1>10 DEF ServerTold
<1>11. CASE Server!Walk /\ pcS' # "crashed"
  <2>1. ~Server!ReadRowFailed
    BY <1>1, <1>2, <1>3, ServerRows DEF Server!ReadRowFailed
  <2>2. ~Server!SelectFailed
    BY <1>3 DEF Server!SelectFailed
  <2>3. ~Server!NullValue /\ ~Server!StackOverflow
    BY <1>11 DEF Server!NullValue, Server!StackOverflow, Server!Crash
  <2>4. \/ Server!ReadRow \/ Server!RowVanished \/ Server!SelectConf \/ Server!PushDirective
        \/ Server!DirectivesDone \/ Server!SelectCtxs \/ Server!EnterCtx \/ Server!LeaveCtx
    BY <1>11, <2>1, <2>2, <2>3 DEF Server!Walk
  <2>5. pcS = "walk"
    BY <2>4 DEF Server!ReadRow, Server!RowVanished, Server!SelectConf, Server!PushDirective,
                Server!DirectivesDone, Server!SelectCtxs, Server!EnterCtx, Server!LeaveCtx, Server!In
  <2>6. lines \in Seq(ServerLine)
    BY DEF ServerOwed
  <2>7. CASE ~quiet
    BY <1>1, <2>7 DEF ServerTold
  <2>8. CASE quiet
    <3>1. ServerTells
      BY <2>5, <2>8 DEF ServerTold
    <3> SUFFICES ASSUME NEW CONSTANT P, NEW CONSTANT T, NEW CONSTANT root, Routed(P, T, AsIs, root)
                 PROVE  Reports(P, root)
      BY <1>4
    <3>2. Reported(stack, lines, P, root)
      BY <3>1 DEF ServerTells
    <3>3. CASE Server!ReadRow \/ Server!RowVanished
      BY <1>1, <1>11, <2>6, <3>2, <3>3, ReportRow
    <3>4. CASE Server!SelectConf
      BY <1>1, <3>2, <3>4, ReportConf
    <3>5. CASE Server!PushDirective
      BY <1>1, <2>6, <3>2, <3>5, ReportPush
    <3>6. CASE Server!DirectivesDone
      BY <1>1, <3>2, <3>6, ReportPushed
    <3>7. CASE Server!SelectCtxs
      BY <1>1, <1>2, <3>2, <3>7, ReportCtxs
    <3>8. CASE Server!EnterCtx
      BY <1>1, <3>2, <3>8, ReportEnters
    <3>9. CASE Server!LeaveCtx
      BY <1>1, <2>6, <3>2, <3>9, ReportLeaves
    <3> QED
      BY <2>4, <3>3, <3>4, <3>5, <3>6, <3>7, <3>8, <3>9
  <2> QED
    BY <2>7, <2>8
<1> QED
  BY <1>1, <1>6, <1>7, <1>8, <1>9, <1>10, <1>11 DEF Server!Step

ReadersTold == Owed /\ ExportTold /\ ServerTold

LEMMA ReadersToldInitially == RoundTripInit => ReadersTold
<1> SUFFICES ASSUME RoundTripInit PROVE ReadersTold
  OBVIOUS
<1>1. step = "start" /\ pcS = "module"
  BY DEF RoundTripInit, Export!Init, Server!Init
<1> QED
  BY <1>1, OwedInitially DEF ReadersTold, ExportTold, ServerTold

LEMMA ReadersToldNext == ReadersTold /\ [RoundTripNext]_allVars => ReadersTold'
<1> SUFFICES ASSUME ReadersTold, [RoundTripNext]_allVars PROVE ReadersTold'
  OBVIOUS
<1>1. /\ Owed /\ Owed' /\ Kept /\ Kept' /\ Apiece /\ ExportOwed /\ ServerOwed
      /\ ExportTold /\ ServerTold
  BY OwedNext DEF ReadersTold, Owed
<1>2. CASE ImporterStep
  <2>1. UNCHANGED <<exportVars, step, pcS, stack, lines>>
    BY <1>2 DEF ImporterStep, readVars, exportVars, serverVars
  <2>2. quiet' /\ Reading => quiet /\ UNCHANGED <<ctxTab, confTab, mapTab>>
    BY <1>2 DEF ImporterStep
  <2>3. ExportTold'
    BY <1>1, <2>1, <2>2, ExportToldKept DEF Reading
  <2>4. ServerTold'
    BY <1>1, <2>1, <2>2, ServerToldKept DEF Reading
  <2> QED
    BY <1>1, <2>3, <2>4 DEF ReadersTold
<1>3. CASE ExportStep
  <2>1. UNCHANGED <<pcS, stack, lines, ctxTab, confTab, mapTab, quiet>>
    BY <1>3 DEF ExportStep, serverVars, vars
  <2>2. ExportTold'
    BY <1>1, <1>3, ExportToldExports
  <2>3. ServerTold'
    BY <1>1, <2>1, ServerToldKept
  <2> QED
    BY <1>1, <2>2, <2>3 DEF ReadersTold
<1>4. CASE ServerStep
  <2>1. UNCHANGED <<exportVars, step, ctxTab, confTab, mapTab, quiet>>
    BY <1>4 DEF ServerStep, exportVars, vars
  <2>2. ServerTold'
    BY <1>1, <1>4, ServerToldServes
  <2>3. ExportTold'
    BY <1>1, <2>1, ExportToldKept
  <2> QED
    BY <1>1, <2>2, <2>3 DEF ReadersTold
<1>5. CASE UNCHANGED allVars
  <2>1. UNCHANGED <<exportVars, step, pcS, stack, lines, ctxTab, confTab, mapTab, quiet>>
    BY <1>5 DEF allVars, readVars, exportVars, serverVars, vars
  <2>2. ExportTold' /\ ServerTold'
    BY <1>1, <2>1, ExportToldKept, ServerToldKept
  <2> QED
    BY <1>1, <2>2 DEF ReadersTold
<1> QED
  BY <1>2, <1>3, <1>4, <1>5 DEF RoundTripNext

-----------------------------------------------------------------------------
(* The file, as far as it is read, means the tree.                           *)

(* The tags that lead to each context. *)
FilePaths(path, nds) ==
  /\ path \in [DOMAIN nds -> Seq(Labels)]
  /\ \A m \in DOMAIN nds : \A i \in 1..Len(nds[m].subs) :
       path[nds[m].subs[i]] = Append(path[m], nds[nds[m].subs[i]].label)

(* The contexts that are open are those within which the next line stands. *)
OpenPath(path, open) ==
  /\ path[open[Len(open)]] = <<>>
  /\ \A i \in 1..(Len(open) - 1) :
       path[open[i]] # <<>> /\ path[open[i + 1]] = Front(path[open[i]])

NodeUnits(nds, n) == {<<n, k>> : k \in 1..Len(nds[n].dirs)}

FileUnits(nds) ==
  {<<n, 0>> : n \in (DOMAIN nds) \ {1}} \union UNION {NodeUnits(nds, n) : n \in DOMAIN nds}

FileTold(path, nds, u) ==
  IF u[2] = 0 THEN <<Front(path[u[1]]), "open", Last(path[u[1]])>>
  ELSE <<path[u[1]], "dir", nds[u[1]].dirs[u[2]]>>

FileTale(path, nds) == [u \in FileUnits(nds) |-> FileTold(path, nds, u)]

Parsed(nds, open, ls) ==
  \E path : /\ FilePaths(path, nds) /\ OpenPath(path, open)
            /\ Spells(ls, FileTale(path, nds)) /\ Ends(ls, path[open[1]])

FileParsed == Parsed(nodes, ctxs, SubSeq(file, 1, pos))

(* One more line is read. *)
LEMMA LineRead ==
  ASSUME Typed, pos < Len(file), UNCHANGED file, pos' = pos + 1
  PROVE  /\ SubSeq(file, 1, pos) \in Seq(FileLine) /\ Line \in FileLine
         /\ SubSeq(file, 1, pos)' = SubSeq(file, 1, pos) \o <<Line>>
<1>1. file \in Seq(FileLine) /\ pos \in 0..Len(file) /\ Len(file) \in Nat
  BY DEF Typed, TypeOK
<1>2. PICK n \in Nat, all \in Seq(FileLine) : n = pos + 1 /\ all = file /\ n \in 1..Len(all)
  BY <1>1
<1>3. 1 \in 1..Len(all) /\ n - 1 = pos /\ \A i \in 1..pos : i \in 1..Len(all)
  BY <1>1, <1>2
<1>4. SubSeq(all, 1, n) = SubSeq(all, 1, n - 1) \o << all[n] >>
  BY <1>2, <1>3, SubSeqRecursiveSecond
<1>5. SubSeq(all, 1, pos) \in Seq(FileLine)
  <2>1. \A i \in 1..pos : all[i] \in FileLine
    BY <1>3
  <2>2. 1 \in Int /\ pos \in Int
    BY <1>1
  <2> QED
    BY <2>1, <2>2, SubSeqProperties
<1>6. all[n] \in FileLine
  BY <1>2
<1> QED
  BY <1>2, <1>3, <1>4, <1>5, <1>6 DEF Line

LEMMA NodesTyped ==
  ASSUME Typed
  PROVE  /\ DOMAIN nodes = 1..Len(nodes) /\ Len(nodes) \in Nat \ {0}
         /\ \A p \in DOMAIN nodes : /\ nodes[p].dirs \in Seq(Dir) /\ Len(nodes[p].dirs) \in Nat
                                    /\ nodes[p].subs \in Seq(1..Len(nodes))
                                    /\ Len(nodes[p].subs) \in Nat
                                    /\ nodes[p].label \in Labels
<1>1. nodes \in Seq(NodeIn(Len(nodes))) /\ nodes # <<>>
  BY DEF Typed, TypeOK
<1>2. \A p \in DOMAIN nodes : nodes[p] \in NodeIn(Len(nodes))
  BY <1>1
<1>3. ASSUME NEW p \in DOMAIN nodes
      PROVE  /\ nodes[p].dirs \in Seq(Dir) /\ nodes[p].subs \in Seq(1..Len(nodes))
             /\ nodes[p].label \in Labels
  BY <1>2 DEF NodeIn, Labels
<1>4. DOMAIN nodes = 1..Len(nodes) /\ Len(nodes) \in Nat \ {0}
  BY <1>1
<1> QED
  BY <1>3, <1>4

(* The new context has no directives, and the others keep theirs; it is the *)
(* last sub-context of the innermost open one.                               *)
LEMMA ListsOpened ==
  ASSUME Typed, OpenLine, NEW n \in Nat, NEW new \in Nat, n = Len(nodes), new = n + 1,
         NEW cur, cur = Current
  PROVE  /\ Dirs(new)' = <<>> /\ \A p \in 1..n : Dirs(p)' = Dirs(p)
         /\ \A p \in 1..new : \A i \in 1..Len(Subs(p)') :
              \/ p \in 1..n /\ i \in 1..Len(Subs(p)) /\ Subs(p)'[i] = Subs(p)[i]
              \/ p = cur /\ Subs(p)'[i] = new
<1>0. ctxs \in Seq(1..n) /\ ctxs # <<>>
  BY DEF Typed, TypeOK
<1>1. cur \in 1..n
  BY <1>0 DEF Current
<1> DEFINE full == [nodes[cur] EXCEPT !.subs = Append(@, new)]
           last == NewNode(Line.what)
           All == UNION {NodeIn(n), {full}, {last}}
           fuller == [nodes EXCEPT ![cur] = full]
<1>2. nodes' = Append(fuller, last)
  BY <1>1 DEF OpenLine
<1>3. nodes \in Seq(All) /\ full \in All /\ last \in All
  BY DEF Typed
<1>4. /\ full.dirs = nodes[cur].dirs /\ last.dirs = <<>> /\ last.subs = <<>>
      /\ full.subs = Append(nodes[cur].subs, new) /\ nodes[cur].subs \in Seq(Nat)
  <2>1. nodes[cur] \in NodeIn(n)
    BY <1>1 DEF Typed
  <2>2. nodes[cur].subs \in Seq(1..n)
    BY <2>1 DEF NodeIn
  <2> QED
    BY <2>1, <2>2 DEF NodeIn, NewNode
<1> HIDE DEF full, last, All
<1>5. /\ fuller \in Seq(All) /\ Len(fuller) = n /\ fuller[cur] = full
      /\ \A p \in 1..n : p # cur => fuller[p] = nodes[p]
  BY <1>1, <1>3
<1> HIDE DEF fuller
<1>6. /\ nodes' \in Seq(All) /\ Len(nodes') = new /\ nodes'[new] = last
      /\ \A p \in 1..n : nodes'[p] = fuller[p]
  BY <1>2, <1>3, <1>5, LastAdded
<1>7. Dirs(new)' = <<>> /\ \A p \in 1..n : Dirs(p)' = Dirs(p)
  BY <1>4, <1>5, <1>6 DEF Dirs
<1>8. /\ Subs(new)' = <<>> /\ Subs(cur)' = Append(Subs(cur), new) /\ Subs(cur) \in Seq(Nat)
      /\ \A p \in 1..n : p # cur => Subs(p)' = Subs(p)
  BY <1>1, <1>4, <1>5, <1>6 DEF Subs
<1>9. ASSUME NEW p \in 1..new, NEW i \in 1..Len(Subs(p)')
      PROVE  \/ p \in 1..n /\ i \in 1..Len(Subs(p)) /\ Subs(p)'[i] = Subs(p)[i]
             \/ p = cur /\ Subs(p)'[i] = new
  <2>1. CASE p = cur
    <3>1. PICK k \in Nat : k = Len(Subs(cur))
      BY <1>8
    <3>2. Len(Subs(cur)') = k + 1 /\ Subs(cur)'[k + 1] = new
          /\ \A j \in 1..k : Subs(cur)'[j] = Subs(cur)[j]
      BY <1>8, <3>1
    <3>3. i \in 1..(k + 1)
      BY <2>1, <3>2
    <3>4. i = k + 1 \/ i \in 1..k
      BY <3>3
    <3> QED
      BY <1>1, <2>1, <3>1, <3>2, <3>4
  <2>2. CASE p = new
    <3>1. Len(Subs(p)') = 0
      BY <1>8, <2>2
    <3> QED
      BY <3>1
  <2>3. CASE p # cur /\ p # new
    <3>1. p \in 1..n
      BY <2>3
    <3> QED
      BY <1>8, <2>3, <3>1
  <2> QED
    BY <2>1, <2>2, <2>3
<1> QED
  BY <1>7, <1>9

(* What the contexts that are open are. *)
LEMMA OpenTyped ==
  ASSUME Typed
  PROVE  /\ ctxs \in Seq(DOMAIN nodes) /\ Len(ctxs) \in Nat \ {0} /\ Current = ctxs[1]
         /\ \A i \in 1..Len(ctxs) : ctxs[i] \in DOMAIN nodes
<1>1. ctxs \in Seq(1..Len(nodes)) /\ ctxs # <<>> /\ DOMAIN nodes = 1..Len(nodes)
  BY DEF Typed, TypeOK
<1> QED
  BY <1>1 DEF Current

LEMMA UnitsTyped ==
  ASSUME Typed
  PROVE  /\ \A u \in FileUnits(nodes) : u[1] \in DOMAIN nodes
         /\ \A n \in DOMAIN nodes : \A k \in 1..Len(nodes[n].dirs) :
              k # 0 /\ k \in Nat /\ <<n, k>> \in FileUnits(nodes)
         /\ \A u \in FileUnits(nodes) :
              \/ u = <<u[1], 0>> /\ u[1] # 1
              \/ u = <<u[1], u[2]>> /\ u[2] # 0 /\ u[2] \in 1..Len(nodes[u[1]].dirs)
<1>1. \A n \in DOMAIN nodes : Len(nodes[n].dirs) \in Nat
  BY NodesTyped
<1>2. \A n \in DOMAIN nodes : \A k \in 1..Len(nodes[n].dirs) : k # 0 /\ k \in Nat
  BY <1>1
<1>3. \A n \in DOMAIN nodes : \A k \in 1..Len(nodes[n].dirs) : <<n, k>> \in FileUnits(nodes)
  BY DEF FileUnits, NodeUnits
<1>4. ASSUME NEW u \in FileUnits(nodes)
      PROVE  /\ u[1] \in DOMAIN nodes
             /\ \/ u = <<u[1], 0>> /\ u[1] # 1
                \/ u = <<u[1], u[2]>> /\ u[2] # 0 /\ u[2] \in 1..Len(nodes[u[1]].dirs)
  <2>1. CASE \E n \in (DOMAIN nodes) \ {1} : u = <<n, 0>>
    BY <2>1
  <2>2. CASE \E n \in DOMAIN nodes : \E k \in 1..Len(nodes[n].dirs) : u = <<n, k>>
    BY <1>2, <2>2
  <2> QED
    BY <2>1, <2>2 DEF FileUnits, NodeUnits
<1> QED
  BY <1>2, <1>3, <1>4

(* A section begins. *)
LEMMA ParsedOpens ==
  ASSUME Typed, Typed', FileParsed, OpenLine
  PROVE  FileParsed'
<1>1. PICK n \in Nat, new \in Nat : n = Len(nodes) /\ new = n + 1 /\ n # 0
  BY DEF Typed, TypeOK
<1>2. PICK cur : cur = Current
  OBVIOUS
<1>3. PICK nds, all, open, more, ls, ls2, line :
        /\ nds = nodes /\ all = nodes' /\ open = ctxs /\ more = ctxs'
        /\ ls = SubSeq(file, 1, pos) /\ ls2 = SubSeq(file, 1, pos)' /\ line = Line
  OBVIOUS
<1>4. /\ cur \in 1..n /\ DOMAIN nds = 1..n /\ DOMAIN all = 1..new
      /\ all[new] = NewNode(line.what) /\ \A p \in 1..n : all[p].label = nds[p].label
  BY <1>1, <1>2, <1>3, Opened
<1>5. \A p \in 1..new : \A i \in 1..Len(all[p].subs) :
        \/ p \in 1..n /\ i \in 1..Len(nds[p].subs) /\ all[p].subs[i] = nds[p].subs[i]
        \/ p = cur /\ all[p].subs[i] = new
  <2>1. \A p \in 1..new : \A i \in 1..Len(Subs(p)') :
          \/ p \in 1..n /\ i \in 1..Len(Subs(p)) /\ Subs(p)'[i] = Subs(p)[i]
          \/ p = cur /\ Subs(p)'[i] = new
    BY <1>1, <1>2, ListsOpened
  <2> QED
    BY <1>3, <2>1 DEF Subs
<1>6. all[new].dirs = <<>> /\ \A p \in 1..n : all[p].dirs = nds[p].dirs
  <2>1. Dirs(new)' = <<>> /\ \A p \in 1..n : Dirs(p)' = Dirs(p)
    BY <1>1, <1>2, ListsOpened
  <2> QED
    BY <1>3, <2>1 DEF Dirs
<1>7. \A p \in 1..n : \A i \in 1..Len(nds[p].subs) : nds[p].subs[i] \in 1..n
  BY <1>3, <1>4, NodeLists DEF Subs
<1>8. /\ ls \in Seq(FileLine) /\ line \in FileLine /\ ls2 = ls \o << line >>
      /\ line.kind = "open" /\ line.what \in Labels
  <2>1. pos < Len(file) /\ UNCHANGED file /\ pos' = pos + 1 /\ Line.kind = "open"
    BY DEF OpenLine, More, options
  <2>2. \A l \in FileLine : l.kind = "open" => l.what \in Labels
    BY DEF FileLine, Labels
  <2> QED
    BY <1>3, <2>1, <2>2, LineRead
<1>9. PICK path : /\ FilePaths(path, nds) /\ OpenPath(path, open)
                  /\ Spells(ls, FileTale(path, nds)) /\ Ends(ls, path[open[1]])
  BY <1>3 DEF FileParsed, Parsed
<1>10. path \in [1..n -> Seq(Labels)] /\ path[cur] \in Seq(Labels)
  BY <1>4, <1>9 DEF FilePaths
<1>11. PICK tags, longer : tags = path[cur] /\ longer = Append(tags, line.what)
  OBVIOUS
<1>12. longer \in Seq(Labels) /\ Front(longer) = tags /\ Last(longer) = line.what /\ longer # <<>>
  <2>1. tags \in Seq(Labels) /\ Append(tags, line.what) \in Seq(Labels)
    BY <1>8, <1>10, <1>11
  <2> QED
    BY <1>11, <2>1, Appended
<1> DEFINE path2 == [m \in 1..new |-> IF m = new THEN longer ELSE path[m]]
<1>13. /\ path2 \in [1..new -> Seq(Labels)] /\ path2[new] = longer
       /\ \A m \in 1..n : path2[m] = path[m]
  BY <1>1, <1>10, <1>12
<1> HIDE DEF path2
<1>14. FilePaths(path2, all)
  <2> SUFFICES ASSUME NEW m \in 1..new, NEW i \in 1..Len(all[m].subs)
               PROVE  path2[all[m].subs[i]] = Append(path2[m], all[all[m].subs[i]].label)
    BY <1>4, <1>13 DEF FilePaths
  <2>1. CASE m \in 1..n /\ i \in 1..Len(nds[m].subs) /\ all[m].subs[i] = nds[m].subs[i]
    <3>1. PICK c \in 1..n : c = nds[m].subs[i]
      BY <1>7, <2>1
    <3>2. path[c] = Append(path[m], nds[c].label)
      BY <1>4, <1>9, <2>1, <3>1 DEF FilePaths
    <3> QED
      BY <1>4, <1>13, <2>1, <3>1, <3>2
  <2>2. CASE m = cur /\ all[m].subs[i] = new
    <3>1. path2[m] = tags /\ all[new].label = line.what
      BY <1>4, <1>11, <1>13, <2>2 DEF NewNode
    <3> QED
      BY <1>11, <1>13, <2>2, <3>1
  <2> QED
    BY <1>5, <2>1, <2>2
<1>15. /\ open \in Seq(1..n) /\ Len(open) \in Nat \ {0} /\ cur = open[1]
       /\ \A i \in 1..Len(open) : open[i] \in 1..n
  BY <1>2, <1>3, <1>4, OpenTyped
<1>16. PICK d \in Nat \ {0} : d = Len(open)
  BY ONLY <1>15, Zenon
<1>17. Len(more) = d + 1 /\ more[1] = new /\ \A i \in 1..d : more[i + 1] = open[i]
  <2>1. more = << new >> \o open
    BY <1>1, <1>3 DEF OpenLine
  <2>2. << new >> \in Seq(Nat) /\ open \in Seq(Nat) /\ Len(<< new >>) = 1 /\ << new >>[1] = new
    BY <1>15
  <2>3. /\ Len(more) = Len(<< new >>) + Len(open)
        /\ \A i \in 1..(Len(<< new >>) + Len(open)) :
             more[i] = IF i <= Len(<< new >>) THEN << new >>[i] ELSE open[i - Len(<< new >>)]
    BY <2>1, <2>2, ConcatProperties
  <2>4. /\ Len(more) = 1 + d
        /\ \A i \in 1..(1 + d) : more[i] = IF i <= 1 THEN << new >>[i] ELSE open[i - 1]
    BY ONLY <1>16, <2>2, <2>3
  <2>5. 1 \in 1..(1 + d) /\ 1 <= 1 /\ 1 + d = d + 1
        /\ \A i \in 1..d : i + 1 \in 1..(1 + d) /\ ~(i + 1 <= 1) /\ i + 1 - 1 = i
    OBVIOUS
  <2> QED
    BY ONLY <2>2, <2>4, <2>5
<1>18. OpenPath(path2, more)
  <2>1. /\ path[open[d]] = <<>>
        /\ \A i \in 1..(d - 1) : path[open[i]] # <<>> /\ path[open[i + 1]] = Front(path[open[i]])
    BY <1>9, <1>16 DEF OpenPath
  <2>2. \A i \in 1..d : path2[more[i + 1]] = path[open[i]]
    BY <1>13, <1>15, <1>16, <1>17
  <2>3. path2[more[d + 1]] = <<>>
    BY <2>1, <2>2
  <2>4. path2[more[1]] # <<>> /\ path2[more[2]] = Front(path2[more[1]])
    <3>1. path2[more[1]] = longer
      BY <1>13, <1>17
    <3>2. 1 \in 1..d /\ 1 + 1 = 2
      OBVIOUS
    <3>3. path2[more[2]] = tags
      BY <1>11, <1>15, <2>2, <3>2
    <3> QED
      BY <1>12, <3>1, <3>3
  <2>5. ASSUME NEW i \in 1..d
        PROVE  path2[more[i]] # <<>> /\ path2[more[i + 1]] = Front(path2[more[i]])
    <3>1. CASE i = 1
      BY <2>4, <3>1
    <3>2. CASE i # 1
      <4>1. PICK j \in 1..(d - 1) : i = j + 1
        BY <3>2
      <4>2. path2[more[i]] = path[open[j]] /\ path2[more[i + 1]] = path[open[j + 1]]
        BY <2>2, <4>1
      <4> QED
        BY <2>1, <4>2
    <3> QED
      BY <3>1, <3>2
  <2>6. d + 1 - 1 = d
    OBVIOUS
  <2> QED
    BY <1>17, <2>3, <2>5, <2>6 DEF OpenPath
<1>19. PICK u, E, F : u = <<new, 0>> /\ E = FileTale(path, nds) /\ F = FileTale(path2, all)
  OBVIOUS
<1>20. FileUnits(all) = FileUnits(nds) \union {u}
  <2>1. NodeUnits(all, new) = {} /\ \A p \in 1..n : NodeUnits(all, p) = NodeUnits(nds, p)
    BY <1>6 DEF NodeUnits
  <2>2. 1..new = (1..n) \union {new} /\ new # 1
    BY <1>1
  <2>3. UNION {NodeUnits(all, p) : p \in 1..new} = UNION {NodeUnits(nds, p) : p \in 1..n}
    BY ONLY <2>1, <2>2
  <2>4. {<<p, 0>> : p \in (1..new) \ {1}} = {<<p, 0>> : p \in (1..n) \ {1}} \union {<<new, 0>>}
    BY ONLY <2>2
  <2> QED
    BY <1>4, <1>19, <2>3, <2>4 DEF FileUnits
<1>21. \A v \in FileUnits(nds) : v[1] \in 1..n /\ FileTold(path2, all, v) = FileTold(path, nds, v)
  <2>1. \A v \in FileUnits(nds) : v[1] \in 1..n
    BY <1>3, <1>4, UnitsTyped
  <2> QED
    BY <1>6, <1>13, <2>1 DEF FileTold
<1>22. u \notin FileUnits(nds)
  BY <1>1, <1>19, <1>21
<1>23. Adds(E, {u}, F)
  BY <1>19, <1>20, <1>21, <1>22 DEF Adds, FileTale
<1>24. F[u] = <<tags, line.kind, line.what>>
  BY <1>8, <1>12, <1>13, <1>19, <1>20 DEF FileTale, FileTold
<1>25. Ends(ls, tags) /\ Spells(ls, E)
  BY <1>9, <1>11, <1>15, <1>19
<1>26. Spells(ls2, F)
  <2>1. line.kind # "close"
    BY <1>8
  <2> QED
    BY <1>8, <1>23, <1>24, <1>25, <2>1, SpellsOne
<1>27. Ends(ls2, path2[more[1]])
  <2>1. Ends(ls2, After(tags, line))
    BY <1>8, <1>25, OneLineEnds
  <2>2. path2[more[1]] = After(tags, line)
    BY <1>8, <1>11, <1>13, <1>17 DEF After
  <2> QED
    BY <2>1, <2>2
<1>28. Parsed(all, more, ls2)
  BY <1>14, <1>18, <1>19, <1>26, <1>27 DEF Parsed
<1> QED
  BY <1>3, <1>28 DEF FileParsed

(* A section ends. *)
LEMMA ParsedCloses ==
  ASSUME Typed, FileParsed, CloseLine
  PROVE  FileParsed'
<1>1. PICK nds, open, more, ls, ls2, line :
        /\ nds = nodes /\ open = ctxs /\ more = ctxs'
        /\ ls = SubSeq(file, 1, pos) /\ ls2 = SubSeq(file, 1, pos)' /\ line = Line
  OBVIOUS
<1>2. /\ ls \in Seq(FileLine) /\ line \in FileLine /\ ls2 = ls \o << line >>
      /\ line.kind = "close" /\ nodes' = nds
  <2>1. pos < Len(file) /\ UNCHANGED <<file, nodes>> /\ pos' = pos + 1 /\ Line.kind = "close"
    BY DEF CloseLine, More, options
  <2> QED
    BY <1>1, <2>1, LineRead
<1>3. PICK path : /\ FilePaths(path, nds) /\ OpenPath(path, open)
                  /\ Spells(ls, FileTale(path, nds)) /\ Ends(ls, path[open[1]])
  BY <1>1 DEF FileParsed, Parsed
<1>4. PICK d \in Nat \ {0} : d = Len(open) /\ open \in Seq(DOMAIN nodes)
  BY <1>1, OpenTyped
<1>5. PICK tags, E : tags = path[open[1]] /\ E = FileTale(path, nds)
  OBVIOUS
<1>6. Spells(ls2, E) /\ Ends(ls2, After(tags, line))
  BY <1>2, <1>3, <1>5, SpellsClose, OneLineEnds
<1>7. After(tags, line) = IF tags # <<>> THEN Front(tags) ELSE tags
  BY <1>2 DEF After
<1>8. /\ path[open[d]] = <<>>
      /\ \A i \in 1..(d - 1) : path[open[i]] # <<>> /\ path[open[i + 1]] = Front(path[open[i]])
  BY <1>3, <1>4 DEF OpenPath
<1>9. OpenPath(path, more) /\ path[more[1]] = After(tags, line)
  <2>1. CASE d = 1
    <3>1. more = open
      BY <1>1, <1>4, <2>1 DEF CloseLine, Closed
    <3> QED
      BY <1>3, <1>5, <1>7, <1>8, <2>1, <3>1
  <2>2. CASE d # 1
    <3>1. more = Tail(open)
      BY <1>1, <1>4, <2>2 DEF CloseLine, Closed
    <3>2. Len(more) = d - 1 /\ \A i \in 1..(d - 1) : more[i] = open[i + 1]
      BY <1>4, <3>1
    <3>3. 1 \in 1..(d - 1) /\ 1 + 1 = 2 /\ d - 1 \in 1..(d - 1) /\ (d - 1) + 1 = d
      BY <2>2
    <3>4. path[more[1]] = After(tags, line)
      <4>1. path[open[1]] # <<>> /\ path[open[2]] = Front(path[open[1]]) /\ more[1] = open[2]
        BY <1>8, <3>2, <3>3
      <4> QED
        BY <1>5, <1>7, <4>1
    <3>5. path[more[Len(more)]] = <<>>
      BY <1>8, <3>2, <3>3
    <3>6. ASSUME NEW i \in 1..(Len(more) - 1)
          PROVE  path[more[i]] # <<>> /\ path[more[i + 1]] = Front(path[more[i]])
      <4>1. PICK j : j = i + 1
        OBVIOUS
      <4>2. i \in 1..(d - 1) /\ j \in 1..(d - 1)
        BY <3>2, <4>1
      <4>3. more[i] = open[j] /\ more[j] = open[j + 1]
        BY <3>2, <4>1, <4>2
      <4> QED
        BY <1>8, <4>1, <4>2, <4>3
    <3> QED
      BY <3>4, <3>5, <3>6 DEF OpenPath
  <2> QED
    BY <2>1, <2>2
<1>10. Parsed(nds, more, ls2)
  BY <1>3, <1>5, <1>6, <1>9 DEF Parsed
<1> QED
  BY <1>1, <1>2, <1>10 DEF FileParsed

(* A directive. *)
LEMMA ParsedDirective ==
  ASSUME Typed, FileParsed, DirLine
  PROVE  FileParsed'
<1>1. PICK nds, all, open, ls, ls2, line, cur :
        /\ nds = nodes /\ all = nodes' /\ open = ctxs /\ cur = Current
        /\ ls = SubSeq(file, 1, pos) /\ ls2 = SubSeq(file, 1, pos)' /\ line = Line
  OBVIOUS
<1>2. /\ ls \in Seq(FileLine) /\ line \in FileLine /\ ls2 = ls \o << line >>
      /\ line.kind = "dir" /\ ctxs' = open
  <2>1. pos < Len(file) /\ UNCHANGED <<file, ctxs>> /\ pos' = pos + 1 /\ Line.kind = "dir"
    BY DEF DirLine, More, options
  <2> QED
    BY <1>1, <2>1, LineRead
<1>3. PICK path : /\ FilePaths(path, nds) /\ OpenPath(path, open)
                  /\ Spells(ls, FileTale(path, nds)) /\ Ends(ls, path[open[1]])
  BY <1>1 DEF FileParsed, Parsed
<1>4. cur \in DOMAIN nds /\ cur = open[1]
  BY <1>1, OpenTyped
<1>5. PICK k \in Nat : k = Len(nds[cur].dirs) /\ nds[cur].dirs \in Seq(Dir)
  BY <1>1, <1>4, NodesTyped
<1>6. PICK n \in Nat, e \in {line.what} : n = k + 1 /\ e = line.what
  OBVIOUS
<1>7. /\ DOMAIN all = DOMAIN nds
      /\ \A p \in DOMAIN nds : all[p].subs = nds[p].subs /\ all[p].label = nds[p].label
      /\ \A p \in DOMAIN nds : p # cur => all[p].dirs = nds[p].dirs
      /\ all[cur].dirs = Append(nds[cur].dirs, e)
  <2>1. nds[cur] \in NodeIn(Len(nodes))
    BY <1>1, <1>4 DEF Typed
  <2>2. PICK full : full = [nds[cur] EXCEPT !.dirs = Append(@, e)]
    OBVIOUS
  <2>3. /\ full.subs = nds[cur].subs /\ full.label = nds[cur].label
        /\ full.dirs = Append(nds[cur].dirs, e)
    BY <2>1, <2>2 DEF NodeIn
  <2>4. all = [nds EXCEPT ![cur] = full]
    BY <1>1, <1>4, <1>6, <2>2 DEF DirLine
  <2>5. DOMAIN all = DOMAIN nds /\ all[cur] = full /\ \A p \in DOMAIN nds : p # cur => all[p] = nds[p]
    BY <1>4, <2>4
  <2> QED
    BY <2>3, <2>5
<1>8. /\ Len(all[cur].dirs) = n /\ all[cur].dirs[n] = e
      /\ \A j \in 1..k : all[cur].dirs[j] = nds[cur].dirs[j]
  <2>1. e \in Dir
    <3>1. \A l \in FileLine : l.kind = "dir" => l.what \in Dir
      BY DEF FileLine
    <3> QED
      BY <1>2, <1>6, <3>1
  <2>2. PICK more : more = Append(nds[cur].dirs, e)
    OBVIOUS
  <2>3. Len(more) = n /\ more[n] = e /\ \A j \in 1..k : more[j] = nds[cur].dirs[j]
    BY <1>5, <1>6, <2>1, <2>2
  <2> QED
    BY <1>7, <2>2, <2>3
<1>9. FilePaths(path, all)
  <2>1. \A m \in DOMAIN nds : \A i \in 1..Len(nds[m].subs) : nds[m].subs[i] \in DOMAIN nds
    BY <1>1, NodeLists DEF Subs
  <2>2. path \in [DOMAIN all -> Seq(Labels)]
    BY <1>3, <1>7 DEF FilePaths
  <2>3. ASSUME NEW m \in DOMAIN nds, NEW i \in 1..Len(all[m].subs)
        PROVE  path[all[m].subs[i]] = Append(path[m], all[all[m].subs[i]].label)
    <3>1. all[m].subs = nds[m].subs
      BY <1>7
    <3>2. PICK c \in DOMAIN nds : c = nds[m].subs[i]
      BY <2>1, <3>1
    <3>3. path[c] = Append(path[m], nds[c].label)
      BY <1>3, <3>1, <3>2 DEF FilePaths
    <3>4. all[c].label = nds[c].label
      BY <1>7
    <3> QED
      BY <3>1, <3>2, <3>3, <3>4
  <2> QED
    BY <1>7, <2>2, <2>3 DEF FilePaths
<1>10. PICK u, E, F : u = <<cur, n>> /\ E = FileTale(path, nds) /\ F = FileTale(path, all)
  OBVIOUS
<1>11. NodeUnits(all, cur) = NodeUnits(nds, cur) \union {u}
       /\ \A p \in DOMAIN nds : p # cur => NodeUnits(all, p) = NodeUnits(nds, p)
  <2>1. 1..n = (1..k) \union {n}
    BY <1>6
  <2> QED
    BY <1>5, <1>7, <1>8, <1>10, <2>1 DEF NodeUnits
<1>12. FileUnits(all) = FileUnits(nds) \union {u}
  <2>1. UNION {NodeUnits(all, p) : p \in DOMAIN nds}
        = (UNION {NodeUnits(nds, p) : p \in DOMAIN nds}) \union {u}
    BY ONLY <1>4, <1>11
  <2> QED
    BY <1>7, <2>1 DEF FileUnits
<1>13. u \notin FileUnits(nds) /\ n # 0
  <2>1. n \notin 1..k /\ n # 0
    BY <1>6
  <2>2. u[1] = cur /\ u[2] = n
    BY <1>10
  <2> QED
    BY <1>1, <1>5, <2>1, <2>2, UnitsTyped
<1>14. ASSUME NEW v \in FileUnits(nds) PROVE FileTold(path, all, v) = FileTold(path, nds, v)
  <2>1. CASE v[2] = 0
    BY <2>1 DEF FileTold
  <2>2. CASE v[2] # 0
    <3>1. v[1] \in DOMAIN nds /\ v[2] \in 1..Len(nds[v[1]].dirs)
      BY <1>1, <2>2, UnitsTyped
    <3>2. all[v[1]].dirs[v[2]] = nds[v[1]].dirs[v[2]]
      <4>1. CASE v[1] = cur
        BY <1>5, <1>8, <3>1, <4>1
      <4>2. CASE v[1] # cur
        BY <1>7, <3>1, <4>2
      <4> QED
        BY <4>1, <4>2
    <3> QED
      BY <2>2, <3>2 DEF FileTold
  <2> QED
    BY <2>1, <2>2
<1>15. Adds(E, {u}, F)
  BY <1>10, <1>12, <1>13, <1>14 DEF Adds, FileTale
<1>16. PICK tags : tags = path[open[1]]
  OBVIOUS
<1>17. F[u] = <<tags, line.kind, line.what>>
  <2>1. F[u] = FileTold(path, all, u)
    BY <1>10, <1>12 DEF FileTale
  <2>2. u[1] = cur /\ u[2] = n
    BY <1>10
  <2> QED
    BY <1>2, <1>4, <1>6, <1>8, <1>13, <1>16, <2>1, <2>2 DEF FileTold
<1>18. Spells(ls, E) /\ Ends(ls, tags) /\ line.kind # "close"
  BY <1>2, <1>3, <1>10, <1>16
<1>19. Spells(ls2, F)
  BY <1>2, <1>15, <1>17, <1>18, SpellsOne
<1>20. Ends(ls2, tags)
  <2>1. After(tags, line) = tags
    BY <1>2 DEF After
  <2> QED
    BY <1>2, <1>18, <2>1, OneLineEnds
<1>21. Parsed(all, open, ls2)
  BY <1>3, <1>9, <1>10, <1>16, <1>19, <1>20 DEF Parsed
<1> QED
  BY <1>1, <1>2, <1>21 DEF FileParsed

(* Nothing is read yet. *)
LEMMA ParsedNothing ==
  Parsed(<<NewNode(Default)>>, << 1 >>, <<>>)
<1>1. PICK nds, open : nds = <<NewNode(Default)>> /\ open = << 1 >>
  OBVIOUS
<1>2. /\ DOMAIN nds = {1} /\ Len(nds[1].subs) = 0 /\ Len(nds[1].dirs) = 0
      /\ Len(open) = 1 /\ open[1] = 1
  BY <1>1 DEF NewNode
<1> DEFINE path == [n \in {1} |-> <<>>]
<1>3. path \in [{1} -> Seq(Labels)] /\ path[1] = <<>>
  OBVIOUS
<1> HIDE DEF path
<1>4. FilePaths(path, nds) /\ OpenPath(path, open)
  BY <1>2, <1>3 DEF FilePaths, OpenPath
<1>5. FileUnits(nds) = {}
  BY <1>2 DEF FileUnits, NodeUnits
<1>6. DOMAIN FileTale(path, nds) = {}
  BY <1>5 DEF FileTale
<1>7. Ends(<<>>, <<>>)
  <2>1. Len(<<>>) = 0
    OBVIOUS
  <2> QED
    BY <2>1, OpenTagsIs DEF Ends
<1> QED
  BY <1>1, <1>2, <1>3, <1>4, <1>6, <1>7, SpellsNothing DEF Parsed

LEMMA ParsedNext == Typed /\ Typed' /\ FileParsed /\ [Next]_vars => FileParsed'
<1> SUFFICES ASSUME Typed, Typed', FileParsed, [Next]_vars PROVE FileParsed'
  OBVIOUS
<1>1. CASE OpenLine
  BY <1>1, ParsedOpens
<1>2. CASE CloseLine
  BY <1>2, ParsedCloses
<1>3. CASE DirLine
  BY <1>3, ParsedDirective
<1>4. CASE Rerun
  <2>1. nodes' = <<NewNode(Default)>> /\ ctxs' = << 1 >> /\ pos' = 0
    BY <1>4 DEF Rerun, Started
  <2>2. SubSeq(file', 1, 0) = <<>>
    BY SubSeqEmpty
  <2> QED
    BY <2>1, <2>2, ParsedNothing DEF FileParsed
<1>5. ASSUME UNCHANGED <<nodes, ctxs, file, pos>> PROVE FileParsed'
  BY <1>5 DEF FileParsed
<1>6. CASE BadClose \/ EndOfFile
  BY <1>5, <1>6 DEF BadClose, EndOfFile, tree, options
<1>7. CASE Statement \/ Return \/ Exit \/ Die
  <2>1. UNCHANGED Script
    BY <1>7 DEF Statement, DeleteCtxs, DeleteConfs, DeleteMaps, InsertRoot, SelectRoot,
                InsertConf, SelectConf, InsertMap, InsertCtx, SelectCtx, Return, Exit, Die
  <2> QED
    BY <1>5, <2>1 DEF Script, tree, options
<1>8. CASE UNCHANGED vars
  BY <1>5, <1>8 DEF vars
<1> QED
  BY <1>1, <1>2, <1>3, <1>4, <1>6, <1>7, <1>8 DEF Next, Step, Parse

-----------------------------------------------------------------------------
(* After an import of the whole file, the tables are the tree.               *)

FromFile ==
  /\ DOMAIN placed = DOMAIN nodes /\ 1 \in DOMAIN nodes
  /\ \A m, n \in DOMAIN nodes : placed[m] = placed[n] => m = n
  /\ \A n \in DOMAIN nodes : placed[n] \in Nat \ {Null} /\ RowOf(n).id = placed[n]
  /\ ctxTab = {RowOf(n) : n \in DOMAIN nodes}
  /\ RowOf(1).parent = Null
  /\ \A p \in DOMAIN nodes : \A i \in 1..Len(Subs(p)) :
       /\ Subs(p)[i] \in (DOMAIN nodes) \ {1}
       /\ RowOf(Subs(p)[i]).parent = placed[p]
       /\ RowOf(Subs(p)[i]).label = nodes[Subs(p)[i]].label
  /\ \A n \in (DOMAIN nodes) \ {1} : \E p \in DOMAIN nodes : \E i \in 1..Len(Subs(p)) : Subs(p)[i] = n

LEMMA ImportedWhole ==
  ASSUME Typed, Tree, Numbered, Walk, pc = "done", ~addConf, ctxs = << 1 >>, Apart
  PROVE  FromFile /\ \A n \in DOMAIN nodes : HasDirs(placed[n], Dirs(n))
<1>1. Places /\ Rows /\ ~Waiting
  BY DEF Walk, Walking, Waiting
<1>2. /\ DOMAIN placed = Walked
      /\ \A n \in Walked : HasDirs(placed[n], nodes[n].dirs)
  BY WalkEnds DEF Imported
<1>3. /\ DOMAIN nodes = 1..Len(nodes) /\ Len(nodes) \in Nat \ {0} /\ Current = 1
      /\ \A p \in DOMAIN nodes : Len(Subs(p)) \in Nat /\ Subs(p) \in Seq(1..Len(nodes))
  BY NodesTyped DEF Current, Subs
<1>4. DOMAIN placed = DOMAIN nodes /\ Walked = DOMAIN nodes /\ 1 \in DOMAIN nodes
  BY <1>2, <1>3 DEF Walked
<1>5. \A m, n \in DOMAIN nodes : placed[m] = placed[n] => m = n
  BY <1>1, <1>4 DEF Places
<1>6. \A n \in DOMAIN nodes : RowOf(n) \in ctxTab /\ RowOf(n).id = placed[n]
  BY <1>1, <1>4 DEF Rows, RowOf
<1>7. \A n \in DOMAIN nodes : placed[n] \in Nat \ {Null}
  <2>1. \A r \in ctxTab : r.id \in 1..lastCtx
    BY DEF Numbered
  <2>2. lastCtx \in Nat
    BY DEF Typed, TypeOK
  <2> QED
    BY <1>6, <2>1, <2>2 DEF Null
<1>8. ctxTab = {RowOf(n) : n \in DOMAIN nodes}
  BY <1>1, <1>4 DEF Rows
<1>9. RowOf(1).parent = Null
  BY <1>3 DEF RowOf
<1>10. ASSUME NEW p \in DOMAIN nodes, NEW i \in 1..Len(Subs(p))
       PROVE  /\ Subs(p)[i] \in (DOMAIN nodes) \ {1}
              /\ RowOf(Subs(p)[i]).parent = placed[p]
              /\ RowOf(Subs(p)[i]).label = nodes[Subs(p)[i]].label
  <2>1. Subs(p)[i] > p
    BY DEF Tree, Listed
  <2>2. Subs(p)[i] \in 1..Len(nodes)
    BY <1>3
  <2>3. Subs(p)[i] \in (DOMAIN nodes) \ {1}
    BY <1>3, <2>1, <2>2
  <2>4. Up(Subs(p)[i]) = p
    BY UpIs
  <2> QED
    BY <1>3, <2>3, <2>4 DEF RowOf
<1>11. \A n \in (DOMAIN nodes) \ {1} : \E p \in DOMAIN nodes : \E i \in 1..Len(Subs(p)) : Subs(p)[i] = n
  BY <1>1, <1>3, <1>4 DEF Places
<1>12. FromFile
  BY <1>4, <1>5, <1>6, <1>7, <1>8, <1>9, <1>10, <1>11 DEF FromFile
<1>13. \A n \in DOMAIN nodes : HasDirs(placed[n], Dirs(n))
  BY <1>2, <1>4 DEF Dirs
<1> QED
  BY <1>12, <1>13

(* The context of the file that each row stands for. *)
StandsFor(g) ==
  /\ g \in [Values(placed) -> DOMAIN nodes]
  /\ \A n \in DOMAIN nodes : g[placed[n]] = n
  /\ \A c \in Values(placed) : placed[g[c]] = c

LEMMA StandFor ==
  ASSUME FromFile
  PROVE  /\ \E g : StandsFor(g)
         /\ Values(placed) = {r.id : r \in ctxTab}
<1>1. /\ DOMAIN placed = DOMAIN nodes
      /\ \A m, n \in DOMAIN nodes : placed[m] = placed[n] => m = n
      /\ \A n \in DOMAIN nodes : RowOf(n).id = placed[n]
      /\ ctxTab = {RowOf(n) : n \in DOMAIN nodes}
  BY DEF FromFile
<1>2. Values(placed) = {placed[n] : n \in DOMAIN nodes}
  BY <1>1 DEF Values
<1>3. Values(placed) = {r.id : r \in ctxTab}
  BY <1>1, <1>2
<1> DEFINE g == [c \in Values(placed) |-> CHOOSE n \in DOMAIN nodes : placed[n] = c]
<1>4. \A c \in Values(placed) : g[c] \in DOMAIN nodes /\ placed[g[c]] = c
  BY <1>2
<1>5. g \in [Values(placed) -> DOMAIN nodes]
  BY <1>4
<1>6. \A n \in DOMAIN nodes : placed[n] \in Values(placed)
  BY <1>2
<1> HIDE DEF g
<1>7. \A n \in DOMAIN nodes : g[placed[n]] = n
  BY <1>1, <1>4, <1>6
<1> QED
  BY <1>3, <1>4, <1>5, <1>7 DEF StandsFor

(* The tags around each context of the file are those that lead to its row.  *)
LEMMA FileRouted ==
  ASSUME Typed, FromFile, NEW path, FilePaths(path, nodes), path[1] = <<>>,
         NEW g, StandsFor(g), NEW sh, \A n \in DOMAIN nodes : sh[nodes[n].label] = nodes[n].label,
         NEW P, P = [c \in Values(placed) |-> path[g[c]]]
  PROVE  Routed(P, Labels, sh, RowOf(1)) /\ \A n \in DOMAIN nodes : P[placed[n]] = path[n]
<1>1. /\ DOMAIN placed = DOMAIN nodes /\ 1 \in DOMAIN nodes
      /\ \A n \in DOMAIN nodes : placed[n] \in Nat \ {Null} /\ RowOf(n).id = placed[n]
      /\ ctxTab = {RowOf(n) : n \in DOMAIN nodes}
      /\ RowOf(1).parent = Null
  BY DEF FromFile
<1>2. \A n \in DOMAIN nodes : placed[n] \in Values(placed)
  BY <1>1 DEF Values
<1>3. \A n \in DOMAIN nodes : P[placed[n]] = path[n]
  BY <1>2 DEF StandsFor
<1>4. ASSUME NEW n \in (DOMAIN nodes) \ {1}
      PROVE  /\ RowOf(n).parent # Null
             /\ P[RowOf(n).id] = Append(P[RowOf(n).parent], sh[RowOf(n).label])
  <2>1. PICK p \in DOMAIN nodes : \E i \in 1..Len(Subs(p)) : Subs(p)[i] = n
    BY DEF FromFile
  <2>2. PICK i \in 1..Len(Subs(p)) : Subs(p)[i] = n
    BY <2>1
  <2>3. RowOf(n).parent = placed[p] /\ RowOf(n).label = nodes[n].label
    BY <2>2 DEF FromFile
  <2>4. path[n] = Append(path[p], nodes[n].label)
    BY <2>2 DEF FilePaths, Subs
  <2>5. P[RowOf(n).id] = path[n] /\ P[RowOf(n).parent] = path[p]
    BY <1>1, <1>3, <2>3
  <2> QED
    BY <1>1, <2>3, <2>4, <2>5
<1>5. ASSUME NEW r \in ctxTab
      PROVE  /\ P[r.id] \in Seq(Labels)
             /\ P[r.id] = IF r.parent = Null THEN <<>> ELSE Append(P[r.parent], sh[r.label])
             /\ r.parent = Null => r = RowOf(1)
  <2>1. PICK n \in DOMAIN nodes : r = RowOf(n)
    BY <1>1
  <2>2. P[r.id] = path[n] /\ path[n] \in Seq(Labels)
    BY <1>1, <1>3, <2>1 DEF FilePaths
  <2>3. CASE n = 1
    BY <1>1, <2>1, <2>2, <2>3
  <2>4. CASE n # 1
    BY <1>4, <2>1, <2>2, <2>4
  <2> QED
    BY <2>3, <2>4
<1>6. RootsOf(ctxTab) = {RowOf(1)}
  BY <1>1, <1>5 DEF RootsOf
<1>7. Paths(P, Labels, sh)
  BY <1>5 DEF Paths
<1> QED
  BY <1>3, <1>6, <1>7 DEF Routed

(* All rows are below the root. *)
LEMMA FileBelow ==
  ASSUME Typed, Tree, FromFile, ctxs = << 1 >>
  PROVE  Below(ctxTab, RowOf(1).id) = Values(placed)
<1>1. /\ DOMAIN placed = DOMAIN nodes /\ 1 \in DOMAIN nodes
      /\ \A n \in DOMAIN nodes : RowOf(n).id = placed[n]
      /\ ctxTab = {RowOf(n) : n \in DOMAIN nodes}
      /\ \A p \in DOMAIN nodes : \A i \in 1..Len(Subs(p)) :
           Subs(p)[i] \in DOMAIN nodes /\ RowOf(Subs(p)[i]).parent = placed[p]
  BY DEF FromFile
<1>2. Values(placed) = {r.id : r \in ctxTab}
  BY StandFor
<1>3. Values(placed) = {placed[n] : n \in DOMAIN nodes}
  BY <1>1 DEF Values
<1>4. ASSUME NEW S \in SUBSET {r.id : r \in ctxTab}, RowOf(1).id \in S,
             \A r \in ctxTab : r.parent \in S => r.id \in S,
             NEW x \in Values(placed)
      PROVE  x \in S
  <2>1. PICK N : N = {n \in DOMAIN nodes : placed[n] \in S}
    OBVIOUS
  <2>2. ClosedUnderSubs(N)
    <3> SUFFICES ASSUME NEW p \in N, NEW i \in 1..Len(Subs(p)) PROVE Subs(p)[i] \in N
      BY DEF ClosedUnderSubs
    <3>1. p \in DOMAIN nodes /\ placed[p] \in S
      BY <2>1
    <3>2. PICK n : n = Subs(p)[i]
      OBVIOUS
    <3>3. n \in DOMAIN nodes /\ RowOf(n).parent = placed[p] /\ RowOf(n) \in ctxTab
      BY <1>1, <3>1, <3>2
    <3>4. RowOf(n).id \in S
      BY <1>4, <3>1, <3>3
    <3>5. placed[n] \in S
      BY <1>1, <3>3, <3>4
    <3> QED
      BY <2>1, <3>2, <3>3, <3>5
  <2>3. 1 \in N /\ N \in SUBSET DOMAIN nodes
    BY <1>1, <1>4, <2>1
  <2>4. 1 \in 1..Len(ctxs) /\ ctxs[1] = 1
    OBVIOUS
  <2>5. \A n \in DOMAIN nodes : n >= 1
    BY NodesTyped
  <2>6. \A n \in DOMAIN nodes : n \in N
    BY <2>2, <2>3, <2>4, <2>5 DEF Tree, Reachable
  <2> QED
    BY <1>3, <2>1, <2>6
<1> QED
  BY <1>2, <1>4 DEF Below

(* The k-th directive of a context is what its k-th mapping maps. *)
Mapping(at, n) ==
  /\ OneToOne(at, 1..Len(nodes[n].dirs), MapsTo(placed[n]))
  /\ \A k \in 1..Len(nodes[n].dirs) : DirOf(mapTab[at[k]].conf) = nodes[n].dirs[k]

LEMMA DirsMapped ==
  ASSUME Typed, NEW lab, NEW dir, Remembered(lab, dir),
         NEW n \in DOMAIN nodes, HasDirs(placed[n], Dirs(n))
  PROVE  \E at : Mapping(at, n)
<1>1. PICK k \in Nat : k = Len(nodes[n].dirs)
  <2>1. Len(nodes[n].dirs) \in Nat
    BY NodesTyped
  <2> QED
    BY ONLY <2>1, Zenon
<1>2. PICK at \in [1..k -> DOMAIN mapTab] :
        /\ \A i, j \in 1..k : i < j => at[i] < at[j]
        /\ Values(at) = {m \in DOMAIN mapTab : mapTab[m].ctx = placed[n]}
        /\ \A i \in 1..k : DirsWith(mapTab[at[i]].conf) = {nodes[n].dirs[i]}
  BY <1>1 DEF HasDirs, Gives, Dirs
<1>3. DOMAIN mapTab \subseteq Nat
  BY DEF Typed, TypeOK
<1>4. ASSUME NEW i \in 1..k, NEW j \in 1..k, at[i] = at[j] PROVE i = j
  <2>1. at[i] \in Nat /\ at[j] \in Nat
    BY <1>2, <1>3
  <2>2. ~(i < j) /\ ~(j < i)
    BY <1>2, <1>4, <2>1
  <2> QED
    BY <2>2
<1>5. ASSUME NEW i \in 1..k
      PROVE  /\ DirOf(mapTab[at[i]].conf) = nodes[n].dirs[i]
             /\ \E x \in confTab : x.id = mapTab[at[i]].conf
  <2>1. nodes[n].dirs[i] \in DirsWith(mapTab[at[i]].conf)
    BY <1>2
  <2>2. PICK c \in confTab : c.id = mapTab[at[i]].conf /\ c.dir = nodes[n].dirs[i]
    BY <2>1 DEF DirsWith
  <2>3. DirOf(c.id) = c.dir
    BY DirOfRow
  <2> QED
    BY <2>2, <2>3
<1>6. Values(at) = {at[i] : i \in 1..k}
  BY DEF Values
<1>7. MapsTo(placed[n]) = {at[i] : i \in 1..k}
  BY <1>2, <1>5, <1>6 DEF MapsTo
<1>8. OneToOne(at, 1..k, MapsTo(placed[n]))
  BY <1>2, <1>4, <1>7 DEF OneToOne
<1> QED
  BY <1>1, <1>5, <1>8 DEF Mapping

(* The units of the file and those of the tables, one for one. *)
Matches(f, at) ==
  /\ f \in [FileUnits(nodes) -> UnitsOf(Values(placed), Values(placed), RowOf(1))]
  /\ \A u \in FileUnits(nodes) :
       f[u] = <<placed[u[1]], IF u[2] = 0 THEN 0 ELSE at[u[1]][u[2]]>>

MappingAll(at) == \A n \in DOMAIN nodes : Mapping(at[n], n)

LEMMA MappingIs ==
  ASSUME Typed, NEW at, MappingAll(at), NEW n \in DOMAIN nodes
  PROVE  /\ \A k \in 1..Len(nodes[n].dirs) : at[n][k] \in MapsTo(placed[n]) /\ at[n][k] # 0
         /\ \A j, k \in 1..Len(nodes[n].dirs) : at[n][j] = at[n][k] => j = k
         /\ \A i \in MapsTo(placed[n]) : \E k \in 1..Len(nodes[n].dirs) : at[n][k] = i
         /\ \A k \in 1..Len(nodes[n].dirs) : DirOf(mapTab[at[n][k]].conf) = nodes[n].dirs[k]
<1>1. Mapping(at[n], n)
  BY DEF MappingAll
<1>2. \A i \in MapsTo(placed[n]) : i # 0
  BY DEF MapsTo, Typed, TypeOK
<1> QED
  BY <1>1, <1>2 DEF Mapping, OneToOne

LEMMA FileMatches ==
  ASSUME Typed, FromFile, NEW at, MappingAll(at)
  PROVE  \E f : Matches(f, at)
<1> DEFINE T == UnitsOf(Values(placed), Values(placed), RowOf(1))
           f == [u \in FileUnits(nodes) |-> <<placed[u[1]], IF u[2] = 0 THEN 0 ELSE at[u[1]][u[2]]>>]
<1>1. /\ DOMAIN placed = DOMAIN nodes /\ 1 \in DOMAIN nodes /\ RowOf(1).id = placed[1]
      /\ \A m, n \in DOMAIN nodes : placed[m] = placed[n] => m = n
  BY DEF FromFile
<1>2. \A n \in DOMAIN nodes : placed[n] \in Values(placed)
  BY <1>1 DEF Values
<1>3. ASSUME NEW u \in FileUnits(nodes) PROVE f[u] \in T
  <2>1. u[1] \in DOMAIN nodes
    BY UnitsTyped
  <2>2. CASE u = <<u[1], 0>> /\ u[1] # 1
    <3>1. placed[u[1]] \in Values(placed) \ {RowOf(1).id}
      BY <1>1, <1>2, <2>1, <2>2
    <3>2. u[2] = 0
      BY <2>2
    <3>3. f[u] = <<placed[u[1]], 0>>
      BY <3>2
    <3> QED
      BY <3>1, <3>3 DEF UnitsOf, TagUnits
  <2>3. CASE u[2] # 0 /\ u[2] \in 1..Len(nodes[u[1]].dirs)
    <3>1. at[u[1]][u[2]] \in MapsTo(placed[u[1]])
      BY <2>1, <2>3, MappingIs
    <3>2. f[u] = <<placed[u[1]], at[u[1]][u[2]]>>
      BY <2>3
    <3>3. f[u] \in DirUnits(placed[u[1]])
      BY <3>1, <3>2 DEF DirUnits
    <3> QED
      BY <1>2, <2>1, <3>3 DEF UnitsOf
  <2> QED
    BY <2>2, <2>3, UnitsTyped
<1>4. f \in [FileUnits(nodes) -> T]
  BY <1>3
<1>5. \A u \in FileUnits(nodes) :
        f[u] = <<placed[u[1]], IF u[2] = 0 THEN 0 ELSE at[u[1]][u[2]]>>
  OBVIOUS
<1> HIDE DEF f
<1>6. Matches(f, at)
  BY <1>4, <1>5 DEF Matches
<1> QED
  BY <1>6

LEMMA UnitsMatch ==
  ASSUME Typed, FromFile, NEW at, MappingAll(at), NEW f, Matches(f, at)
  PROVE  OneToOne(f, FileUnits(nodes), UnitsOf(Values(placed), Values(placed), RowOf(1)))
<1>1. /\ DOMAIN placed = DOMAIN nodes /\ 1 \in DOMAIN nodes /\ RowOf(1).id = placed[1]
      /\ \A m, n \in DOMAIN nodes : placed[m] = placed[n] => m = n
  BY DEF FromFile
<1>2. Values(placed) = {placed[n] : n \in DOMAIN nodes}
  BY <1>1 DEF Values
<1>3. \A u \in FileUnits(nodes) :
        f[u] = <<placed[u[1]], IF u[2] = 0 THEN 0 ELSE at[u[1]][u[2]]>>
  BY DEF Matches
<1>4. ASSUME NEW u \in FileUnits(nodes)
      PROVE  /\ u[1] \in DOMAIN nodes /\ u = <<u[1], u[2]>>
             /\ u[2] = 0 => u[1] # 1
             /\ u[2] # 0 => u[2] \in 1..Len(nodes[u[1]].dirs) /\ at[u[1]][u[2]] # 0
  <2>1. u[1] \in DOMAIN nodes
    BY UnitsTyped
  <2>2. CASE u = <<u[1], 0>> /\ u[1] # 1
    BY <2>1, <2>2
  <2>3. CASE u = <<u[1], u[2]>> /\ u[2] # 0 /\ u[2] \in 1..Len(nodes[u[1]].dirs)
    BY <2>1, <2>3, MappingIs
  <2> QED
    BY <2>2, <2>3, UnitsTyped
<1>5. ASSUME NEW u \in FileUnits(nodes), NEW v \in FileUnits(nodes), f[u] = f[v] PROVE u = v
  <2>1. PICK a, b : a = (IF u[2] = 0 THEN 0 ELSE at[u[1]][u[2]]) /\ b = IF v[2] = 0 THEN 0 ELSE at[v[1]][v[2]]
    OBVIOUS
  <2>2. placed[u[1]] = placed[v[1]] /\ a = b
    BY <1>3, <1>5, <2>1
  <2>3. u[1] = v[1]
    BY <1>1, <1>4, <2>2
  <2>4. PICK n \in DOMAIN nodes : n = u[1] /\ n = v[1]
    BY <1>4, <2>3
  <2>5. \A j, k \in 1..Len(nodes[n].dirs) : at[n][j] = at[n][k] => j = k
    BY MappingIs
  <2>6. u[2] = v[2]
    BY <1>4, <2>1, <2>2, <2>4, <2>5
  <2> QED
    BY <1>4, <2>3, <2>6
<1>6. ASSUME NEW v \in UnitsOf(Values(placed), Values(placed), RowOf(1))
      PROVE  \E u \in FileUnits(nodes) : f[u] = v
  <2>1. CASE v \in TagUnits(Values(placed), RowOf(1))
    <3>1. PICK c \in Values(placed) \ {RowOf(1).id} : v = <<c, 0>>
      BY <2>1 DEF TagUnits
    <3>2. PICK n \in DOMAIN nodes : c = placed[n]
      BY <1>2
    <3>3. n # 1
      BY <1>1, <3>1, <3>2
    <3>4. PICK u : u = <<n, 0>>
      OBVIOUS
    <3>5. u \in FileUnits(nodes) /\ u[1] = n /\ u[2] = 0
      BY <3>3, <3>4 DEF FileUnits
    <3> QED
      BY <1>3, <3>1, <3>2, <3>5
  <2>2. CASE v \in UNION {DirUnits(c) : c \in Values(placed)}
    <3>1. PICK c \in Values(placed) : v \in DirUnits(c)
      BY <2>2
    <3>2. PICK i \in MapsTo(c) : v = <<c, i>>
      BY <3>1 DEF DirUnits
    <3>3. PICK n \in DOMAIN nodes : c = placed[n]
      BY <1>2
    <3>4. PICK k \in 1..Len(nodes[n].dirs) : at[n][k] = i
      <4>1. \A j \in MapsTo(placed[n]) : \E k \in 1..Len(nodes[n].dirs) : at[n][k] = j
        BY MappingIs
      <4> QED
        BY <3>2, <3>3, <4>1
    <3>5. PICK u : u = <<n, k>>
      OBVIOUS
    <3>6. u \in FileUnits(nodes) /\ u[1] = n /\ u[2] = k /\ k # 0
      BY <3>5, UnitsTyped
    <3> QED
      BY <1>3, <3>2, <3>3, <3>4, <3>6
  <2> QED
    BY <2>1, <2>2 DEF UnitsOf
<1> QED
  BY <1>5, <1>6 DEF OneToOne, Matches

(* What the file tells of a unit is what the tables tell of it. *)
SamePaths(path, P) == \A n \in DOMAIN nodes : P[placed[n]] = path[n]

LEMMA SameTold ==
  ASSUME Typed, FromFile, NEW at, MappingAll(at), NEW f, Matches(f, at),
         NEW path, NEW P, SamePaths(path, P), NEW u \in FileUnits(nodes)
  PROVE  FileTold(path, nodes, u) = Told(P, f[u])
<1>1. f[u] = <<placed[u[1]], IF u[2] = 0 THEN 0 ELSE at[u[1]][u[2]]>> /\ u[1] \in DOMAIN nodes
  BY UnitsTyped DEF Matches
<1>2. PICK n, k, v : /\ n = u[1] /\ k = u[2] /\ v = f[u] /\ n \in DOMAIN nodes
                      /\ v = <<placed[n], IF k = 0 THEN 0 ELSE at[n][k]>>
  BY <1>1
<1>3. v[1] = placed[n] /\ v[2] = (IF k = 0 THEN 0 ELSE at[n][k]) /\ P[v[1]] = path[n]
  BY <1>2 DEF SamePaths
<1>4. CASE k = 0
  BY <1>2, <1>3, <1>4 DEF FileTold, Told
<1>5. CASE k # 0
  <2>1. k \in 1..Len(nodes[n].dirs)
    BY <1>2, <1>5, UnitsTyped
  <2>2. at[n][k] # 0 /\ DirOf(mapTab[at[n][k]].conf) = nodes[n].dirs[k]
    <3>1. \A i \in 1..Len(nodes[n].dirs) :
            at[n][i] # 0 /\ DirOf(mapTab[at[n][i]].conf) = nodes[n].dirs[i]
      BY <1>2, MappingIs
    <3> QED
      BY <2>1, <3>1
  <2>3. v[2] # 0 /\ v[2] = at[n][k]
    BY <1>3, <1>5, <2>2
  <2> QED
    BY <1>2, <1>3, <1>5, <2>2, <2>3 DEF FileTold, Told
<1> QED
  BY <1>4, <1>5

(* What all three spell: the units of the tables, with the tags around them. *)
AllTold(P, root) == Tale(P, UnitsOf(Below(ctxTab, root.id), Below(ctxTab, root.id), root))

LEMMA FileTells ==
  ASSUME Typed, Tree, Numbered, Walk, pc = "done", ~addConf, ctxs = << 1 >>, Apart,
         NEW lab, NEW dir, Remembered(lab, dir), FileParsed,
         NEW sh, \A n \in DOMAIN nodes : sh[nodes[n].label] = nodes[n].label
  PROVE  \E P, root : Routed(P, Labels, sh, root) /\ Spells(SubSeq(file, 1, pos), AllTold(P, root))
<1>1. FromFile /\ \A n \in DOMAIN nodes : HasDirs(placed[n], Dirs(n))
  BY ImportedWhole
<1>2. PICK ls : ls = SubSeq(file, 1, pos)
  OBVIOUS
<1>3. PICK path : FilePaths(path, nodes) /\ OpenPath(path, ctxs) /\ Spells(ls, FileTale(path, nodes))
  BY <1>2 DEF FileParsed, Parsed
<1>4. path[1] = <<>>
  BY <1>3 DEF OpenPath
<1>5. PICK g : StandsFor(g)
  BY <1>1, StandFor
<1>6. PICK P : P = [c \in Values(placed) |-> path[g[c]]]
  OBVIOUS
<1>7. Routed(P, Labels, sh, RowOf(1)) /\ \A n \in DOMAIN nodes : P[placed[n]] = path[n]
  BY <1>1, <1>3, <1>4, <1>5, <1>6, FileRouted
<1>8. Below(ctxTab, RowOf(1).id) = Values(placed)
  BY <1>1, FileBelow
<1>9. \E at : MappingAll(at)
  <2> DEFINE at == [n \in DOMAIN nodes |-> CHOOSE a : Mapping(a, n)]
  <2>1. \A n \in DOMAIN nodes : \E a : Mapping(a, n)
    BY <1>1, DirsMapped
  <2>2. \A n \in DOMAIN nodes : at[n] = CHOOSE a : Mapping(a, n)
    OBVIOUS
  <2> HIDE DEF at
  <2>3. \A n \in DOMAIN nodes : Mapping(at[n], n)
    BY <2>1, <2>2, Zenon
  <2> QED
    BY <2>3 DEF MappingAll
<1>10. PICK at : MappingAll(at)
  BY <1>9
<1>11. PICK f : Matches(f, at)
  BY <1>1, <1>10, FileMatches
<1>12. PICK A, E, F : /\ A = UnitsOf(Values(placed), Values(placed), RowOf(1))
                      /\ E = FileTale(path, nodes) /\ F = Tale(P, A)
  OBVIOUS
<1>13. DOMAIN E = FileUnits(nodes) /\ DOMAIN F = A /\ AllTold(P, RowOf(1)) = F
  BY <1>8, <1>12 DEF FileTale, Tale, AllTold
<1>14. OneToOne(f, DOMAIN E, DOMAIN F)
  BY <1>1, <1>10, <1>11, <1>12, <1>13, UnitsMatch
<1>15. \A u \in DOMAIN E : E[u] = F[f[u]]
  <2> SUFFICES ASSUME NEW u \in DOMAIN E PROVE E[u] = F[f[u]]
    OBVIOUS
  <2>1. u \in FileUnits(nodes) /\ f[u] \in A
    BY <1>13, <1>14 DEF OneToOne
  <2>2. E[u] = FileTold(path, nodes, u) /\ F[f[u]] = Told(P, f[u])
    BY <1>12, <2>1 DEF FileTale, Tale
  <2>3. SamePaths(path, P)
    BY <1>7 DEF SamePaths
  <2>4. FileTold(path, nodes, u) = Told(P, f[u])
    BY <1>1, <1>10, <1>11, <2>1, <2>3, SameTold
  <2> QED
    BY <2>2, <2>4
<1>16. Spells(ls, F)
  BY <1>3, <1>12, <1>14, <1>15, SpellsVia
<1> QED
  BY <1>2, <1>7, <1>13, <1>16

(* So what the readers spell means what the file means. *)
LEMMA FileRead ==
  ASSUME Typed
  PROVE  SubSeq(file, 1, pos) \in Seq(FileLine)
<1>1. file \in Seq(FileLine) /\ pos \in 0..Len(file) /\ Len(file) \in Nat
  BY DEF Typed, TypeOK
<1>2. \A i \in 1..pos : file[i] \in FileLine
  BY <1>1
<1>3. 1 \in Int /\ pos \in Int
  BY <1>1
<1> QED
  BY <1>2, <1>3, SubSeqProperties

LEMMA WiderLines ==
  ASSUME NEW S, NEW T, NEW A \in Seq(S), NEW B \in Seq(T)
  PROVE  \E U : A \in Seq(U) /\ B \in Seq(U)
<1>1. PICK U : U = S \union T
  OBVIOUS
<1>2. A \in Seq(U) /\ B \in Seq(U)
  BY <1>1
<1> QED
  BY <1>2

LEMMA SpeltAlike ==
  ASSUME NEW S, NEW T, NEW A \in Seq(S), NEW B \in Seq(T), NEW E, Spells(A, E), Spells(B, E)
  PROVE  Meaning(A) = Meaning(B)
<1>1. PICK U : A \in Seq(U) /\ B \in Seq(U)
  BY WiderLines
<1> QED
  BY <1>1, SameMeaning

(* What the server loaded, in the words of its rows. *)
LEMMA ServerSpells ==
  ASSUME lines \in Seq(ServerLine)
  PROVE  ServerText = AsText(lines) /\ AsText(lines) \in Seq(LinesAs)
<1>1. ServerText = AsText(lines)
  BY DEF ServerText, AsText, LineAs
<1>2. PICK l \in ServerLine : TRUE
  <2>1. [kind |-> "open", ctx |-> 0, dir |-> 0] \in ServerLine
    BY DEF ServerLine
  <2> QED
    BY <2>1
<1> QED
  BY <1>1, <1>2, AsTextMore

(* A reader delivers what the file means. *)
SameInTables == pc = "done" /\ ~addConf /\ ctxs = << 1 >> /\ Apart

ShownAsIs == \A n \in DOMAIN nodes : Shown[nodes[n].label] = nodes[n].label

Imports == FileParsed /\ ConfNumbered /\ Walk

LEMMA FileTellsAs ==
  ASSUME ReadersTold, Imports, SameInTables,
         NEW sh, \A n \in DOMAIN nodes : sh[nodes[n].label] = nodes[n].label
  PROVE  \E P, root : Routed(P, Labels, sh, root) /\ Spells(SubSeq(file, 1, pos), AllTold(P, root))
<1>1. Typed /\ Tree /\ Numbered /\ NamesKept
  BY DEF ReadersTold, Owed, Kept, Orderly, Trees
<1>2. PICK lab, dir : Remembered(lab, dir)
  BY <1>1 DEF NamesKept
<1> QED
  BY <1>1, <1>2, FileTells DEF Imports, SameInTables

LEMMA ExportMeans ==
  ASSUME ReadersTold, Imports, SameInTables, Served, reader = "export", ShownAsIs
  PROVE  Meaning(Delivered) = Meaning(SubSeq(file, 1, pos))
<1>1. Typed /\ Apiece /\ ExportOwed /\ ExportTold /\ Printed
  BY DEF ReadersTold, Owed, Kept, Orderly
<1>2. step = "end" /\ quiet
  BY <1>1 DEF Apiece, Served
<1>3. walk = <<>> /\ output = text
  BY <1>1, <1>2 DEF ExportOwed
<1>4. PICK ls : ls = SubSeq(file, 1, pos)
  OBVIOUS
<1>5. \A n \in DOMAIN nodes : Shown[nodes[n].label] = nodes[n].label
  BY DEF ShownAsIs
<1>6. PICK P, root : Routed(P, Labels, Shown, root) /\ Spells(ls, AllTold(P, root))
  BY <1>4, <1>5, FileTellsAs
<1>7. Tells(walk, {}, text, P, root)
  BY <1>1, <1>2, <1>6 DEF ExportTold, ExportTells
<1>8. PICK W, L : W = walk /\ L = text
  OBVIOUS
<1>9. Len(W) = 0 /\ Tells(W, {}, L, P, root)
  BY <1>3, <1>7, <1>8
<1>10. Spells(L, AllTold(P, root))
  BY <1>9, TellsAll DEF AllTold
<1>11. L \in Seq(TextLine) /\ ls \in Seq(FileLine)
  BY <1>1, <1>4, <1>8, FileRead DEF Printed
<1>12. Meaning(L) = Meaning(ls)
  BY <1>6, <1>10, <1>11, SpeltAlike
<1> QED
  BY <1>3, <1>4, <1>8, <1>12 DEF Delivered

LEMMA ServerMeans ==
  ASSUME ReadersTold, Imports, SameInTables, Served, reader = "server"
  PROVE  Meaning(Delivered) = Meaning(SubSeq(file, 1, pos))
<1>1. Typed /\ Apiece /\ ServerOwed /\ ServerTold
  BY DEF ReadersTold, Owed, Kept, Orderly
<1>2. pcS = "done" /\ quiet
  BY <1>1 DEF Apiece, Served
<1>3. stack = <<>> /\ lines \in Seq(ServerLine)
  BY <1>1, <1>2 DEF ServerOwed
<1>4. PICK ls : ls = SubSeq(file, 1, pos)
  OBVIOUS
<1>5. \A n \in DOMAIN nodes : AsIs[nodes[n].label] = nodes[n].label
  BY <1>1, NodesTyped DEF AsIs
<1>6. PICK P, root : Routed(P, Labels, AsIs, root) /\ Spells(ls, AllTold(P, root))
  BY <1>4, <1>5, FileTellsAs
<1>7. Reported(stack, lines, P, root)
  BY <1>1, <1>2, <1>6 DEF ServerTold, ServerTells
<1>8. PICK W, L, Y : W = View(stack) /\ L = AsText(lines) /\ Y = Pushed(stack)
  OBVIOUS
<1>9. Tells(W, Y, L, P, root)
  BY <1>7, <1>8 DEF Reported
<1>10. Len(stack) = 0
  BY <1>3
<1>11. Len(W) = 0
  BY <1>8, <1>10, ViewOf
<1>12. Y = {}
  BY <1>8, <1>10 DEF Pushed
<1>13. Spells(L, AllTold(P, root))
  BY <1>9, <1>11, <1>12, TellsAll DEF AllTold
<1>14. L \in Seq(LinesAs) /\ ls \in Seq(FileLine) /\ ServerText = L
  BY <1>1, <1>3, <1>4, <1>8, FileRead, ServerSpells
<1>15. Meaning(L) = Meaning(ls)
  BY <1>6, <1>13, <1>14, SpeltAlike
<1>16. Delivered = ServerText
  BY DEF Delivered
<1> QED
  BY <1>4, <1>14, <1>15, <1>16

(* What is imported comes back: for all files, after any number of imports   *)
(* that ended or died, either reader delivers the tags and directives of the *)
(* file that was imported last, each as often and within the same tags, if   *)
(* that import deleted what was there, all sections are closed and no two    *)
(* siblings have the same tag, if nobody writes after the reader's first     *)
(* query, and, for sql2conf.pl, if it prints the tags as they are.           *)
THEOREM ComesBack == RoundTripSpec => []EndToEnd
<1>1. ReadersTold /\ Imports => EndToEnd
  <2> SUFFICES ASSUME ReadersTold, Imports, Served, SameInTables,
                      reader = "export" => ShownAsIs
               PROVE  Meaning(Delivered) = Meaning(SubSeq(file, 1, pos))
    BY DEF EndToEnd, SameInTables, ShownAsIs
  <2>1. reader \in {"server", "export"}
    BY DEF ReadersTold, Owed, Apiece
  <2> QED
    BY <2>1, ExportMeans, ServerMeans
<1>2. RoundTripInit => ReadersTold /\ Imports
  <2> SUFFICES ASSUME RoundTripInit PROVE ReadersTold /\ Imports
    OBVIOUS
  <2>1. /\ nodes = <<NewNode(Default)>> /\ ctxs = << 1 >> /\ pos = 0 /\ pc = "parse"
        /\ confTab = {} /\ placed = <<>>
    BY DEF RoundTripInit, Init, Started
  <2>2. SubSeq(file, 1, 0) = <<>>
    BY SubSeqEmpty
  <2>3. FileParsed
    BY <2>1, <2>2, ParsedNothing DEF FileParsed
  <2>4. ConfNumbered /\ Walk
    BY <2>1 DEF ConfNumbered, Walk, Cleared
  <2> QED
    BY <2>3, <2>4, ReadersToldInitially DEF Imports
<1>3. ReadersTold /\ Imports /\ [RoundTripNext]_allVars => (ReadersTold /\ Imports)'
  <2> SUFFICES ASSUME ReadersTold, Imports, [RoundTripNext]_allVars
               PROVE  ReadersTold' /\ Imports'
    OBVIOUS
  <2>1. ReadersTold'
    BY ReadersToldNext
  <2>2. Typed /\ Tree /\ Trees /\ Mapped /\ FileParsed /\ ConfNumbered /\ Walk
    BY DEF ReadersTold, Owed, Kept, Orderly, Imports
  <2>3. Typed'
    BY <2>1 DEF ReadersTold, Owed, Kept, Orderly
  <2>4. [Next]_vars
    BY ImporterMoves DEF allVars
  <2>5. FileParsed'
    BY <2>2, <2>3, <2>4, ParsedNext
  <2>6. ConfNumbered' /\ Walk'
    BY <2>2, <2>4, ConfNumberedNext, WalkNext
  <2> QED
    BY <2>1, <2>5, <2>6 DEF Imports
<1> QED
  BY <1>1, <1>2, <1>3, PTL DEF RoundTripSpec
=============================================================================
