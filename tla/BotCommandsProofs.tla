------------------------- MODULE BotCommandsProofs -------------------------
(***************************************************************************)
(* setMyCommands takes a list exactly when it is meaningful, and what the  *)
(* row holds can be set again, for texts of every length, every limit and  *)
(* every set of requests. The argument is about the texts: a name that     *)
(* passes the pattern is a text of name characters, after a slash or not,  *)
(* so that trimming, cutting at a space and removing characters leave it   *)
(* as it is (NormalOfName), and normalisation of what is stored changes    *)
(* nothing (NormalIsStored).                                               *)
(***************************************************************************)
EXTENDS BotCommands, FiniteSetTheorems, WellFoundedInduction, TLAPS

-----------------------------------------------------------------------------
\* A set of places has a least one.
LEMMA LeastPlace ==
  ASSUME NEW S \in SUBSET Nat, S # {}
  PROVE  \E i \in S : \A j \in S : i =< j
<1> DEFINE R == OpToRel(<, Nat)
<1>1. IsWellFoundedOn(R, Nat)
  BY NatLessThanWellFounded, Zenon
<1>2. \A i, j \in Nat : j < i => <<j, i>> \in R
  BY Zenon DEF OpToRel
<1> HIDE DEF R
<1>3. \E i \in S : \A j \in S : ~(<<j, i>> \in R)
  BY <1>1, WFMin
<1>4. PICK i \in S : \A j \in S : ~(<<j, i>> \in R)
  BY <1>3
<1>5. \A j \in S : ~(j < i)
  BY <1>2, <1>4
<1> QED
  BY <1>5

\* Min picks it.
LEMMA MinIs ==
  ASSUME NEW S \in SUBSET Nat, NEW i \in S, \A j \in S : i =< j
  PROVE  Min(S) = i
<1> DEFINE P(x) == x \in S /\ \A y \in S : x =< y
<1>1. P(i)
  OBVIOUS
<1>2. P(CHOOSE x : P(x))
  BY <1>1
<1>3. Min(S) \in S /\ \A y \in S : Min(S) =< y
  BY <1>2, Zenon DEF Min
<1>4. i =< Min(S) /\ Min(S) =< i /\ i \in Nat /\ Min(S) \in Nat
  BY <1>3
<1> QED
  BY <1>4

(* Texts                                                                   *)

\* A text is all of itself.
LEMMA WholeOf ==
  ASSUME NEW s \in Seq(Chars)
  PROVE  SubSeq(s, 1, Len(s)) = s
OBVIOUS

\* What is left of a text from a place on.
LEMMA Rest ==
  ASSUME NEW s \in Seq(Chars), NEW i \in 1..Len(s), NEW f, f = SubSeq(s, i, Len(s))
  PROVE  /\ f \in Seq(Chars) /\ Len(f) = Len(s) - i + 1
         /\ \A k \in 1..Len(f) : f[k] = s[i + k - 1]
OBVIOUS

\* Nothing is dropped from a text that begins with a character to keep.
LEMMA FromTheFirst ==
  ASSUME NEW s \in Seq(Chars), NEW skip, s = <<>> \/ s[1] \notin skip
  PROVE  From(s, skip) = s
<1> DEFINE kept == {i \in DOMAIN s : s[i] \notin skip}
<1>1. CASE s = <<>>
  <2>1. kept = {} /\ Len(s) = 0
    BY <1>1
  <2>2. From(s, skip) = SubSeq(s, Len(s) + 1, Len(s))
    BY <2>1 DEF From
  <2> QED
    BY <1>1, <2>1, <2>2
<1>2. CASE s # <<>> /\ s[1] \notin skip
  <2>1. 1 \in DOMAIN s /\ 1 \in kept
    BY <1>2
  <2>2. Min(kept) = 1
    <3>1. kept \in SUBSET Nat /\ \A j \in kept : 1 =< j
      OBVIOUS
    <3> HIDE DEF kept
    <3> QED
      BY <2>1, <3>1, MinIs
  <2>3. From(s, skip) = SubSeq(s, 1, Len(s))
    BY <2>1, <2>2 DEF From
  <2> QED
    BY <2>3, WholeOf
<1> QED
  BY <1>1, <1>2

\* Reverse, character by character, and twice.
LEMMA TwiceReversed ==
  ASSUME NEW s \in Seq(Chars)
  PROVE  /\ Reverse(s) \in Seq(Chars) /\ Len(Reverse(s)) = Len(s)
         /\ \A k \in 1..Len(s) : Reverse(s)[k] = s[Len(s) - k + 1]
         /\ Reverse(Reverse(s)) = s
<1> DEFINE n == Len(s)
           r == Reverse(s)
<1>1. n \in Nat
  OBVIOUS
<1>2. \A k \in 1..n : s[(n - k) + 1] \in Chars
  OBVIOUS
<1>3. r = [k \in 1..n |-> s[(n - k) + 1]]
  BY DEF Reverse
<1> HIDE DEF n, r
<1>4. r \in [1..n -> Chars]
  BY <1>2, <1>3
<1>5. r \in Seq(Chars) /\ Len(r) = n
  BY <1>1, <1>4
<1>6. Reverse(r) = [k \in 1..n |-> r[(n - k) + 1]]
  BY <1>5 DEF Reverse
<1>7. ASSUME NEW k \in 1..n
      PROVE  r[(n - k) + 1] = s[k]
  <2>1. (n - k) + 1 \in 1..n /\ (n - ((n - k) + 1)) + 1 = k
    BY <1>1
  <2> QED
    BY <1>3, <2>1
<1>8. s = [k \in 1..n |-> s[k]]
  BY DEF n
<1>9. Reverse(r) = s
  BY <1>6, <1>7, <1>8
<1> QED
  BY <1>1, <1>3, <1>5, <1>9 DEF n, r

\* A text has no spaces around it.
Trimmed(s) == s = <<>> \/ (s[1] # " " /\ s[Len(s)] # " ")

\* Trim changes nothing of such a text.
LEMMA TrimKeeps ==
  ASSUME NEW s \in Seq(Chars), Trimmed(s)
  PROVE  Trim(s) = s
<1> DEFINE r == Reverse(s)
<1>1. From(s, {" "}) = s
  BY FromTheFirst DEF Trimmed
<1>2. r \in Seq(Chars) /\ Len(r) = Len(s) /\ \A k \in 1..Len(s) : r[k] = s[Len(s) - k + 1]
  BY TwiceReversed
<1>3. Reverse(r) = s
  BY TwiceReversed
<1>4. Trim(s) = Reverse(From(r, {" "}))
  BY <1>1 DEF Trim
<1> HIDE DEF r
<1>5. r = <<>> \/ r[1] \notin {" "}
  <2>1. CASE s = <<>>
    BY <2>1, <1>2
  <2>2. CASE s # <<>>
    <3>1. Len(s) \in Nat /\ 1 \in 1..Len(s) /\ Len(s) - 1 + 1 = Len(s)
      BY <2>2
    <3>2. r[1] = s[Len(s)]
      BY <3>1, <1>2
    <3> QED
      BY <2>2, <3>2 DEF Trimmed
  <2> QED
    BY <2>1, <2>2
<1>6. From(r, {" "}) = r
  BY <1>2, <1>5, FromTheFirst
<1> QED
  BY <1>3, <1>4, <1>6

\* What From leaves begins with a character that is not skipped.
LEMMA FromCuts ==
  ASSUME NEW s \in Seq(Chars), NEW skip
  PROVE  /\ From(s, skip) \in Seq(Chars) /\ Len(From(s, skip)) =< Len(s)
         /\ From(s, skip) = <<>> \/ From(s, skip)[1] \notin skip
         /\ From(s, skip) = <<>> <=> \A k \in 1..Len(s) : s[k] \in skip
         /\ s # <<>> /\ From(s, skip) # <<>> => From(s, skip)[Len(From(s, skip))] = s[Len(s)]
<1> DEFINE kept == {i \in DOMAIN s : s[i] \notin skip}
           f    == From(s, skip)
<1>1. CASE kept = {}
  <2>1. f = SubSeq(s, Len(s) + 1, Len(s))
    BY <1>1 DEF From
  <2>2. f = <<>>
    BY <2>1
  <2>3. \A k \in 1..Len(s) : s[k] \in skip
    BY <1>1
  <2> QED
    BY <2>2, <2>3
<1>2. CASE kept # {}
  <2>0. kept \in SUBSET Nat
    OBVIOUS
  <2>1. PICK i \in kept : \A j \in kept : i =< j
    <3> HIDE DEF kept
    <3> QED
      BY <1>2, <2>0, LeastPlace
  <2>2. Min(kept) = i
    <3> HIDE DEF kept
    <3> QED
      BY <2>0, <2>1, MinIs
  <2>3. f = SubSeq(s, i, Len(s))
    BY <1>2, <2>2, Zenon DEF From
  <2>4. i \in 1..Len(s) /\ s[i] \notin skip
    OBVIOUS
  <2> HIDE DEF f, kept
  <2>5. /\ f \in Seq(Chars) /\ Len(f) = Len(s) - i + 1
        /\ \A k \in 1..Len(f) : f[k] = s[i + k - 1]
    BY <2>3, <2>4, Rest
  <2> DEFINE n == Len(s)
  <2>6. n \in Nat /\ i \in 1..n /\ Len(f) = n - i + 1
    BY <2>4, <2>5
  <2> HIDE DEF n
  <2>7. 1 \in 1..Len(f) /\ Len(f) \in 1..Len(f) /\ i + 1 - 1 = i /\ i + Len(f) - 1 = n /\ Len(f) =< n
    BY <2>6
  <2>8. f[1] = s[i] /\ f[Len(f)] = s[n]
    BY <2>5, <2>7
  <2>9. f # <<>>
    BY <2>7
  <2> QED
    BY <2>4, <2>5, <2>7, <2>8, <2>9 DEF f, n
<1> QED
  BY <1>1, <1>2

\* A text is empty when it has no characters.
LEMMA LenOf ==
  ASSUME NEW s \in Seq(Chars)
  PROVE  Len(s) \in Nat /\ (s = <<>> <=> Len(s) = 0)
OBVIOUS

\* Trim leaves a text without spaces around it, none if it is all spaces.
LEMMA TrimCuts ==
  ASSUME NEW s \in Seq(Chars)
  PROVE  /\ Trim(s) \in Seq(Chars) /\ Len(Trim(s)) =< Len(s) /\ Trimmed(Trim(s))
         /\ Trim(s) # <<>> <=> \E k \in 1..Len(s) : s[k] # " "
<1> DEFINE f == From(s, {" "})
           r == Reverse(f)
           g == From(r, {" "})
           t == Reverse(g)
<1>1. /\ f \in Seq(Chars) /\ Len(f) =< Len(s)
      /\ f = <<>> \/ f[1] \notin {" "}
      /\ f = <<>> <=> \A k \in 1..Len(s) : s[k] \in {" "}
  BY FromCuts
<1>2. Trim(s) = t
  BY DEF Trim
<1>a. f \in Seq(Chars)
  BY <1>1
<1> HIDE DEF f
<1>3. r \in Seq(Chars) /\ Len(r) = Len(f) /\ \A k \in 1..Len(f) : r[k] = f[Len(f) - k + 1]
  BY <1>a, TwiceReversed
<1>b. r \in Seq(Chars)
  BY <1>3
<1> HIDE DEF r
<1>4. /\ g \in Seq(Chars) /\ Len(g) =< Len(r)
      /\ g = <<>> \/ g[1] \notin {" "}
      /\ g = <<>> <=> \A k \in 1..Len(r) : r[k] \in {" "}
      /\ r # <<>> /\ g # <<>> => g[Len(g)] = r[Len(r)]
  BY <1>b, FromCuts
<1>c. g \in Seq(Chars)
  BY <1>4
<1> HIDE DEF g
<1>5. t \in Seq(Chars) /\ Len(t) = Len(g) /\ \A k \in 1..Len(g) : t[k] = g[Len(g) - k + 1]
  BY <1>c, TwiceReversed
<1> HIDE DEF t
<1>d. t \in Seq(Chars)
  BY <1>5
<1>6. Len(s) \in Nat /\ Len(f) \in Nat /\ Len(r) \in Nat /\ Len(g) \in Nat /\ Len(t) \in Nat
  BY <1>a, <1>b, <1>c, <1>d, LenOf
<1>7. Len(t) =< Len(s)
  <2>1. Len(f) =< Len(s) /\ Len(r) = Len(f) /\ Len(g) =< Len(r) /\ Len(t) = Len(g)
    BY <1>1, <1>3, <1>4, <1>5
  <2> QED
    BY <2>1, <1>6
<1>8. CASE f = <<>>
  <2>1. Len(f) = 0
    BY <1>8
  <2>2. Len(t) = 0
    BY <2>1, <1>3, <1>4, <1>5, <1>6
  <2>3. t = <<>>
    BY <2>2, <1>5
  <2>4. ~ \E k \in 1..Len(s) : s[k] # " "
    BY <1>1, <1>8
  <2> QED
    BY <1>2, <1>5, <1>7, <2>3, <2>4 DEF Trimmed
<1>9. CASE f # <<>>
  <2>1. Len(f) >= 1 /\ Len(r) >= 1 /\ r # <<>>
    <3>1. Len(f) # 0
      BY <1>a, <1>9, LenOf
    <3>2. Len(r) # 0
      BY <3>1, <1>3
    <3> QED
      BY <1>6, <3>1, <3>2
  <2>2. r[Len(r)] = f[1]
    <3>1. Len(r) \in 1..Len(f) /\ Len(f) - Len(r) + 1 = 1
      BY <2>1, <1>3, <1>6
    <3> QED
      BY <3>1, <1>3
  <2>3. r[Len(r)] # " "
    BY <2>2, <1>1, <1>9
  <2>4. g # <<>>
    <3>1. Len(r) \in 1..Len(r)
      BY <2>1, <1>6
    <3> QED
      BY <2>3, <3>1, <1>4
  <2>5. Len(g) >= 1
    <3>1. Len(g) # 0
      BY <1>c, <2>4, LenOf
    <3> QED
      BY <3>1, <1>6
  <2>6. 1 \in 1..Len(g) /\ Len(g) \in 1..Len(g) /\ Len(g) - 1 + 1 = Len(g)
        /\ Len(g) - Len(g) + 1 = 1
    BY <2>5, <1>6
  <2>7. t[1] = g[Len(g)] /\ t[Len(t)] = g[1]
    BY <2>6, <1>5
  <2>8. t[1] # " " /\ t[Len(t)] # " "
    BY <2>1, <2>3, <2>4, <2>7, <1>4
  <2>9. t # <<>>
    BY <1>5, <2>5
  <2>10. \E k \in 1..Len(s) : s[k] # " "
    BY <1>1, <1>9
  <2> QED
    BY <1>2, <1>5, <1>7, <2>8, <2>9, <2>10 DEF Trimmed
<1> QED
  BY <1>8, <1>9

-----------------------------------------------------------------------------
(* Names                                                                   *)

\* Of a text of nothing but such characters, all are kept.
LEMMA OnlyKeeps ==
  ASSUME NEW chars, NEW t \in Seq(chars)
  PROVE  Only(t, chars) = t
<1> DEFINE n      == Len(t)
           kept   == {i \in DOMAIN t : t[i] \in chars}
           nth(k) == CHOOSE i \in kept : Cardinality({j \in kept : j =< i}) = k
<1>1. n \in Nat /\ DOMAIN t = 1..n /\ kept = 1..n
  OBVIOUS
<1>2. Only(t, chars) = [k \in 1..Cardinality(kept) |-> t[nth(k)]]
  BY DEF Only
<1>3. t = [k \in 1..n |-> t[k]]
  OBVIOUS
<1> HIDE DEF n, kept
<1>4. Cardinality(kept) = n
  BY <1>1, FS_Interval
<1>5. ASSUME NEW i \in 1..n
      PROVE  Cardinality({j \in kept : j =< i}) = i
  <2>1. {j \in kept : j =< i} = 1..i
    BY <1>1
  <2>2. Cardinality(1..i) = i
    BY <1>1, FS_Interval
  <2> QED
    BY <2>1, <2>2
<1>6. ASSUME NEW k \in 1..n
      PROVE  nth(k) = k
  <2> DEFINE P(i) == i \in kept /\ Cardinality({j \in kept : j =< i}) = k
  <2>1. P(k)
    BY <1>1, <1>5
  <2>2. \A i : P(i) => i = k
    BY <1>1, <1>5
  <2>3. P(CHOOSE i : P(i))
    BY <2>1
  <2> HIDE DEF P
  <2>4. (CHOOSE i : P(i)) = k
    BY <2>2, <2>3
  <2> QED
    BY <2>4, Zenon DEF P
<1> HIDE DEF nth
<1> QED
  BY <1>2, <1>3, <1>4, <1>6

\* A name that passes the pattern is one of name characters, after a slash or not.
IsName(t) == t \in Seq(NameChars) /\ t # <<>>

\* The pattern of SetMyCommandsDto, of the name without its slash.
LEMMA MatchesNames ==
  ASSUME NEW name \in Seq(Chars)
  PROVE  /\ Matches(name) <=> IsName(Bare(name))
         /\ Matches(name) => name = Bare(name) \/ name = <<"/">> \o Bare(name)
<1> DEFINE n == Len(name)
           bare == Bare(name)
<1>1. n \in Nat /\ (name = <<>> <=> n = 0) /\ name = [k \in 1..n |-> name[k]] /\ DOMAIN name = 1..n
  BY LenOf
<1>2. CASE name # <<>> /\ name[1] = "/"
  <2>1. bare = Tail(name)
    BY <1>2 DEF Bare
  <2>2. /\ bare \in Seq(Chars) /\ Len(bare) = n - 1
        /\ \A k \in 1..(n - 1) : bare[k] = name[k + 1]
    BY <2>1, <1>2
  <2>3. Matches(name) <=> n > 1 /\ \A i \in 2..n : name[i] \in NameChars
    BY <1>2 DEF Matches
  <2> HIDE DEF bare, n
  <2>4. name = <<"/">> \o bare
    <3>1. <<"/">> \o bare = [k \in 1..(1 + (n - 1)) |-> IF k = 1 THEN "/" ELSE bare[k - 1]]
      BY <2>2, <1>1
    <3>2. 1 + (n - 1) = n
      BY <1>1
    <3>3. \A k \in 1..n : k # 1 => k - 1 \in 1..(n - 1) /\ (k - 1) + 1 = k
      BY <1>1
    <3>4. \A k \in 1..n : (IF k = 1 THEN "/" ELSE bare[k - 1]) = name[k]
      BY <3>3, <2>2, <1>2
    <3> QED
      BY <3>1, <3>2, <3>4, <1>1
  <2>5. (\A i \in 2..n : name[i] \in NameChars) <=> \A k \in 1..(n - 1) : bare[k] \in NameChars
    <3>1. \A k \in 1..(n - 1) : k + 1 \in 2..n
      BY <1>1
    <3>2. \A i \in 2..n : i - 1 \in 1..(n - 1) /\ (i - 1) + 1 = i
      BY <1>1
    <3> QED
      BY <3>1, <3>2, <2>2
  <2>6. bare \in Seq(NameChars) <=> \A k \in 1..(n - 1) : bare[k] \in NameChars
    BY <2>2, <1>1
  <2>7. bare # <<>> <=> n > 1
    <3>1. bare = <<>> <=> Len(bare) = 0
      BY <2>2, LenOf
    <3> QED
      BY <3>1, <2>2, <1>1, <1>2
  <2> QED
    BY <2>3, <2>4, <2>5, <2>6, <2>7 DEF IsName, bare
<1>3. CASE ~(name # <<>> /\ name[1] = "/")
  <2>1. bare = name
    BY <1>3 DEF Bare
  <2>2. Matches(name) <=> n > 0 /\ \A i \in 1..n : name[i] \in NameChars
    BY <1>3 DEF Matches
  <2>3. name \in Seq(NameChars) <=> \A i \in 1..n : name[i] \in NameChars
    BY <1>1
  <2>4. name # <<>> <=> n > 0
    BY <1>1
  <2> QED
    BY <2>1, <2>2, <2>3, <2>4 DEF IsName
<1> QED
  BY <1>2, <1>3

\* A name has no slash in it and no spaces around it.
LEMMA NameIsText ==
  ASSUME NEW t, IsName(t)
  PROVE  /\ t \in Seq(NameChars) /\ t \in Seq(Chars) /\ Len(t) \in Nat /\ Len(t) >= 1
         /\ \A k \in 1..Len(t) : t[k] \in NameChars /\ t[k] # "/" /\ t[k] # " "
         /\ Trimmed(t)
<1>1. t \in Seq(NameChars) /\ t # <<>>
  BY DEF IsName
<1>2. Len(t) \in Nat /\ Len(t) >= 1 /\ \A k \in 1..Len(t) : t[k] \in NameChars
  BY <1>1
<1>3. t \in Seq(Chars)
  <2>1. \A k \in 1..Len(t) : t[k] \in Chars
    BY <1>2, CharsAssumption
  <2> QED
    BY <1>1, <1>2, <2>1
<1>4. \A c \in NameChars : c # "/" /\ c # " "
  BY CharsAssumption
<1>5. 1 \in 1..Len(t) /\ Len(t) \in 1..Len(t)
  BY <1>2
<1> QED
  BY <1>1, <1>2, <1>3, <1>4, <1>5 DEF Trimmed

\* <<"/">> \o t, character by character.
LEMMA Slashed ==
  ASSUME NEW t, IsName(t), NEW s, s = <<"/">> \o t
  PROVE  /\ s \in Seq(Chars) /\ Len(s) = Len(t) + 1 /\ s[1] = "/" /\ s # <<>>
         /\ \A k \in 1..Len(t) : s[k + 1] = t[k]
         /\ Tail(s) = t
         /\ Trimmed(s)
<1> DEFINE n == Len(t)
<1>1. t \in Seq(Chars) /\ n \in Nat /\ n >= 1
  BY NameIsText
<1>2. "/" \in Chars
  BY CharsAssumption
<1>3. /\ s \in Seq(Chars) /\ Len(s) = n + 1 /\ s[1] = "/"
      /\ \A k \in 1..n : s[k + 1] = t[k]
  BY <1>1, <1>2
<1> HIDE DEF n
<1>4. s # <<>>
  BY <1>1, <1>3, LenOf
<1>5. Tail(s) = t
  <2>1. Tail(s) = [k \in 1..(Len(s) - 1) |-> s[k + 1]]
    BY <1>3, <1>4
  <2>2. Len(s) - 1 = n
    BY <1>1, <1>3
  <2>3. t = [k \in 1..n |-> t[k]]
    BY <1>1 DEF n
  <2> QED
    BY <2>1, <2>2, <2>3, <1>3
<1>6. s[Len(s)] # " "
  <2>1. n \in 1..n
    BY <1>1
  <2>2. s[n + 1] = t[n] /\ t[n] # " "
    BY <2>1, <1>3, NameIsText DEF n
  <2> QED
    BY <2>2, <1>3
<1>7. "/" # " "
  OBVIOUS
<1> QED
  BY <1>3, <1>4, <1>5, <1>6, <1>7 DEF Trimmed, n

\* The slashes at the front are one.
LEMMA FromSlash ==
  ASSUME NEW t, IsName(t), NEW s, s = <<"/">> \o t
  PROVE  From(s, {"/"}) = t
<1> DEFINE kept == {i \in DOMAIN s : s[i] \notin {"/"}}
           n == Len(t)
<1>1. /\ s \in Seq(Chars) /\ Len(s) = n + 1 /\ s[1] = "/"
      /\ \A k \in 1..n : s[k + 1] = t[k]
  BY Slashed
<1>2. t \in Seq(Chars) /\ n \in Nat /\ n >= 1 /\ \A k \in 1..n : t[k] # "/"
  BY NameIsText
<1> HIDE DEF n
<1>3. DOMAIN s = 1..(n + 1)
  BY <1>1
<1>4. 2 \in kept
  <2>1. 1 \in 1..n /\ 1 + 1 = 2 /\ 2 \in 1..(n + 1)
    BY <1>2
  <2>2. s[1 + 1] = t[1] /\ t[1] # "/"
    BY <2>1, <1>1, <1>2
  <2> QED
    BY <2>1, <2>2, <1>3
<1>5. kept \in SUBSET Nat /\ \A j \in kept : 2 =< j
  BY <1>1, <1>2, <1>3
<1>6. Min(kept) = 2 /\ kept # {}
  <2> HIDE DEF kept
  <2> QED
    BY <1>4, <1>5, MinIs
<1>7. From(s, {"/"}) = SubSeq(s, 2, Len(s))
  BY <1>6, Zenon DEF From
<1> DEFINE f == From(s, {"/"})
<1>8. 2 \in 1..Len(s)
  BY <1>1, <1>2
<1>a. s \in Seq(Chars)
  BY <1>1
<1>b. f = SubSeq(s, 2, Len(s))
  BY <1>7
<1> HIDE DEF f, kept
<1>9. /\ f \in Seq(Chars) /\ Len(f) = Len(s) - 2 + 1
      /\ \A k \in 1..Len(f) : f[k] = s[2 + k - 1]
  BY <1>a, <1>b, <1>8, Rest
<1>10. Len(f) = n
  BY <1>1, <1>2, <1>9
<1>11. \A k \in 1..n : f[k] = t[k]
  <2>1. \A k \in 1..n : 2 + k - 1 = k + 1
    BY <1>2
  <2> QED
    BY <2>1, <1>1, <1>9, <1>10
<1>12. f = [k \in 1..n |-> f[k]] /\ t = [k \in 1..n |-> t[k]]
  BY <1>2, <1>9, <1>10 DEF n
<1>13. f = t
  BY <1>11, <1>12
<1> QED
  BY <1>13 DEF f

\* A name is one word.
LEMMA WordOfName ==
  ASSUME NEW t, IsName(t)
  PROVE  FirstWord(t) = t
<1> DEFINE spaces == {i \in DOMAIN t : t[i] = " "}
<1>1. t \in Seq(Chars) /\ \A k \in 1..Len(t) : t[k] # " "
  BY NameIsText
<1>a. t \in Seq(Chars)
  BY <1>1
<1>b. DOMAIN t = 1..Len(t)
  BY <1>a
<1>2. spaces = {}
  BY <1>1, <1>b
<1>3. FirstWord(t) = SubSeq(t, 1, Len(t))
  BY <1>2, Zenon DEF FirstWord
<1> QED
  BY <1>1, <1>3, WholeOf

\* Normalisation removes no character of a name that passes the pattern.
LEMMA NormalOfName ==
  ASSUME NEW name \in Seq(Chars), Matches(name)
  PROVE  NormalName(name) = <<"/">> \o Bare(name)
<1> DEFINE t == Bare(name)
<1>1. IsName(t) /\ (name = t \/ name = <<"/">> \o t)
  BY MatchesNames
<1> HIDE DEF t
<1>2. t \in Seq(NameChars) /\ t \in Seq(Chars) /\ t # <<>> /\ t[1] # "/" /\ Trimmed(t)
  <2>a. IsName(t)
    BY <1>1
  <2>b. Len(t) \in Nat /\ Len(t) >= 1
    BY <2>a, NameIsText
  <2>1. 1 \in 1..Len(t)
    BY <2>b
  <2>2. t \in Seq(NameChars) /\ t \in Seq(Chars) /\ t[1] # "/" /\ Trimmed(t)
    BY <2>1, <2>a, NameIsText
  <2>3. t # <<>>
    BY <2>a DEF IsName
  <2> QED
    BY <2>2, <2>3
<1>3. Trimmed(name)
  BY <1>1, <1>2, Slashed
<1>4. Trim(name) = name
  BY <1>3, TrimKeeps
<1>5. From(name, {"/"}) = t
  <2>1. CASE name = t
    BY <2>1, <1>2, FromTheFirst
  <2>2. CASE name = <<"/">> \o t
    BY <2>2, <1>1, FromSlash
  <2> QED
    BY <1>1, <2>1, <2>2
<1>6. FirstWord(t) = t
  BY <1>1, WordOfName
<1>7. Only(t, NameChars) = t
  BY <1>2, OnlyKeeps
<1>8. NormalName(name) = <<"/">> \o t
  BY <1>2, <1>4, <1>5, <1>6, <1>7 DEF NormalName
<1> QED
  BY <1>8 DEF t

\* A name as it is stored; its letters in lower case.
WithSlash(t) == <<"/">> \o t
Lower(t) == [i \in DOMAIN t |-> LowerCase[t[i]]]

\* Two stored names have one key when they differ in case only.
LEMMA KeysOfNames ==
  ASSUME NEW a, NEW b, IsName(a), IsName(b)
  PROVE  Key(WithSlash(a)) = Key(WithSlash(b)) <=> Lower(a) = Lower(b)
<1> DEFINE r == WithSlash(a)
           s == WithSlash(b)
<1>r. r = <<"/">> \o a
  BY DEF WithSlash
<1>s. s = <<"/">> \o b
  BY DEF WithSlash
<1> HIDE DEF r, s
<1>1. /\ r \in Seq(Chars) /\ Len(r) = Len(a) + 1 /\ r[1] = "/"
      /\ \A k \in 1..Len(a) : r[k + 1] = a[k]
  BY <1>r, Slashed
<1>2. /\ s \in Seq(Chars) /\ Len(s) = Len(b) + 1 /\ s[1] = "/"
      /\ \A k \in 1..Len(b) : s[k + 1] = b[k]
  BY <1>s, Slashed
<1>3. /\ a \in Seq(Chars) /\ Len(a) \in Nat
      /\ \A k \in 1..Len(a) : a[k] # "/"
  BY NameIsText
<1>4. /\ b \in Seq(Chars) /\ Len(b) \in Nat
      /\ \A k \in 1..Len(b) : b[k] # "/"
  BY NameIsText
<1> DEFINE m == Len(a)
           n == Len(b)
<1>5. DOMAIN r = 1..(m + 1) /\ DOMAIN s = 1..(n + 1) /\ DOMAIN a = 1..m /\ DOMAIN b = 1..n
  BY <1>1, <1>2, <1>3, <1>4
<1>6. /\ m \in Nat /\ n \in Nat
      /\ r[1] = "/" /\ \A k \in 1..m : r[k + 1] = a[k] /\ a[k] # "/"
      /\ s[1] = "/" /\ \A k \in 1..n : s[k + 1] = b[k] /\ b[k] # "/"
  BY <1>1, <1>2, <1>3, <1>4
<1> HIDE DEF m, n
<1> DEFINE K(x) == [i \in DOMAIN x |-> IF x[i] = "/" THEN "/" ELSE LowerCase[x[i]]]
<1>7. /\ Key(r) = K(r) /\ Key(s) = K(s)
      /\ DOMAIN K(r) = 1..(m + 1) /\ DOMAIN K(s) = 1..(n + 1)
      /\ K(r)[1] = "/" /\ K(s)[1] = "/"
  BY <1>5, <1>6 DEF Key
<1>8. /\ \A k \in 1..m : k + 1 \in 1..(m + 1) /\ K(r)[k + 1] = LowerCase[a[k]]
      /\ \A k \in 1..n : k + 1 \in 1..(n + 1) /\ K(s)[k + 1] = LowerCase[b[k]]
  BY <1>5, <1>6
<1>9. /\ DOMAIN Lower(a) = 1..m /\ \A k \in 1..m : Lower(a)[k] = LowerCase[a[k]]
      /\ DOMAIN Lower(b) = 1..n /\ \A k \in 1..n : Lower(b)[k] = LowerCase[b[k]]
      /\ Lower(a) = [k \in 1..m |-> LowerCase[a[k]]]
      /\ Lower(b) = [k \in 1..n |-> LowerCase[b[k]]]
  BY <1>5 DEF Lower
<1>a. K(r) = [k \in 1..(m + 1) |-> K(r)[k]] /\ K(s) = [k \in 1..(n + 1) |-> K(s)[k]]
  BY <1>5
<1> HIDE DEF K
<1>10. ASSUME K(r) = K(s)
       PROVE  Lower(a) = Lower(b)
  <2>1. m + 1 = n + 1
    <3>1. m + 1 \in 1..(n + 1) /\ n + 1 \in 1..(m + 1)
      BY <1>6, <1>7, <1>10
    <3> QED
      BY <3>1, <1>6
  <2>2. m = n
    BY <2>1, <1>6
  <2>3. \A k \in 1..m : LowerCase[a[k]] = LowerCase[b[k]]
    BY <2>2, <1>8, <1>10
  <2> QED
    BY <2>2, <2>3, <1>9
<1>11. ASSUME Lower(a) = Lower(b)
       PROVE  K(r) = K(s)
  <2>1. m = n
    <3>1. \A k : k \in 1..m <=> k \in 1..n
      BY <1>9, <1>11
    <3>2. m \in Nat /\ n \in Nat
      BY <1>6
    <3>3. (m > 0 => m \in 1..m) /\ (n > 0 => n \in 1..n)
      BY <3>2
    <3>4. (m > 0 => m \in 1..n) /\ (n > 0 => n \in 1..m)
      BY <3>1, <3>3
    <3> QED
      BY <3>2, <3>4
  <2>2. ASSUME NEW k \in 1..(m + 1)
        PROVE  K(r)[k] = K(s)[k]
    <3>1. CASE k = 1
      BY <3>1, <1>7
    <3>2. CASE k # 1
      <4>1. k - 1 \in 1..m /\ (k - 1) + 1 = k
        BY <3>2, <1>6
      <4>2. K(r)[(k - 1) + 1] = LowerCase[a[k - 1]] /\ K(s)[(k - 1) + 1] = LowerCase[b[k - 1]]
        BY <4>1, <2>1, <1>8
      <4>3. LowerCase[a[k - 1]] = LowerCase[b[k - 1]]
        BY <4>1, <2>1, <1>9, <1>11
      <4> QED
        BY <4>1, <4>2, <4>3
    <3> QED
      BY <3>1, <3>2
  <2> QED
    BY <2>1, <2>2, <1>a
<1> QED
  BY <1>7, <1>10, <1>11 DEF r, s

-----------------------------------------------------------------------------
(* Lists                                                                   *)

\* The commands of a list.
LEMMA Items ==
  ASSUME NEW list \in Seq(Commands)
  PROVE  /\ Len(list) \in Nat /\ DOMAIN list = 1..Len(list)
         /\ \A i \in 1..Len(list) :
              /\ list[i] \in Commands
              /\ list[i].command \in Seq(Chars) /\ list[i].description \in Seq(Chars)
<1>1. Len(list) \in Nat /\ DOMAIN list = 1..Len(list) /\ \A i \in 1..Len(list) : list[i] \in Commands
  OBVIOUS
<1>2. \A c \in Commands : c.command \in Seq(Chars) /\ c.description \in Seq(Chars)
  BY DEF Commands
<1> QED
  BY <1>1, <1>2

\* Normalisation leaves every name as it is, with one slash, and trims the descriptions.
LEMMA NormalOfList ==
  ASSUME NEW list \in Seq(Commands), \A i \in 1..Len(list) : Matches(list[i].command)
  PROVE  /\ Normal(list) \in Seq(Commands) /\ Len(Normal(list)) = Len(list)
         /\ DOMAIN Normal(list) = 1..Len(list)
         /\ \A i \in 1..Len(list) :
              /\ IsName(Bare(list[i].command))
              /\ Normal(list)[i] = [command     |-> <<"/">> \o Bare(list[i].command),
                                    description |-> Trim(list[i].description)]
              /\ Normal(list)[i].command = <<"/">> \o Bare(list[i].command)
              /\ Normal(list)[i].description = Trim(list[i].description)
<1> DEFINE n == Len(list)
           normal == Normal(list)
<1>1. /\ n \in Nat /\ DOMAIN list = 1..n
      /\ \A i \in 1..n : list[i].command \in Seq(Chars) /\ list[i].description \in Seq(Chars)
  BY Items
<1>2. normal = [i \in 1..n |-> [command     |-> NormalName(list[i].command),
                               description |-> Trim(list[i].description)]]
  BY <1>1 DEF Normal
<1> HIDE DEF n, normal
<1>3. ASSUME NEW i \in 1..n
      PROVE  /\ IsName(Bare(list[i].command))
             /\ NormalName(list[i].command) = <<"/">> \o Bare(list[i].command)
             /\ <<"/">> \o Bare(list[i].command) \in Seq(Chars)
             /\ Trim(list[i].description) \in Seq(Chars)
  <2> DEFINE c == list[i].command
             d == list[i].description
             s == <<"/">> \o Bare(c)
  <2>1. c \in Seq(Chars) /\ d \in Seq(Chars) /\ Matches(c)
    BY <1>1 DEF n
  <2>a. d \in Seq(Chars)
    BY <2>1
  <2> HIDE DEF c, d
  <2>2. IsName(Bare(c)) /\ NormalName(c) = s
    BY <2>1, MatchesNames, NormalOfName
  <2>3. s \in Seq(Chars)
    <3>1. s = <<"/">> \o Bare(c)
      OBVIOUS
    <3> HIDE DEF s
    <3> QED
      BY <2>2, <3>1, Slashed
  <2>4. Trim(d) \in Seq(Chars)
    BY <2>a, TrimCuts
  <2> QED
    BY <2>2, <2>3, <2>4 DEF c, d
<1>4. \A i \in 1..n : normal[i] = [command     |-> <<"/">> \o Bare(list[i].command),
                                   description |-> Trim(list[i].description)]
  BY <1>2, <1>3
<1>5. ASSUME NEW i \in 1..n
      PROVE  normal[i] \in Commands
  <2>1. ASSUME NEW c \in Seq(Chars), NEW d \in Seq(Chars)
        PROVE  [command |-> c, description |-> d] \in Commands
    BY DEF Commands
  <2> QED
    BY <1>3, <1>4, <2>1
<1>6. normal \in Seq(Commands) /\ Len(normal) = n /\ DOMAIN normal = 1..n
  BY <1>1, <1>2, <1>5
<1> QED
  BY <1>3, <1>4, <1>6 DEF n, normal

\* A valid list is accepted when it is meaningful, and only then.
LEMMA AcceptedWhenMeaningful ==
  ASSUME NEW list \in Seq(Commands)
  PROVE  Valid(list) /\ Accepted(Normal(list)) <=> Meaningful(list)
<1> DEFINE n == Len(list)
<1>1. /\ n \in Nat /\ DOMAIN list = 1..n
      /\ \A i \in 1..n : list[i].command \in Seq(Chars) /\ list[i].description \in Seq(Chars)
  BY Items
<1> HIDE DEF n
<1>2. ASSUME NEW i \in 1..n
      PROVE  /\ Matches(list[i].command) <=>
                  Bare(list[i].command) # <<>> /\ Range(Bare(list[i].command)) \subseteq NameChars
             /\ Len(list[i].description) \in 1..MaxDescription /\ Trim(list[i].description) # <<>> <=>
                  /\ Len(list[i].description) =< MaxDescription
                  /\ \E k \in DOMAIN list[i].description : list[i].description[k] # " "
  <2> DEFINE c == list[i].command
             d == list[i].description
  <2>1. c \in Seq(Chars)
    BY <1>1
  <2>2. d \in Seq(Chars)
    BY <1>1
  <2> HIDE DEF c, d
  <2>3. Matches(c) <=> Bare(c) # <<>> /\ Range(Bare(c)) \subseteq NameChars
    <3>1. Matches(c) <=> IsName(Bare(c))
      BY <2>1, MatchesNames
    <3>2. Bare(c) \in Seq(Chars)
      BY <2>1 DEF Bare
    <3>3. ASSUME NEW b \in Seq(Chars)
          PROVE  b \in Seq(NameChars) <=> Range(b) \subseteq NameChars
      <4>1. Len(b) \in Nat /\ DOMAIN b = 1..Len(b) /\ b = [k \in 1..Len(b) |-> b[k]]
        OBVIOUS
      <4>2. Range(b) \subseteq NameChars <=> \A k \in 1..Len(b) : b[k] \in NameChars
        BY <4>1 DEF Range
      <4>3. b \in Seq(NameChars) <=> \A k \in 1..Len(b) : b[k] \in NameChars
        BY <4>1
      <4> QED
        BY <4>2, <4>3
    <3> QED
      BY <3>1, <3>2, <3>3 DEF IsName
  <2>4. Trim(d) # <<>> <=> \E k \in 1..Len(d) : d[k] # " "
    BY <2>2, TrimCuts
  <2>5. Len(d) \in Nat /\ DOMAIN d = 1..Len(d)
    BY <2>2
  <2>6. (\E k \in 1..Len(d) : d[k] # " ") => Len(d) >= 1
    <3>1. ASSUME NEW k \in 1..Len(d)
          PROVE  Len(d) >= 1
      BY <2>5
    <3> QED
      BY <3>1
  <2>7. Len(d) \in 1..MaxDescription <=> Len(d) >= 1 /\ Len(d) =< MaxDescription
    BY <2>5, LimitsAssumption
  <2> QED
    BY <2>3, <2>4, <2>5, <2>6, <2>7 DEF c, d
<1>3. CASE ~ \A i \in 1..n : Matches(list[i].command)
  BY <1>1, <1>2, <1>3 DEF Valid, Meaningful
<1>4. CASE \A i \in 1..n : Matches(list[i].command)
  <2> DEFINE normal == Normal(list)
  <2>1. /\ Len(normal) = n /\ DOMAIN normal = 1..n
        /\ \A i \in 1..n : /\ IsName(Bare(list[i].command))
                           /\ normal[i].command = <<"/">> \o Bare(list[i].command)
                           /\ normal[i].description = Trim(list[i].description)
    BY <1>4, NormalOfList DEF n
  <2> HIDE DEF normal
  <2>2. \A i \in 1..n : normal[i].command # <<>>
    BY <2>1, Slashed
  <2>3. ASSUME NEW i \in 1..n, NEW j \in 1..n
        PROVE  Key(normal[i].command) = Key(normal[j].command) <=>
                 Folded(list[i].command) = Folded(list[j].command)
    <3> DEFINE a == Bare(list[i].command)
               b == Bare(list[j].command)
               r == normal[i].command
               s == normal[j].command
    <3>1. Folded(list[i].command) = Lower(a) /\ Folded(list[j].command) = Lower(b)
      BY DEF Folded, Lower
    <3>2. IsName(a) /\ IsName(b) /\ r = <<"/">> \o a /\ s = <<"/">> \o b
      BY <2>1
    <3> HIDE DEF a, b, r, s
    <3>3. Key(r) = Key(s) <=> Lower(a) = Lower(b)
      <4>1. r = WithSlash(a) /\ s = WithSlash(b)
        BY <3>2 DEF WithSlash
      <4>2. Key(WithSlash(a)) = Key(WithSlash(b)) <=> Lower(a) = Lower(b)
        BY <3>2, KeysOfNames
      <4> QED
        BY <4>1, <4>2
    <3> QED
      BY <3>1, <3>3 DEF r, s
  <2>4. Accepted(normal) <=>
          /\ n =< MaxCommands
          /\ \A i \in 1..n : Trim(list[i].description) # <<>>
          /\ \A i, j \in 1..n : Folded(list[i].command) = Folded(list[j].command) => i = j
    <3>1. Accepted(normal) <=>
            /\ Len(normal) =< MaxCommands
            /\ \A i \in 1..n : normal[i].command # <<>> /\ normal[i].description # <<>>
            /\ \A i, j \in 1..n : Key(normal[i].command) = Key(normal[j].command) => i = j
      BY <2>1, Zenon DEF Accepted
    <3>2. (\A i, j \in 1..n : Key(normal[i].command) = Key(normal[j].command) => i = j) <=>
          \A i, j \in 1..n : Folded(list[i].command) = Folded(list[j].command) => i = j
      BY <2>3, Zenon
    <3>3. (\A i \in 1..n : normal[i].command # <<>> /\ normal[i].description # <<>>) <=>
          \A i \in 1..n : Trim(list[i].description) # <<>>
      BY <2>1, <2>2, Zenon
    <3>4. Len(normal) = n
      BY <2>1
    <3> QED
      BY <3>1, <3>2, <3>3, <3>4, Zenon
  <2>5. Valid(list) <=>
          /\ n =< MaxCommands
          /\ \A i \in 1..n : /\ Len(list[i].command) =< MaxName
                             /\ Len(list[i].description) \in 1..MaxDescription
    BY <1>1, <1>4 DEF Valid, n
  <2>6. Meaningful(list) <=>
          /\ n =< MaxCommands
          /\ \A i \in 1..n :
               /\ Len(list[i].command) =< MaxName
               /\ Len(list[i].description) =< MaxDescription
               /\ \E k \in DOMAIN list[i].description : list[i].description[k] # " "
          /\ \A i, j \in 1..n : Folded(list[i].command) = Folded(list[j].command) => i = j
    <3>1. \A i \in 1..n : Bare(list[i].command) # <<>> /\ Range(Bare(list[i].command)) \subseteq NameChars
      BY <1>2, <1>4
    <3> QED
      BY <1>1, <3>1 DEF Meaningful, n
  <2> QED
    BY <1>2, <2>4, <2>5, <2>6 DEF normal
<1> QED
  BY <1>3, <1>4

\* What is stored of an accepted list is normal, and its names match the pattern.
LEMMA NormalIsStored ==
  ASSUME NEW list \in Seq(Commands), Valid(list), Accepted(Normal(list))
  PROVE  Stored(Normal(list))
<1> DEFINE n == Len(list)
           normal == Normal(list)
<1>1. /\ n \in Nat /\ DOMAIN list = 1..n
      /\ \A i \in 1..n : list[i].command \in Seq(Chars) /\ list[i].description \in Seq(Chars)
  BY Items
<1>2. \A i \in 1..n : Matches(list[i].command) /\ Len(list[i].description) =< MaxDescription
  BY <1>1, LimitsAssumption DEF Valid
<1>3. /\ normal \in Seq(Commands) /\ Len(normal) = n /\ DOMAIN normal = 1..n
      /\ \A i \in 1..n : /\ IsName(Bare(list[i].command))
                         /\ normal[i].command = <<"/">> \o Bare(list[i].command)
                         /\ normal[i].description = Trim(list[i].description)
                         /\ normal[i] = [command |-> <<"/">> \o Bare(list[i].command),
                                         description |-> Trim(list[i].description)]
  BY <1>2, NormalOfList
<1>a. normal \in Seq(Commands)
  BY <1>3
<1> HIDE DEF n, normal
<1>4. ASSUME NEW i \in 1..n
      PROVE  /\ Matches(normal[i].command)
             /\ Bare(normal[i].command) = Bare(list[i].command)
             /\ Trim(normal[i].description) = normal[i].description
             /\ Len(normal[i].description) =< MaxDescription
  <2> DEFINE t == Bare(list[i].command)
             s == normal[i].command
             d == list[i].description
             e == normal[i].description
  <2>1. IsName(t) /\ s = <<"/">> \o t /\ e = Trim(d)
    BY <1>3
  <2>2. d \in Seq(Chars)
    BY <1>1
  <2>3. Len(d) =< MaxDescription
    BY <1>2
  <2> HIDE DEF t, s, d, e
  <2>4. s \in Seq(Chars) /\ s[1] = "/" /\ s # <<>> /\ Tail(s) = t
    BY <2>1, Slashed
  <2>5. Bare(s) = t
    BY <2>4 DEF Bare
  <2>6. Matches(s)
    BY <2>1, <2>4, <2>5, MatchesNames
  <2>7. e \in Seq(Chars) /\ Len(e) =< Len(d) /\ Trimmed(e)
    BY <2>1, <2>2, TrimCuts
  <2>8. Trim(e) = e
    BY <2>7, TrimKeeps
  <2>9. Len(e) =< MaxDescription
    <3>1. Len(d) \in Nat /\ Len(e) \in Nat
      BY <2>2, <2>7, LenOf
    <3> QED
      BY <2>3, <2>7, <3>1, LimitsAssumption
  <2> QED
    BY <2>5, <2>6, <2>8, <2>9 DEF t, s, e
<1>5. Normal(normal) = normal
  <2> DEFINE again == Normal(normal)
  <2>1. \A i \in 1..Len(normal) : Matches(normal[i].command)
    BY <1>3, <1>4
  <2>2. /\ again \in Seq(Commands) /\ Len(again) = n
        /\ \A i \in 1..n : again[i] = [command     |-> <<"/">> \o Bare(normal[i].command),
                                       description |-> Trim(normal[i].description)]
    BY <1>a, <1>3, <2>1, NormalOfList
  <2> HIDE DEF again
  <2>3. \A i \in 1..n : again[i] = normal[i]
    BY <1>3, <1>4, <2>2
  <2>4. again = [i \in 1..n |-> again[i]] /\ normal = [i \in 1..n |-> normal[i]]
    BY <1>3, <2>2
  <2> QED
    BY <2>3, <2>4 DEF again
<1>6. Accepted(normal)
  BY DEF normal
<1> QED
  BY <1>3, <1>4, <1>5, <1>6 DEF Stored, normal

\* A stored list can be set again when its names are short enough.
LEMMA StoredIsValid ==
  ASSUME NEW list, Stored(list)
  PROVE  Valid(list) <=> \A i \in DOMAIN list : Len(list[i].command) =< MaxName
<1>1. /\ list \in Seq(Commands) /\ Accepted(list)
      /\ \A i \in DOMAIN list :
           Matches(list[i].command) /\ Len(list[i].description) =< MaxDescription
  BY DEF Stored
<1>2. ASSUME NEW i \in DOMAIN list
      PROVE  Len(list[i].description) \in 1..MaxDescription
  <2> DEFINE d == list[i].description
  <2>1. d \in Seq(Chars)
    BY <1>1, Items
  <2>2. d # <<>>
    BY <1>1 DEF Accepted
  <2>3. Len(d) =< MaxDescription
    BY <1>1
  <2> HIDE DEF d
  <2>4. Len(d) \in Nat /\ Len(d) # 0
    BY <2>1, <2>2, LenOf
  <2>5. Len(d) \in 1..MaxDescription
    BY <2>3, <2>4, LimitsAssumption
  <2> QED
    BY <2>5 DEF d
<1>3. Len(list) =< MaxCommands
  BY <1>1 DEF Accepted
<1> QED
  BY <1>1, <1>2, <1>3 DEF Valid

\* One step of the service, from a row that holds a stored list.
LEMMA Setting ==
  ASSUME Stored(commands), NEW list \in Seq(Commands), SetMyCommands(list)
  PROVE  /\ Stored(commands)'
         /\ AcceptedAsSent'
         /\ list = commands =>
              /\ commands' = commands
              /\ answer' = "ok" <=> \A i \in DOMAIN commands : Len(commands[i].command) =< MaxName
<1> DEFINE taken == Valid(list) /\ Accepted(Normal(list))
<1>1. taken <=> Meaningful(list)
  BY AcceptedWhenMeaningful
<1>2. request' = list
  BY DEF SetMyCommands
<1>3. CASE taken
  <2>1. commands' = Normal(list) /\ answer' = "ok"
    BY <1>3 DEF SetMyCommands
  <2>2. Stored(Normal(list))
    BY <1>3, NormalIsStored
  <2>3. Stored(commands')
    BY <2>1, <2>2
  <2>4. \A i \in 1..Len(list) : Matches(list[i].command)
    BY <1>3, Items DEF Valid
  <2>5. /\ Len(Normal(list)) = Len(list) /\ DOMAIN list = 1..Len(list)
        /\ \A i \in 1..Len(list) : Normal(list)[i].command = <<"/">> \o Bare(list[i].command)
    BY <2>4, NormalOfList, Items
  <2>6. AcceptedAsSent'
    BY <1>1, <1>2, <1>3, <2>1, <2>5 DEF AcceptedAsSent
  <2>7. ASSUME list = commands
        PROVE  /\ commands' = commands
               /\ answer' = "ok"
               /\ \A i \in DOMAIN commands : Len(commands[i].command) =< MaxName
    <3>1. Normal(commands) = commands
      BY DEF Stored
    <3>2. commands' = commands
      BY <2>1, <2>7, <3>1
    <3>3. \A i \in DOMAIN commands : Len(commands[i].command) =< MaxName
      BY <1>3, <2>7, StoredIsValid
    <3> QED
      BY <2>1, <3>2, <3>3
  <2> QED
    BY <2>3, <2>6, <2>7
<1>4. CASE ~taken
  <2>1. commands' = commands /\ answer' = "400"
    BY <1>4 DEF SetMyCommands
  <2>2. Stored(commands')
    BY <2>1
  <2>3. AcceptedAsSent'
    BY <1>1, <1>2, <1>4, <2>1 DEF AcceptedAsSent
  <2>4. ASSUME list = commands
        PROVE  ~ \A i \in DOMAIN commands : Len(commands[i].command) =< MaxName
    <3>1. Normal(commands) = commands /\ Accepted(commands)
      BY DEF Stored
    <3>2. ~Valid(commands)
      BY <1>4, <2>4, <3>1
    <3> QED
      BY <3>2, StoredIsValid
  <2> QED
    BY <2>1, <2>2, <2>3, <2>4
<1> HIDE DEF taken
<1> QED
  BY <1>3, <1>4

-----------------------------------------------------------------------------
(* What the row holds is normal, and the last answer was the right one.    *)

IInv == Stored(commands) /\ AcceptedAsSent

\* The row starts empty or with the commands of the migration.
LEMMA InitInv == Init => IInv
<1> SUFFICES ASSUME Init
             PROVE  IInv
  OBVIOUS
<1>1. CASE commands = <<>>
  <2>1. Stored(<<>>)
    <3>1. <<>> \in Seq(Commands) /\ Len(<<>>) = 0 /\ DOMAIN <<>> = {}
      OBVIOUS
    <3>2. Normal(<<>>) = <<>>
      BY DEF Normal
    <3>3. Accepted(<<>>)
      BY <3>1, LimitsAssumption DEF Accepted
    <3> QED
      BY <3>1, <3>2, <3>3 DEF Stored
  <2> QED
    BY <1>1, <2>1 DEF IInv, AcceptedAsSent, Init
<1>2. CASE commands = Backfilled
  BY <1>2, BackfilledAssumption DEF IInv, AcceptedAsSent, Init
<1> QED
  BY <1>1, <1>2 DEF Init

\* Whatever list a step takes, it is one of Requests or the list of the row.
LEMMA Steps ==
  ASSUME Stored(commands), Next
  PROVE  \E list \in Seq(Commands) : SetMyCommands(list)
<1>1. commands \in Seq(Commands)
  BY DEF Stored
<1> QED
  BY <1>1, RequestsAssumption DEF Next, SetAgain

\* Each call leaves a normal list, and answers as it should.
LEMMA NextInv == IInv /\ [Next]_vars => IInv'
<1> SUFFICES ASSUME IInv, [Next]_vars
             PROVE  IInv'
  OBVIOUS
<1>1. CASE Next
  <2>1. PICK list \in Seq(Commands) : SetMyCommands(list)
    BY <1>1, Steps DEF IInv
  <2>2. Stored(commands)' /\ AcceptedAsSent'
    BY <2>1, Setting DEF IInv
  <2> QED
    BY <2>2 DEF IInv
<1>2. CASE UNCHANGED vars
  BY <1>2 DEF IInv, AcceptedAsSent, vars
<1> QED
  BY <1>1, <1>2

(***************************************************************************)
(* The row of the bot holds, at all times, a list that normalisation       *)
(* leaves as it is and accepts, whose names pass the pattern.              *)
(***************************************************************************)
THEOREM Invariant == Spec => []IInv
BY InitInv, NextInv, PTL DEF Spec

(***************************************************************************)
(* setMyCommands answers ok exactly for the meaningful lists, and stores   *)
(* their names as they were sent, each with one slash.                     *)
(***************************************************************************)
THEOREM TakenAsSent == Spec => []AcceptedAsSent
<1>1. IInv => AcceptedAsSent
  BY DEF IInv
<1> QED
  BY Invariant, <1>1, PTL

(***************************************************************************)
(* Setting the list the row holds changes nothing, and is refused only     *)
(* when a stored name is longer, by its slash, than validation allows.     *)
(***************************************************************************)
THEOREM SetAgainChangesNothing == Spec => SettingWhatIsSet
<1>1. ASSUME IInv, [Next]_vars
      PROVE  [request' = commands =>
                /\ commands' = commands
                /\ answer' = "ok" <=>
                     \A i \in DOMAIN commands : Len(commands[i].command) =< MaxName]_vars
  <2>1. CASE Next
    <3>1. PICK list \in Seq(Commands) : SetMyCommands(list)
      BY <1>1, <2>1, Steps DEF IInv
    <3>2. request' = list
      BY <3>1 DEF SetMyCommands
    <3>3. list = commands =>
            /\ commands' = commands
            /\ answer' = "ok" <=> \A i \in DOMAIN commands : Len(commands[i].command) =< MaxName
      BY <1>1, <3>1, Setting DEF IInv
    <3> QED
      BY <3>2, <3>3
  <2>2. CASE UNCHANGED vars
    BY <2>2
  <2> QED
    BY <1>1, <2>1, <2>2
<1> QED
  BY Invariant, <1>1, PTL DEF Spec, SettingWhatIsSet
=============================================================================
