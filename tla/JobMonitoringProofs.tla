------------------------ MODULE JobMonitoringProofs -------------------------
(***************************************************************************)
(* The records of the job monitor are read back as they were written: no    *)
(* text of a record reads as the name of a field, so each field is found    *)
(* where it was written; numbers, words, texts, metrics, lists and the data *)
(* of a message are read from there.                                       *)
(***************************************************************************)
EXTENDS Requests, QueueFilterProofs, SequenceTheorems

(* No place of a text reads as a field of the name, whatever stands before  *)
(* the text and after it.                                                  *)
Silent(a, k) ==
    /\ a # <<>> => a[1] # ":"
    /\ \A i \in 1..Len(a) : a[i] = k =>
          /\ i > 1 /\ i < Len(a)
          /\ ~(a[i - 1] = Quote /\ a[i + 1] = Quote /\ i + 2 <= Len(a) /\ a[i + 2] = ":")

(* Two such texts put together.                                             *)
LEMMA SilentJoin ==
    ASSUME NEW S, NEW a \in Seq(S), NEW b \in Seq(S), NEW k, Silent(a, k), Silent(b, k)
    PROVE  Silent(a \o b, k)
  <1> DEFINE n == Len(a)
             m == Len(b)
             c == a \o b
             colon == ":"
  <1>1. /\ n \in Nat /\ m \in Nat /\ Len(c) = n + m
        /\ \A i \in 1..n : c[i] = a[i]
        /\ \A i \in 1..m : c[n + i] = b[i]
    OBVIOUS
  <1> HIDE DEF colon
  <1>2. \A i \in 1..n : a[i] = k => /\ i > 1 /\ i < n
                                    /\ ~(a[i - 1] = Quote /\ a[i + 1] = Quote
                                         /\ i + 2 <= n /\ a[i + 2] = colon)
    BY Zenon DEF Silent, colon
  <1>3. \A i \in 1..m : b[i] = k => /\ i > 1 /\ i < m
                                    /\ ~(b[i - 1] = Quote /\ b[i + 1] = Quote
                                         /\ i + 2 <= m /\ b[i + 2] = colon)
    BY Zenon DEF Silent, colon
  <1>4. (n > 0 => a[1] # colon) /\ (m > 0 => b[1] # colon)
    <2>1. (n > 0 => a # <<>>) /\ (m > 0 => b # <<>>)
      OBVIOUS
    <2> QED BY <2>1, Zenon DEF Silent, colon
  <1> HIDE DEF n, m, c
  <1>5. ASSUME NEW i \in 1..n + m, c[i] = k
        PROVE  /\ i > 1 /\ i < n + m
               /\ ~(c[i - 1] = Quote /\ c[i + 1] = Quote /\ i + 2 <= n + m /\ c[i + 2] = colon)
    <2>1. CASE i <= n
      <3>1. i \in 1..n /\ a[i] = k
        BY <1>1, <1>5, <2>1
      <3>2. /\ i > 1 /\ i < n
            /\ ~(a[i - 1] = Quote /\ a[i + 1] = Quote /\ i + 2 <= n /\ a[i + 2] = colon)
        BY <1>2, <3>1
      <3>3. i - 1 \in 1..n /\ i + 1 \in 1..n
        BY <1>1, <3>1, <3>2
      <3>4. c[i - 1] = a[i - 1] /\ c[i + 1] = a[i + 1]
        BY <1>1, <3>3
      <3>5. ASSUME i + 2 <= n PROVE c[i + 2] = a[i + 2]
        BY <1>1, <3>1, <3>5
      <3>6. ASSUME ~(i + 2 <= n), i + 2 <= n + m PROVE c[i + 2] # colon
        <4>1. i + 2 = n + 1 /\ 1 \in 1..m /\ m > 0
          BY <1>1, <3>1, <3>2, <3>6
        <4>2. c[n + 1] = b[1]
          BY <1>1, <4>1
        <4> QED BY <1>4, <4>1, <4>2
      <3> QED BY <1>1, <3>1, <3>2, <3>4, <3>5, <3>6
    <2>2. CASE ~(i <= n)
      <3> DEFINE j == i - n
      <3>1. j \in 1..m /\ n + j = i
        BY <1>1, <2>2
      <3>2. b[j] = k
        BY <1>1, <1>5, <3>1
      <3> HIDE DEF j
      <3>3. /\ j > 1 /\ j < m
            /\ ~(b[j - 1] = Quote /\ b[j + 1] = Quote /\ j + 2 <= m /\ b[j + 2] = colon)
        BY <1>3, <3>1, <3>2
      <3>4. j - 1 \in 1..m /\ j + 1 \in 1..m /\ n + (j - 1) = i - 1 /\ n + (j + 1) = i + 1
        BY <1>1, <3>1, <3>3
      <3>5. c[i - 1] = b[j - 1] /\ c[i + 1] = b[j + 1]
        BY <1>1, <3>4
      <3>6. ASSUME i + 2 <= n + m PROVE j + 2 <= m /\ c[i + 2] = b[j + 2]
        <4>1. j + 2 \in 1..m /\ n + (j + 2) = i + 2
          BY <1>1, <3>1, <3>6
        <4>2. c[n + (j + 2)] = b[j + 2]
          BY <1>1, <4>1
        <4> QED BY <1>1, <4>1, <4>2
      <3> QED BY <1>1, <3>1, <3>3, <3>5, <3>6
    <2> QED BY <2>1, <2>2
  <1>6. c # <<>> => c[1] # colon
    <2>1. ASSUME c # <<>>, n > 0 PROVE c[1] # colon
      <3>1. 1 \in 1..n
        BY <1>1, <2>1
      <3> QED BY <1>1, <1>4, <2>1, <3>1
    <2>2. ASSUME c # <<>>, ~(n > 0) PROVE c[1] # colon
      <3>1. n + m > 0
        <4>1. c \in Seq(S)
          BY DEF c
        <4>2. \A q \in Seq(S) : q # <<>> => Len(q) > 0
          OBVIOUS
        <4> QED BY <1>1, <2>2, <4>1, <4>2
      <3>2. n = 0 /\ m > 0 /\ 1 \in 1..m /\ n + 1 = 1
        BY <1>1, <2>2, <3>1
      <3>3. c[n + 1] = b[1]
        BY <1>1, <3>2
      <3> QED BY <1>4, <3>2, <3>3
    <2> QED BY <2>1, <2>2
  <1>7. Silent(c, k)
    <2>1. \A i \in 1..Len(c) : c[i] = k =>
             /\ i > 1 /\ i < Len(c)
             /\ ~(c[i - 1] = Quote /\ c[i + 1] = Quote /\ i + 2 <= Len(c) /\ c[i + 2] = colon)
      BY <1>1, <1>5
    <2> QED BY <1>6, <2>1, Zenon DEF Silent, colon
  <1> QED BY <1>7 DEF c

-----------------------------------------------------------------------------
Colon == ":"
Slash == "\\"
ListOpen == "["
ListClose == "]"

(* The marks are symbols of texts, and no two of them are the same.         *)
LEMMA MarksAre ==
    /\ Quote \in Symbols /\ Slash \in Symbols /\ Colon \in Symbols /\ Comma \in Symbols
    /\ Open \in Symbols /\ Close \in Symbols /\ ListOpen \in Symbols /\ ListClose \in Symbols
    /\ Quote \in Marks /\ Slash \in Marks /\ Colon \in Marks /\ Comma \in Marks
    /\ Open \in Marks /\ Close \in Marks /\ ListOpen \in Marks /\ ListClose \in Marks
    /\ Quote # Slash /\ Quote # Colon /\ Quote # Comma /\ Quote # Open /\ Quote # Close
    /\ Quote # ListOpen /\ Quote # ListClose /\ Colon # Slash /\ Colon # Comma /\ Colon # Open
    /\ Colon # Close /\ Colon # ListOpen /\ Colon # ListClose /\ Close # Comma /\ Close # Slash
    /\ Close # Open /\ ListClose # Comma /\ ListClose # ListOpen /\ ListClose # Slash
  <1>1. Marks \subseteq Symbols
    BY Zenon DEF Symbols
  <1>2. /\ Quote \in Marks /\ Slash \in Marks /\ Colon \in Marks /\ Comma \in Marks
        /\ Open \in Marks /\ Close \in Marks /\ ListOpen \in Marks /\ ListClose \in Marks
    BY Zenon DEF Marks, Quote, Slash, Colon, Comma, Open, Close, ListOpen, ListClose
  <1>3. /\ Quote # Slash /\ Quote # Colon /\ Quote # Comma /\ Quote # Open /\ Quote # Close
        /\ Quote # ListOpen /\ Quote # ListClose /\ Colon # Slash /\ Colon # Comma /\ Colon # Open
    BY Zenon DEF Quote, Slash, Colon, Comma, Open, Close, ListOpen, ListClose
  <1>4. /\ Colon # Close /\ Colon # ListOpen /\ Colon # ListClose /\ Close # Comma /\ Close # Slash
        /\ Close # Open /\ ListClose # Comma /\ ListClose # ListOpen /\ ListClose # Slash
    BY Zenon DEF Quote, Slash, Colon, Comma, Open, Close, ListOpen, ListClose
  <1> QED BY <1>1, <1>2, <1>3, <1>4

(* A text without the name is silent, if it does not begin with a colon.    *)
LEMMA SilentWithout ==
    ASSUME NEW a, NEW k, \A i \in 1..Len(a) : a[i] # k, a # <<>> => a[1] # Colon
    PROVE  Silent(a, k)
  BY Zenon DEF Silent, Colon

-----------------------------------------------------------------------------
(* Quotes stand behind a backslash only.                                    *)
Escaped(e) == \A i \in 1..Len(e) : e[i] = Quote => i > 1 /\ e[i - 1] = Slash

(* Two escaped texts put together are one.                                  *)
LEMMA EscapedJoin ==
    ASSUME NEW S, NEW a \in Seq(S), NEW b \in Seq(S), Escaped(a), Escaped(b)
    PROVE  Escaped(a \o b)
  <1> DEFINE n == Len(a)
             m == Len(b)
             c == a \o b
  <1>1. /\ n \in Nat /\ m \in Nat /\ Len(c) = n + m
        /\ \A i \in 1..n : c[i] = a[i]
        /\ \A i \in 1..m : c[n + i] = b[i]
    OBVIOUS
  <1>2. /\ \A i \in 1..n : a[i] = Quote => i > 1 /\ a[i - 1] = Slash
        /\ \A i \in 1..m : b[i] = Quote => i > 1 /\ b[i - 1] = Slash
    BY DEF Escaped
  <1> HIDE DEF n, m, c
  <1>3. ASSUME NEW i \in 1..n + m, c[i] = Quote PROVE i > 1 /\ c[i - 1] = Slash
    <2>1. CASE i <= n
      <3>1. i \in 1..n /\ a[i] = Quote
        BY <1>1, <1>3, <2>1
      <3>2. i > 1 /\ a[i - 1] = Slash /\ i - 1 \in 1..n
        BY <1>1, <1>2, <3>1
      <3> QED BY <1>1, <3>2
    <2>2. CASE ~(i <= n)
      <3> DEFINE j == i - n
      <3>1. j \in 1..m /\ n + j = i
        BY <1>1, <2>2
      <3> HIDE DEF j
      <3>2. b[j] = Quote
        BY <1>1, <1>3, <3>1
      <3>3. j > 1 /\ b[j - 1] = Slash /\ j - 1 \in 1..m /\ n + (j - 1) = i - 1
        BY <1>1, <1>2, <3>1, <3>2
      <3>4. c[n + (j - 1)] = b[j - 1]
        BY <1>1, <3>3
      <3> QED BY <1>1, <3>1, <3>3, <3>4
    <2> QED BY <2>1, <2>2
  <1>4. Escaped(c)
    BY <1>1, <1>3 DEF Escaped
  <1> QED BY <1>4 DEF c

(* What escapeJsonString makes of one symbol.                               *)
Written1(s) ==
    CASE s = "\"" -> <<"\\", "\"">> [] s = "\\" -> <<"\\", "\\">> [] s = "\n" -> <<"\\", "n">>
      [] OTHER -> <<s>>

(* One symbol is written escaped.                                           *)
LEMMA WrittenSymbol ==
    ASSUME NEW s \in Symbols
    PROVE  /\ Written1(s) \in Seq(Symbols) /\ Escaped(Written1(s))
           /\ s \notin {"\"", "\\", "\n"} => Written1(s) = <<s>>
  <1> DEFINE en == "n"
             ret == "\n"
  <1>0. Quote \in Symbols /\ Slash \in Symbols /\ Quote # Slash
    BY MarksAre
  <1>1. /\ en \in Symbols /\ en # Quote /\ ret # Quote /\ ret # Slash
    BY Zenon DEF Symbols, Quote, Slash
  <1>2. Written1(s) = CASE s = Quote -> <<Slash, Quote>> [] s = Slash -> <<Slash, Slash>>
                        [] s = ret -> <<Slash, en>> [] OTHER -> <<s>>
    BY Zenon DEF Written1, Quote, Slash
  <1>3. (s \notin {"\"", "\\", "\n"}) <=> (s # Quote /\ s # Slash /\ s # ret)
    BY Zenon DEF Quote, Slash
  <1> HIDE DEF en, ret
  <1>4. /\ s = Quote => Written1(s) = <<Slash, Quote>>
        /\ s = Slash => Written1(s) = <<Slash, Slash>>
        /\ s = ret => Written1(s) = <<Slash, en>>
        /\ s # Quote /\ s # Slash /\ s # ret => Written1(s) = <<s>>
    BY <1>0, <1>1, <1>2
  <1>5. ASSUME NEW x \in Symbols, x # Quote
        PROVE  <<x>> \in Seq(Symbols) /\ Escaped(<<x>>)
    <2>1. Len(<<x>>) = 1 /\ <<x>>[1] = x /\ \A i \in 1..1 : i = 1
      OBVIOUS
    <2> QED BY <1>5, <2>1 DEF Escaped
  <1>6. ASSUME NEW x \in Symbols
        PROVE  <<Slash, x>> \in Seq(Symbols) /\ Escaped(<<Slash, x>>)
    <2> DEFINE w == <<Slash, x>>
    <2>1. w \in Seq(Symbols) /\ Len(w) = 2 /\ w[1] = Slash /\ w[2] = x
      BY <1>0
    <2> HIDE DEF w
    <2>2. \A i \in 1..2 : i = 1 \/ (i = 2 /\ i > 1 /\ i - 1 = 1)
      OBVIOUS
    <2>3. Escaped(w)
      BY <1>0, <2>1, <2>2 DEF Escaped
    <2> QED BY <2>1, <2>3 DEF w
  <1> QED BY <1>0, <1>1, <1>3, <1>4, <1>5, <1>6

(* A text is written symbol by symbol.                                      *)
LEMMA EscapeIs ==
    ASSUME NEW x
    PROVE  escapeJsonString(x) = FlattenSeq([i \in DOMAIN x |-> Written1(x[i])])
  BY Zenon DEF escapeJsonString, Written1

(* What is written of any text.                                             *)
LEMMA EscapedText ==
    ASSUME NEW x \in AnyText
    PROVE  escapeJsonString(x) \in Seq(Symbols) /\ Escaped(escapeJsonString(x))
  <1> DEFINE G == {e \in Seq(Symbols) : Escaped(e)}
             s == [i \in DOMAIN x |-> Written1(x[i])]
  <1>1. G \in SUBSET Seq(Symbols)
    OBVIOUS
  <1>2. <<>> \in G
    <2>1. <<>> \in Seq(Symbols) /\ \A i \in 1..Len(<<>>) : FALSE
      OBVIOUS
    <2> QED BY <2>1 DEF Escaped
  <1>3. \A a, b \in G : a \o b \in G
    <2> SUFFICES ASSUME NEW a \in Seq(Symbols), NEW b \in Seq(Symbols), Escaped(a), Escaped(b)
                 PROVE  a \o b \in Seq(Symbols) /\ Escaped(a \o b)
      OBVIOUS
    <2>1. a \o b \in Seq(Symbols)
      OBVIOUS
    <2> QED BY <2>1, EscapedJoin
  <1>4. s \in Seq(G)
    <2>1. DOMAIN x = 1..Len(x) /\ Len(x) \in Nat /\ \A i \in DOMAIN x : x[i] \in Symbols
      BY DEF AnyText
    <2>2. \A i \in DOMAIN x : Written1(x[i]) \in G
      BY <2>1, WrittenSymbol
    <2> HIDE DEF G
    <2> QED BY <2>1, <2>2
  <1> HIDE DEF G, s
  <1>5. FlattenSeq(s) \in G
    BY <1>1, <1>2, <1>3, <1>4, FlattenIn
  <1> QED BY <1>5, EscapeIs DEF G, s

(* One symbol for each position.                                            *)
LEMMA FlattenSingles ==
    ASSUME NEW S, NEW x \in Seq(S)
    PROVE  FlattenSeq([i \in 1..Len(x) |-> <<x[i]>>]) = x
  <1> DEFINE n == Len(x)
             s == [i \in 1..n |-> <<x[i]>>]
             T == {m \in Nat : m <= n => FlattenSeq(SubSeq(s, 1, m)) = SubSeq(x, 1, m)}
  <1>1. n \in Nat /\ s \in Seq(Seq(S)) /\ Len(s) = n /\ \A i \in 1..n : s[i] = <<x[i]>> /\ x[i] \in S
    OBVIOUS
  <1> HIDE DEF s
  <1>2. 0 \in T /\ T \in SUBSET Nat
    <2>1. SubSeq(s, 1, 0) = <<>> /\ SubSeq(x, 1, 0) = <<>>
      BY <1>1
    <2>2. FlattenSeq(<<>>) = <<>>
      BY DEF FlattenSeq
    <2> QED BY <2>1, <2>2
  <1>3. ASSUME NEW m \in T PROVE m + 1 \in T
    <2> SUFFICES ASSUME m + 1 <= n PROVE FlattenSeq(SubSeq(s, 1, m + 1)) = SubSeq(x, 1, m + 1)
      BY <1>2
    <2> DEFINE p == SubSeq(s, 1, m)
               q == SubSeq(x, 1, m)
    <2>1. m \in Nat /\ m <= n /\ m + 1 \in 1..n
      BY <1>1, <1>2
    <2>2. p \in Seq(Seq(S)) /\ SubSeq(s, 1, m + 1) = Append(p, s[m + 1])
      BY <1>1, <2>1
    <2>3. FlattenSeq(p) = q
      BY <1>1, <2>1
    <2>4. q \in Seq(S) /\ SubSeq(x, 1, m + 1) = q \o <<x[m + 1]>>
      <3>1. SubSeq(x, 1, m + 1) = Append(q, x[m + 1]) /\ q \in Seq(S) /\ x[m + 1] \in S
        BY <1>1, <2>1
      <3>2. Append(q, x[m + 1]) = q \o <<x[m + 1]>>
        BY <3>1
      <3> QED BY <3>1, <3>2
    <2> HIDE DEF p, q, T
    <2>5. FlattenSeq(Append(p, s[m + 1])) = FlattenSeq(p) \o s[m + 1]
      <3>1. s[m + 1] \in Seq(S)
        BY <1>1, <2>1
      <3> QED BY <2>2, <3>1, FlattenAppend
    <2> QED BY <1>1, <2>1, <2>2, <2>3, <2>4, <2>5
  <1>4. n \in T
    <2> HIDE DEF T
    <2> QED BY <1>1, <1>2, <1>3, SetInduction
  <1>5. SubSeq(s, 1, n) = s /\ SubSeq(x, 1, n) = x
    BY <1>1
  <1>6. FlattenSeq(SubSeq(s, 1, n)) = SubSeq(x, 1, n)
    <2> HIDE DEF n
    <2> QED BY <1>1, <1>4
  <1>7. FlattenSeq(s) = x
    BY <1>5, <1>6
  <1> QED BY <1>7 DEF s

(* A plain text is written as it is.                                        *)
LEMMA EscapedPlain ==
    ASSUME NEW x \in AnyText, PlainText(x)
    PROVE  escapeJsonString(x) = x /\ \A i \in 1..Len(x) : x[i] # Quote
  <1>1. DOMAIN x = 1..Len(x) /\ Len(x) \in Nat /\ x \in Seq(Symbols)
    BY DEF AnyText
  <1>2. ToSet(x) = {x[i] : i \in DOMAIN x}
    BY DEF ToSet
  <1>3. \A i \in 1..Len(x) : x[i] \notin {"\"", "\\", "\n"}
    BY <1>1, <1>2, Zenon DEF PlainText
  <1>4. \A i \in 1..Len(x) : x[i] # Quote
    BY <1>3, Zenon DEF Quote
  <1>5. \A i \in 1..Len(x) : x[i] \in Symbols
    BY <1>1
  <1>6. \A i \in 1..Len(x) : Written1(x[i]) = <<x[i]>>
    BY <1>3, <1>5, WrittenSymbol, Zenon
  <1>7. [i \in DOMAIN x |-> Written1(x[i])] = [i \in 1..Len(x) |-> <<x[i]>>]
    BY <1>1, <1>6, Zenon
  <1>8. escapeJsonString(x) = x
    BY <1>1, <1>7, EscapeIs, FlattenSingles
  <1> QED BY <1>4, <1>8

(* A text between quotes, as it is written, is silent.                      *)
LEMMA TextSilent ==
    ASSUME NEW x \in AnyText, NEW k, k \notin Marks
    PROVE  JText(x) \in Seq(Symbols) /\ JText(x) # <<>> /\ Silent(JText(x), k)
  <1> DEFINE e == escapeJsonString(x)
             t == <<Quote>> \o e \o <<Quote>>
             n == Len(e)
  <1>1. e \in Seq(Symbols) /\ Escaped(e)
    BY EscapedText
  <1> HIDE DEF e
  <1>2. Quote \in Symbols /\ k # Quote /\ k # Slash /\ Quote # Colon
    BY MarksAre
  <1>3. /\ n \in Nat /\ t \in Seq(Symbols) /\ Len(t) = n + 2 /\ t[1] = Quote /\ t[n + 2] = Quote
        /\ \A i \in 1..n : t[i + 1] = e[i]
    BY <1>1, <1>2
  <1>4. JText(x) = t
    BY Zenon DEF JText, Quote, e
  <1> HIDE DEF t, n
  <1>5. \A i \in 1..n : e[i] = Quote => i > 1 /\ e[i - 1] = Slash
    BY <1>1 DEF Escaped, n
  <1>6. ASSUME NEW i \in 1..n + 2, t[i] = k
        PROVE  i > 1 /\ i < n + 2 /\ ~(t[i - 1] = Quote /\ t[i + 1] = Quote
                                       /\ i + 2 <= n + 2 /\ t[i + 2] = Colon)
    <2>1. i > 1 /\ i < n + 2
      BY <1>2, <1>3, <1>6
    <2>2. ASSUME t[i + 1] = Quote, i + 2 <= n + 2 PROVE FALSE
      <3>1. i \in 1..n /\ i - 1 \in 1..n /\ (i - 1) + 1 = i
        BY <1>3, <2>1, <2>2
      <3>2. e[i] = Quote /\ e[i - 1] = k
        BY <1>3, <1>6, <2>2, <3>1
      <3> QED BY <1>2, <1>5, <3>1, <3>2
    <2> QED BY <2>1, <2>2
  <1>7. Silent(t, k)
    <2>1. t[1] # Colon
      BY <1>2, <1>3
    <2>2. \A i \in 1..Len(t) : t[i] = k =>
             i > 1 /\ i < Len(t) /\ ~(t[i - 1] = Quote /\ t[i + 1] = Quote
                                      /\ i + 2 <= Len(t) /\ t[i + 2] = Colon)
      BY <1>3, <1>6
    <2> QED BY <2>1, <2>2, Zenon DEF Silent, Colon
  <1>8. t # <<>>
    BY <1>3
  <1> QED BY <1>3, <1>4, <1>7, <1>8

-----------------------------------------------------------------------------
(* The name of a field stands here.                                         *)
KeyAt(T, k, i) == T[i] = Quote /\ T[i + 1] = k /\ T[i + 2] = Quote /\ T[i + 3] = Colon

(* ... which is what the readers look for.                                  *)
LEMMA KeyIs ==
    ASSUME NEW T \in Seq(Symbols), NEW k \in Symbols, NEW i \in 1 .. Len(T) - 3
    PROVE  SubSeq(T, i, i + 3) = JField(k, <<>>) <=> KeyAt(T, k, i)
  <1> DEFINE s == SubSeq(T, i, i + 3)
             q == <<Quote, k, Quote, Colon>>
  <1>1. JField(k, <<>>) = q \o <<>>
    BY Zenon DEF JField, Quote, Colon
  <1>2. q \o <<>> = q /\ Len(q) = 4 /\ q[1] = Quote /\ q[2] = k /\ q[3] = Quote /\ q[4] = Colon
        /\ q \in Seq(Symbols)
    BY MarksAre
  <1>3. /\ s \in Seq(Symbols) /\ Len(s) = 4 /\ s[1] = T[i] /\ s[2] = T[i + 1]
        /\ s[3] = T[i + 2] /\ s[4] = T[i + 3]
    <2>1. i \in Nat /\ i >= 1 /\ i + 3 <= Len(T) /\ Len(T) \in Nat
      OBVIOUS
    <2>2. s \in Seq(Symbols) /\ Len(s) = 4 /\ \A j \in 1..4 : s[j] = T[i + j - 1]
      BY <2>1
    <2> HIDE DEF s
    <2>3. /\ 1 \in 1..4 /\ 2 \in 1..4 /\ 3 \in 1..4 /\ 4 \in 1..4
          /\ i + 1 - 1 = i /\ i + 2 - 1 = i + 1 /\ i + 3 - 1 = i + 2 /\ i + 4 - 1 = i + 3
      BY <2>1
    <2> QED BY <2>2, <2>3
  <1> HIDE DEF s, q
  <1>4. s = q <=> s[1] = q[1] /\ s[2] = q[2] /\ s[3] = q[3] /\ s[4] = q[4]
    <2>1. ASSUME s[1] = q[1] /\ s[2] = q[2] /\ s[3] = q[3] /\ s[4] = q[4] PROVE s = q
      <3>1. \A j \in 1..4 : j = 1 \/ j = 2 \/ j = 3 \/ j = 4
        OBVIOUS
      <3>2. \A j \in 1..4 : s[j] = q[j]
        BY <2>1, <3>1
      <3> QED BY <1>2, <1>3, <3>2
    <2> QED BY <2>1
  <1>5. s = q <=> KeyAt(T, k, i)
    BY <1>2, <1>3, <1>4 DEF KeyAt
  <1> QED BY <1>1, <1>2, <1>5 DEF s

(* Where the readers look.                                                  *)
LEMMA PlacesAre ==
    ASSUME NEW T \in Seq(Symbols), NEW k \in Symbols, NEW p
    PROVE  p \in ValuePlaces(T, k) <=> p \in 5 .. Len(T) /\ KeyAt(T, k, p - 4)
  <1>1. Len(T) \in Nat
    OBVIOUS
  <1>2. \A i \in 1 .. Len(T) - 4 : SubSeq(T, i, i + 3) = JField(k, <<>>) <=> KeyAt(T, k, i)
    <2>1. \A i \in 1 .. Len(T) - 4 : i \in 1 .. Len(T) - 3
      BY <1>1
    <2> QED BY <2>1, KeyIs
  <1>3. p \in ValuePlaces(T, k) <=> \E i \in 1 .. Len(T) - 4 : p = i + 4 /\ KeyAt(T, k, i)
    BY <1>2 DEF ValuePlaces
  <1>4. ASSUME NEW i \in 1 .. Len(T) - 4, p = i + 4 PROVE p \in 5 .. Len(T) /\ p - 4 = i
    BY <1>1, <1>4
  <1>5. ASSUME p \in 5 .. Len(T) PROVE p - 4 \in 1 .. Len(T) - 4 /\ p = (p - 4) + 4
    BY <1>1, <1>5
  <1> QED BY <1>3, <1>4, <1>5

(* In a silent text they find nothing.                                      *)
LEMMA NothingThere ==
    ASSUME NEW T \in Seq(Symbols), NEW k \in Symbols, Silent(T, k)
    PROVE  ValuePlaces(T, k) = {}
  <1>1. Len(T) \in Nat
    OBVIOUS
  <1>2. \A i \in 1..Len(T) : T[i] = k =>
           ~(T[i - 1] = Quote /\ T[i + 1] = Quote /\ i + 2 <= Len(T) /\ T[i + 2] = Colon)
    BY Zenon DEF Silent, Colon
  <1>3. ASSUME NEW p \in ValuePlaces(T, k) PROVE FALSE
    <2>1. p \in 5 .. Len(T) /\ KeyAt(T, k, p - 4)
      BY PlacesAre
    <2> DEFINE i == p - 3
    <2>2. i \in 1..Len(T) /\ i - 1 = p - 4 /\ i + 1 = p - 2 /\ i + 2 = p - 1 /\ i + 2 <= Len(T)
      BY <1>1, <2>1
    <2>3. (p - 4) + 1 = i /\ (p - 4) + 2 = i + 1 /\ (p - 4) + 3 = i + 2 /\ p - 4 = i - 1
      BY <2>1
    <2> HIDE DEF i
    <2>4. T[i - 1] = Quote /\ T[i] = k /\ T[i + 1] = Quote /\ T[i + 2] = Colon
      BY <2>1, <2>3 DEF KeyAt
    <2> QED BY <1>2, <2>2, <2>4
  <1> QED BY <1>3

(* A value with its field's name before it, in a text that is silent up to   *)
(* there.                                                                  *)
Amid(T, k, v) ==
    \E a, b \in Seq(Symbols) :
        T = a \o (<<Quote, k, Quote, Colon>> \o (v \o b)) /\ Silent(a, k) /\ b # <<>>

(* It is the first the readers find.                                        *)
Located(T, k, v, p) ==
    /\ T \in Seq(Symbols) /\ p \in Nat /\ p > 4 /\ p + Len(v) <= Len(T)
    /\ \A i \in 1..Len(v) : T[p + (i - 1)] = v[i]
    /\ p \in ValuePlaces(T, k)
    /\ \A q \in ValuePlaces(T, k) : q \in Nat /\ p <= q

(* A field that stands in the text is found where it stands.                *)
LEMMA AmidLocated ==
    ASSUME NEW T, NEW k \in Symbols, k \notin Marks, NEW v \in Seq(Symbols), Amid(T, k, v)
    PROVE  \E p : Located(T, k, v, p)
  <1>1. PICK a \in Seq(Symbols), b \in Seq(Symbols) :
           T = a \o (<<Quote, k, Quote, Colon>> \o (v \o b)) /\ Silent(a, k) /\ b # <<>>
    BY DEF Amid
  <1> DEFINE q == <<Quote, k, Quote, Colon>>
             vb == v \o b
             t == q \o vb
             n == Len(a)
             l == Len(v)
             p == n + 5
             text == a \o t
  <1>0. Quote \in Symbols /\ Colon \in Symbols /\ k # Quote /\ k # Colon /\ Quote # Colon
    BY MarksAre
  <1>2. n \in Nat /\ l \in Nat /\ Len(b) \in Nat /\ Len(b) > 0
    BY <1>1
  <1>3. vb \in Seq(Symbols) /\ Len(vb) = l + Len(b) /\ \A i \in 1..l : vb[i] = v[i]
    OBVIOUS
  <1>4. /\ q \in Seq(Symbols) /\ Len(q) = 4 /\ q[1] = Quote /\ q[2] = k /\ q[3] = Quote
        /\ q[4] = Colon
    BY <1>0
  <1>5. T = text
    BY <1>1
  <1> HIDE DEF q, vb
  <1>6. /\ t \in Seq(Symbols) /\ Len(t) = 4 + Len(vb)
        /\ \A i \in 1..4 : t[i] = q[i]
        /\ \A i \in 1..Len(vb) : t[4 + i] = vb[i]
    <2>1. /\ t \in Seq(Symbols) /\ Len(t) = Len(q) + Len(vb)
          /\ \A i \in 1..Len(q) : t[i] = q[i]
          /\ \A i \in 1..Len(vb) : t[Len(q) + i] = vb[i]
      <3>1. q \in Seq(Symbols) /\ vb \in Seq(Symbols)
        BY <1>3, <1>4
      <3> QED BY <3>1 DEF t
    <2> QED BY <1>4, <2>1
  <1> HIDE DEF t, text
  <1>7. /\ T \in Seq(Symbols) /\ Len(T) = n + Len(t)
        /\ \A i \in 1..n : T[i] = a[i]
        /\ \A i \in 1..Len(t) : T[n + i] = t[i]
    <2>1. /\ text \in Seq(Symbols) /\ Len(text) = n + Len(t)
          /\ \A i \in 1..n : text[i] = a[i]
          /\ \A i \in 1..Len(t) : text[n + i] = t[i]
      <3>1. t \in Seq(Symbols)
        BY <1>6
      <3> QED BY <3>1 DEF text
    <2> QED BY <1>5, <2>1
  <1> HIDE DEF n, l
  <1>8. p \in Nat /\ p > 4 /\ p + l <= Len(T)
    BY <1>2, <1>3, <1>6, <1>7
  <1>9. ASSUME NEW i \in 1..l PROVE T[p + (i - 1)] = v[i]
    <2>1. /\ i \in 1..Len(vb) /\ 4 + i \in 1..Len(t) /\ p + (i - 1) = n + (4 + i)
      BY <1>2, <1>3, <1>6
    <2>2. T[n + (4 + i)] = t[4 + i] /\ t[4 + i] = vb[i]
      BY <1>6, <1>7, <2>1
    <2> QED BY <1>3, <2>1, <2>2
  <1>10. T[n + 1] = Quote /\ T[n + 2] = k /\ T[n + 3] = Quote /\ T[n + 4] = Colon
    <2>1. 1 \in 1..Len(t) /\ 2 \in 1..Len(t) /\ 3 \in 1..Len(t) /\ 4 \in 1..Len(t)
      BY <1>2, <1>3, <1>6
    <2>2. t[1] = Quote /\ t[2] = k /\ t[3] = Quote /\ t[4] = Colon
      <3>1. 1 \in 1..4 /\ 2 \in 1..4 /\ 3 \in 1..4 /\ 4 \in 1..4
        OBVIOUS
      <3> QED BY <1>4, <1>6, <3>1
    <2> QED BY <1>7, <2>1, <2>2
  <1>11. p \in ValuePlaces(T, k)
    <2>1. p \in 5 .. Len(T)
      BY <1>2, <1>3, <1>6, <1>7
    <2>2. p - 4 = n + 1 /\ (n + 1) + 1 = n + 2 /\ (n + 1) + 2 = n + 3 /\ (n + 1) + 3 = n + 4
      BY <1>2
    <2>3. KeyAt(T, k, p - 4)
      BY <1>10, <2>2 DEF KeyAt
    <2> HIDE DEF p
    <2> QED BY <1>7, <2>1, <2>3, PlacesAre
  <1>12. ASSUME NEW x \in ValuePlaces(T, k) PROVE x \in Nat /\ p <= x
    <2>1. x \in 5 .. Len(T) /\ KeyAt(T, k, x - 4)
      BY <1>7, PlacesAre
    <2>2. x \in Nat /\ Len(T) \in Nat /\ x > 4
      BY <1>7, <2>1
    <2>3. ASSUME x < p PROVE FALSE
      <3> DEFINE i == x - 3
      <3>1. /\ i \in 1..n + 1 /\ i > 1 /\ i - 1 = x - 4 /\ (x - 4) + 1 = i /\ (x - 4) + 2 = i + 1
            /\ (x - 4) + 3 = i + 2
        BY <1>2, <2>2, <2>3
      <3> HIDE DEF i
      <3>2. T[i - 1] = Quote /\ T[i] = k /\ T[i + 1] = Quote /\ T[i + 2] = Colon
        BY <2>1, <3>1 DEF KeyAt
      <3>3. i # n + 1
        BY <1>0, <1>10, <3>2
      <3>4. i \in 1..n /\ a[i] = k
        BY <1>2, <1>7, <3>1, <3>2, <3>3
      <3>5. \A j \in 1..n : a[j] = k => /\ j > 1 /\ j < n
               /\ ~(a[j - 1] = Quote /\ a[j + 1] = Quote /\ j + 2 <= n /\ a[j + 2] = Colon)
        BY <1>1, Zenon DEF Silent, Colon, n
      <3>6. /\ i < n
            /\ ~(a[i - 1] = Quote /\ a[i + 1] = Quote /\ i + 2 <= n /\ a[i + 2] = Colon)
        BY <3>4, <3>5
      <3>7. i - 1 \in 1..n /\ i + 1 \in 1..n
        BY <1>2, <3>1, <3>4, <3>6
      <3>8. a[i - 1] = Quote /\ a[i + 1] = Quote
        BY <1>7, <3>2, <3>7
      <3>9. CASE i + 2 <= n
        <4>1. i + 2 \in 1..n
          BY <1>2, <3>4, <3>9
        <4>2. a[i + 2] = Colon
          BY <1>7, <3>2, <4>1
        <4> QED BY <3>6, <3>8, <3>9, <4>2
      <3>10. CASE ~(i + 2 <= n)
        <4>1. i + 2 = n + 1
          BY <1>2, <3>4, <3>6, <3>10
        <4> QED BY <1>0, <1>10, <3>2, <4>1
      <3> QED BY <3>9, <3>10
    <2> HIDE DEF p
    <2> QED BY <1>8, <2>2, <2>3
  <1>13. Located(T, k, v, p)
    <2> HIDE DEF p
    <2> QED BY <1>7, <1>8, <1>9, <1>11, <1>12 DEF Located, l
  <1> QED BY <1>13

(* The least of places is one.                                              *)
LEMMA LeastIs ==
    ASSUME NEW P, NEW p \in P, NEW D, D \subseteq P, p \in D,
           \A q \in P : q \in Nat /\ p <= q
    PROVE  Least(D) = {p}
  <1>1. p \in Nat /\ \A q \in D : q \in Nat /\ p <= q
    OBVIOUS
  <1>2. \A q \in D : (\A n \in D : q <= n) => q = p
    <2> SUFFICES ASSUME NEW q \in D, q <= p PROVE q = p
      OBVIOUS
    <2>1. q \in Nat /\ p <= q
      BY <1>1
    <2> QED BY <1>1, <2>1
  <1> QED BY <1>1, <1>2, Zenon DEF Least

(* A value that stands between marks, the second of which it holds only at   *)
(* its end.                                                                *)
Closed(v, left, right) ==
    /\ v \in Seq(Symbols) /\ Len(v) > 1 /\ v[1] = left /\ v[Len(v)] = right
    /\ \A i \in 2 .. Len(v) - 1 : v[i] # right

(* It ends where the reader says.                                           *)
EndsThere(T, v, p, left, right) ==
    /\ Enclosed(T, left, right, p) = p + (Len(v) - 1)
    /\ SubSeq(T, p, p + (Len(v) - 1)) = v

(* Text, list and object are read up to where they end.                     *)
LEMMA ClosedEnds ==
    \A T, k, v, p, left, right :
        Located(T, k, v, p) /\ Closed(v, left, right) => EndsThere(T, v, p, left, right)
  <1> SUFFICES ASSUME NEW T, NEW k, NEW v, NEW p, NEW left, NEW right, Located(T, k, v, p),
                      Closed(v, left, right)
               PROVE  EndsThere(T, v, p, left, right)
    BY Zenon
  <1> DEFINE l == Len(v)
             e == p + (l - 1)
  <1>1. /\ T \in Seq(Symbols) /\ p \in Nat /\ p > 4 /\ p + l <= Len(T)
        /\ \A i \in 1..l : T[p + (i - 1)] = v[i]
    BY DEF Located
  <1>2. /\ v \in Seq(Symbols) /\ l \in Nat /\ l > 1 /\ v[1] = left /\ v[l] = right
        /\ \A i \in 2 .. l - 1 : v[i] # right
    BY DEF Closed
  <1>3. Len(T) \in Nat
    BY <1>1
  <1> HIDE DEF l
  <1> DEFINE P == {i \in p + 1 .. Len(T) : T[i] = right}
  <1>4. e \in P
    <2>1. l \in 1..l /\ e \in p + 1 .. Len(T)
      BY <1>1, <1>2, <1>3
    <2> HIDE DEF e
    <2>2. T[p + (l - 1)] = v[l]
      BY <1>1, <2>1
    <2> QED BY <1>2, <2>1, <2>2 DEF e
  <1>5. \A x \in P : e <= x
    <2> SUFFICES ASSUME NEW x \in p + 1 .. Len(T), T[x] = right, x < e PROVE FALSE
      BY <1>1, <1>2, <1>3
    <2> DEFINE i == x - p + 1
    <2>1. i \in 2 .. l - 1 /\ i \in 1..l /\ p + (i - 1) = x
      BY <1>1, <1>2, <1>3
    <2> HIDE DEF i
    <2> QED BY <1>1, <1>2, <2>1
  <1>6. P \in SUBSET Int
    BY <1>1, <1>3
  <1> HIDE DEF e, P
  <1>7. Min(P) = e
    BY <1>4, <1>5, <1>6, MinIs
  <1>8. P # {}
    BY <1>4
  <1>9. Enclosed(T, left, right, p) = e
    <2>1. T[p] = left
      <3>1. 1 \in 1..l /\ p + (1 - 1) = p
        BY <1>1, <1>2
      <3>2. T[p + (1 - 1)] = v[1]
        BY <1>1, <3>1
      <3> QED BY <1>2, <3>1, <3>2
    <2> QED BY <1>7, <1>8, <2>1 DEF Enclosed, FirstPlace, P
  <1>10. SubSeq(T, p, e) = v
    <2> DEFINE s == SubSeq(T, p, e)
    <2>1. p \in Nat /\ p >= 1 /\ e \in Nat /\ e <= Len(T) /\ e - p + 1 = l /\ p <= e
      <3>1. p \in Nat /\ l \in Nat /\ Len(T) \in Nat /\ p > 4 /\ l > 1 /\ p + l <= Len(T)
        BY <1>1, <1>2, <1>3
      <3> QED BY <3>1 DEF e
    <2>2. s \in Seq(Symbols) /\ Len(s) = l /\ \A i \in 1..l : s[i] = T[p + i - 1]
      BY <1>1, <2>1
    <2>3. \A i \in 1..l : p + i - 1 = p + (i - 1)
      BY <1>1, <1>2
    <2> HIDE DEF s
    <2>4. \A i \in 1..l : s[i] = v[i]
      BY <1>1, <2>2, <2>3
    <2>5. s = v
      BY <1>2, <2>2, <2>4 DEF l
    <2> QED BY <2>5 DEF s
  <1> QED BY <1>9, <1>10 DEF e, l, EndsThere

(* What is enclosed is read.                                                *)
LEMMA EnclosedRead ==
    ASSUME NEW T, NEW k \in Symbols, k \notin Marks, NEW v, NEW left, NEW right,
           Amid(T, k, v), Closed(v, left, right)
    PROVE  FirstEnclosed(T, k, left, right) = {v}
  <1>1. v \in Seq(Symbols)
    BY DEF Closed
  <1>2. PICK p : Located(T, k, v, p)
    BY <1>1, AmidLocated
  <1>0. /\ Enclosed(T, left, right, p) = p + (Len(v) - 1)
        /\ SubSeq(T, p, p + (Len(v) - 1)) = v
    <2>1. EndsThere(T, v, p, left, right)
      BY <1>2, ClosedEnds, Zenon
    <2> QED BY <2>1 DEF EndsThere
  <1> DEFINE e == p + (Len(v) - 1)
             P == ValuePlaces(T, k)
             D == {i \in P : Enclosed(T, left, right, i) \in i .. Len(T)}
  <1>3. Enclosed(T, left, right, p) = e /\ SubSeq(T, p, e) = v
    BY <1>0
  <1>4. p \in P /\ \A q \in P : q \in Nat /\ p <= q
    BY <1>2 DEF Located
  <1>5. e \in p .. Len(T)
    <2>1. p \in Nat /\ p + Len(v) <= Len(T) /\ T \in Seq(Symbols)
      BY <1>2 DEF Located
    <2>2. Len(T) \in Nat /\ Len(v) \in Nat /\ Len(v) > 1
      BY <2>1, <1>1 DEF Closed
    <2> QED BY <2>1, <2>2
  <1> HIDE DEF e, P
  <1>6. D \subseteq P /\ p \in D
    BY <1>3, <1>4, <1>5
  <1> HIDE DEF D
  <1>7. Least(D) = {p}
    BY <1>4, <1>6, LeastIs
  <1>8. FirstEnclosed(T, k, left, right)
           = {SubSeq(T, i, Enclosed(T, left, right, i)) : i \in Least(D)}
    BY Zenon DEF FirstEnclosed, FirstValue, D, P
  <1>9. {SubSeq(T, i, Enclosed(T, left, right, i)) : i \in Least(D)} = {v}
    BY <1>3, <1>7, Zenon
  <1> QED BY <1>8, <1>9

(* In a silent text nothing is.                                             *)
LEMMA NothingRead ==
    ASSUME NEW T \in Seq(Symbols), NEW k \in Symbols, Silent(T, k)
    PROVE  readText(T, k) = {}
  <1>1. ValuePlaces(T, k) = {}
    BY NothingThere
  <1> DEFINE D == {i \in ValuePlaces(T, k) : Enclosed(T, Quote, Quote, i) \in i .. Len(T)}
  <1>2. D = {}
    BY <1>1
  <1>3. FirstEnclosed(T, k, Quote, Quote)
           = {SubSeq(T, i, Enclosed(T, Quote, Quote, i)) : i \in Least(D)}
    BY Zenon DEF FirstEnclosed, FirstValue
  <1>4. Least(D) = {}
    BY <1>2, Zenon DEF Least
  <1>5. FirstEnclosed(T, k, Quote, Quote) = {}
    BY <1>3, <1>4, Zenon
  <1>6. readText(T, k) = {Inner(v) : v \in FirstEnclosed(T, k, Quote, Quote)}
    BY Zenon DEF readText, Quote
  <1> QED BY <1>5, <1>6, Zenon

(* A text without quotes, between quotes.                                   *)
LEMMA BetweenIs ==
    ASSUME NEW x \in Seq(Symbols), NEW left \in Symbols, NEW right \in Symbols,
           \A i \in 1..Len(x) : x[i] # right
    PROVE  /\ Closed(<<left>> \o x \o <<right>>, left, right)
           /\ Inner(<<left>> \o x \o <<right>>) = x
  <1> DEFINE v == <<left>> \o x \o <<right>>
             n == Len(x)
  <1>1. /\ n \in Nat /\ v \in Seq(Symbols) /\ Len(v) = n + 2 /\ v[1] = left /\ v[n + 2] = right
        /\ \A i \in 1..n : v[i + 1] = x[i]
    OBVIOUS
  <1> HIDE DEF v
  <1>2. \A i \in 2 .. Len(v) - 1 : v[i] # right
    <2> SUFFICES ASSUME NEW i \in 2 .. Len(v) - 1 PROVE v[i] # right
      OBVIOUS
    <2>1. i - 1 \in 1..n /\ (i - 1) + 1 = i
      BY <1>1
    <2> HIDE DEF n
    <2>2. v[(i - 1) + 1] = x[i - 1] /\ x[i - 1] # right
      BY <1>1, <2>1 DEF n
    <2> QED BY <2>1, <2>2
  <1>3. Closed(v, left, right)
    BY <1>1, <1>2 DEF Closed
  <1>4. SubSeq(v, 2, Len(v) - 1) = x
    <2> DEFINE s == SubSeq(v, 2, Len(v) - 1)
    <2> HIDE DEF n
    <2>1. s \in Seq(Symbols) /\ Len(s) = n /\ \A i \in 1..n : s[i] = v[2 + i - 1]
      BY <1>1
    <2>2. \A i \in 1..n : 2 + i - 1 = i + 1
      BY <1>1
    <2> HIDE DEF s
    <2>3. \A i \in 1..n : s[i] = x[i]
      BY <1>1, <2>1, <2>2
    <2>4. s = x
      BY <2>1, <2>3 DEF n
    <2> QED BY <2>4 DEF s
  <1> QED BY <1>3, <1>4 DEF Inner, v

(* A plain text is read as it was.                                          *)
LEMMA TextRead ==
    ASSUME NEW T, NEW k \in Symbols, k \notin Marks, NEW x \in AnyText, Amid(T, k, JText(x)),
           PlainText(x)
    PROVE  readText(T, k) = {x}
  <1>1. escapeJsonString(x) = x /\ \A i \in 1..Len(x) : x[i] # Quote
    BY EscapedPlain
  <1> DEFINE v == <<Quote>> \o x \o <<Quote>>
  <1>2. JText(x) = v
    BY <1>1, Zenon DEF JText, Quote
  <1>3. Quote \in Symbols /\ x \in Seq(Symbols)
    BY MarksAre DEF AnyText
  <1>4. Closed(v, Quote, Quote) /\ Inner(v) = x
    BY <1>1, <1>3, BetweenIs
  <1> HIDE DEF v
  <1>5. FirstEnclosed(T, k, Quote, Quote) = {v}
    <2>1. Amid(T, k, v)
      BY <1>2, Zenon
    <2> QED BY <1>4, <2>1, EnclosedRead
  <1>6. readText(T, k) = {Inner(w) : w \in FirstEnclosed(T, k, Quote, Quote)}
    BY Zenon DEF readText, Quote
  <1> QED BY <1>4, <1>5, <1>6, Zenon

(* So is a word.                                                            *)
LEMMA QuotedWordRead ==
    ASSUME NEW T, NEW k \in Symbols, k \notin Marks, NEW w \in Symbols, w # Quote,
           Amid(T, k, JWord(w))
    PROVE  readText(T, k) = {<<w>>}
  <1> DEFINE v == <<Quote>> \o <<w>> \o <<Quote>>
  <1>1. JWord(w) = v
    <2>1. <<Quote, w, Quote>> = v
      OBVIOUS
    <2>2. JWord(w) = <<Quote, w, Quote>>
      BY Zenon DEF JWord, Quote
    <2> QED BY <2>1, <2>2
  <1>2. <<w>> \in Seq(Symbols) /\ \A i \in 1..Len(<<w>>) : <<w>>[i] # Quote
    OBVIOUS
  <1>3. Closed(v, Quote, Quote) /\ Inner(v) = <<w>>
    BY <1>2, BetweenIs, MarksAre
  <1> HIDE DEF v
  <1>4. FirstEnclosed(T, k, Quote, Quote) = {v}
    <2>1. Amid(T, k, v)
      BY <1>1, Zenon
    <2> QED BY <1>3, <2>1, EnclosedRead
  <1>5. readText(T, k) = {Inner(x) : x \in FirstEnclosed(T, k, Quote, Quote)}
    BY Zenon DEF readText, Quote
  <1> DEFINE y == <<w>>
  <1>6. Inner(v) = y
    BY <1>3
  <1> HIDE DEF y
  <1>7. readText(T, k) = {y}
    BY <1>4, <1>5, <1>6, Zenon
  <1> QED BY <1>7 DEF y

(* And a word without quotes, if it is one of those looked for.              *)
LEMMA WordRead ==
    ASSUME NEW T, NEW k \in Symbols, k \notin Marks, NEW words, NEW w \in Symbols, w \in words,
           Amid(T, k, <<w>>)
    PROVE  readWord(T, k, words) = {w}
  <1>1. <<w>> \in Seq(Symbols) /\ Len(<<w>>) = 1 /\ <<w>>[1] = w
    OBVIOUS
  <1>2. PICK p : Located(T, k, <<w>>, p)
    BY <1>1, AmidLocated
  <1> DEFINE End(i) == IF T[i] \in words THEN i ELSE 0
             P == ValuePlaces(T, k)
             D == {i \in P : End(i) \in i .. Len(T)}
  <1>3. T \in Seq(Symbols) /\ p \in Nat /\ p > 4 /\ p < Len(T) /\ Len(T) \in Nat /\ T[p] = w
    <2>1. /\ T \in Seq(Symbols) /\ p \in Nat /\ p > 4 /\ p + Len(<<w>>) <= Len(T)
          /\ \A i \in 1..Len(<<w>>) : T[p + (i - 1)] = <<w>>[i]
      BY <1>2 DEF Located
    <2>2. 1 \in 1..Len(<<w>>) /\ p + (1 - 1) = p
      BY <1>1, <2>1
    <2>3. T[p] = w
      BY <1>1, <2>1, <2>2
    <2> QED BY <1>1, <2>1, <2>3
  <1>4. p \in P /\ \A q \in P : q \in Nat /\ p <= q
    BY <1>2 DEF Located
  <1>5. End(p) = p /\ p \in p .. Len(T) /\ SubSeq(T, p, p) = <<w>>
    <2> DEFINE s == SubSeq(T, p, p)
               y == <<w>>
    <2>1. s \in Seq(Symbols) /\ Len(s) = 1 /\ s[1] = T[p]
      <3>1. p \in Nat /\ p >= 1 /\ p <= Len(T) /\ p - p + 1 = 1 /\ p + 1 - 1 = p
        BY <1>3
      <3>2. s \in Seq(Symbols) /\ Len(s) = p - p + 1 /\ \A i \in 1..1 : s[i] = T[p + i - 1]
        BY <1>3, <3>1
      <3> QED BY <3>1, <3>2
    <2>2. y \in Seq(Symbols) /\ Len(y) = 1 /\ y[1] = w
      OBVIOUS
    <2>3. s = y
      <3> HIDE DEF s, y
      <3> QED BY <1>3, <2>1, <2>2
    <2> QED BY <1>3, <2>3
  <1> HIDE DEF P, End
  <1>6. D \subseteq P /\ p \in D
    BY <1>4, <1>5
  <1> HIDE DEF D
  <1>7. Least(D) = {p}
    BY <1>4, <1>6, LeastIs
  <1>8. readWord(T, k, words) = {v[1] : v \in {SubSeq(T, i, End(i)) : i \in Least(D)}}
    BY Zenon DEF readWord, FirstValue, D, P, End
  <1>9. {SubSeq(T, i, End(i)) : i \in Least(D)} = {<<w>>}
    <2> DEFINE y == <<w>>
    <2>1. SubSeq(T, p, End(p)) = y
      BY <1>5
    <2> HIDE DEF y
    <2>2. {SubSeq(T, i, End(i)) : i \in Least(D)} = {y}
      BY <1>7, <2>1, Zenon
    <2> QED BY <2>2 DEF y
  <1>10. {v[1] : v \in {<<w>>}} = {w}
    BY <1>1, Zenon
  <1> QED BY <1>8, <1>9, <1>10

(* What stands in a singleton is given.                                     *)
LEMMA GivenIs == ASSUME NEW x, NEW default PROVE Given({x}, default) = x
  BY DEF Given

-----------------------------------------------------------------------------
(* The parts of an object or of a list, with the commas between them.       *)
Commaed(parts) == [i \in DOMAIN parts |-> (IF i = 1 THEN <<>> ELSE <<Comma>>) \o parts[i]]

(* Objects and lists are their parts between brackets.                      *)
LEMMA JoinedIs ==
    ASSUME NEW parts
    PROVE  /\ JObject(parts) = (<<Open>> \o FlattenSeq(Commaed(parts))) \o <<Close>>
           /\ JList(parts) = (<<ListOpen>> \o FlattenSeq(Commaed(parts))) \o <<ListClose>>
  BY Zenon DEF JObject, JList, JJoined, Commaed, Open, Close, Comma, ListOpen, ListClose

(* Each part follows a comma, except the first.                             *)
LEMMA CommaedAre ==
    ASSUME NEW parts \in Seq(Seq(Symbols))
    PROVE  /\ Commaed(parts) \in Seq(Seq(Symbols)) /\ Len(Commaed(parts)) = Len(parts)
           /\ Len(parts) \in Nat
           /\ \A i \in 1..Len(parts) :
                 /\ parts[i] \in Seq(Symbols)
                 /\ i = 1 => Commaed(parts)[i] = parts[i]
                 /\ i # 1 => Commaed(parts)[i] = <<Comma>> \o parts[i]
  <1> DEFINE s == Commaed(parts)
  <1>1. Comma \in Symbols
    BY MarksAre
  <1>2. DOMAIN parts = 1..Len(parts) /\ Len(parts) \in Nat
        /\ \A i \in 1..Len(parts) : parts[i] \in Seq(Symbols)
    OBVIOUS
  <1>3. \A x \in Seq(Symbols) : <<>> \o x = x /\ <<Comma>> \o x \in Seq(Symbols)
    BY <1>1
  <1>4. s = [i \in 1..Len(parts) |-> (IF i = 1 THEN <<>> ELSE <<Comma>>) \o parts[i]]
    BY <1>2, Zenon DEF Commaed
  <1>5. \A i \in 1..Len(parts) : s[i] = IF i = 1 THEN <<>> \o parts[i] ELSE <<Comma>> \o parts[i]
    BY <1>4
  <1>6. \A i \in 1..Len(parts) : s[i] \in Seq(Symbols)
    BY <1>2, <1>3, <1>5
  <1>7. DOMAIN s = 1..Len(parts) /\ s \in Seq(Seq(Symbols)) /\ Len(s) = Len(parts)
    <2> DEFINE n == Len(parts)
               Q == Seq(Symbols)
    <2>1. s = [i \in 1..n |-> s[i]] /\ n \in Nat /\ \A i \in 1..n : s[i] \in Q
      BY <1>2, <1>4, <1>6
    <2> HIDE DEF s, n, Q
    <2>2. s \in [1..n -> Q]
      BY <2>1
    <2>3. s \in Seq(Q) /\ Len(s) = n /\ DOMAIN s = 1..n
      BY <2>1, <2>2
    <2> QED BY <2>3 DEF n, Q
  <1> QED BY <1>2, <1>3, <1>5, <1>7

(* Silent parts put together are silent, and so is one mark.                *)
LEMMA MarkSilent ==
    ASSUME NEW c \in Marks \ {Colon}, NEW k, k \notin Marks
    PROVE  Silent(<<c>>, k)
  <1> DEFINE a == <<c>>
  <1>1. Len(a) = 1 /\ a[1] = c /\ \A i \in 1..1 : i = 1
    OBVIOUS
  <1> HIDE DEF a
  <1>2. Silent(a, k)
    BY <1>1, SilentWithout
  <1> QED BY <1>2 DEF a

(* Put together, silent texts are silent.                                   *)
LEMMA FlattenSilent ==
    ASSUME NEW s \in Seq(Seq(Symbols)), NEW k, \A i \in 1..Len(s) : Silent(s[i], k)
    PROVE  FlattenSeq(s) \in Seq(Symbols) /\ Silent(FlattenSeq(s), k)
  <1> DEFINE G == {a \in Seq(Symbols) : Silent(a, k)}
  <1>1. G \in SUBSET Seq(Symbols)
    OBVIOUS
  <1>2. <<>> \in G
    <2>1. <<>> \in Seq(Symbols) /\ \A i \in 1..Len(<<>>) : FALSE
      OBVIOUS
    <2>2. Silent(<<>>, k)
      BY <2>1, SilentWithout
    <2> QED BY <2>1, <2>2
  <1>3. \A a, b \in G : a \o b \in G
    <2> SUFFICES ASSUME NEW a \in Seq(Symbols), NEW b \in Seq(Symbols), Silent(a, k), Silent(b, k)
                 PROVE  a \o b \in Seq(Symbols) /\ Silent(a \o b, k)
      OBVIOUS
    <2>1. a \o b \in Seq(Symbols)
      OBVIOUS
    <2> QED BY <2>1, SilentJoin
  <1>4. s \in Seq(G)
    <2>1. s = [i \in 1..Len(s) |-> s[i]] /\ Len(s) \in Nat
      OBVIOUS
    <2>2. \A i \in 1..Len(s) : s[i] \in G
      OBVIOUS
    <2> HIDE DEF G
    <2> QED BY <2>1, <2>2
  <1> HIDE DEF G
  <1>5. FlattenSeq(s) \in G
    BY <1>1, <1>2, <1>3, <1>4, FlattenIn
  <1> QED BY <1>5 DEF G

(* A comma before a silent part changes nothing.                            *)
LEMMA CommaedSilent ==
    ASSUME NEW parts \in Seq(Seq(Symbols)), NEW k, k \notin Marks,
           NEW n \in 0..Len(parts), \A i \in 1..n : Silent(parts[i], k)
    PROVE  \A i \in 1..n : Silent(Commaed(parts)[i], k)
  <1>1. Silent(<<Comma>>, k) /\ <<Comma>> \in Seq(Symbols)
    BY MarkSilent, MarksAre
  <1>2. SUFFICES ASSUME NEW i \in 1..n PROVE Silent(Commaed(parts)[i], k)
    OBVIOUS
  <1>3. i \in 1..Len(parts) /\ Silent(parts[i], k)
    BY CommaedAre
  <1>4. CASE i = 1
    BY <1>3, <1>4, CommaedAre
  <1>5. CASE i # 1
    <2>1. parts[i] \in Seq(Symbols) /\ Commaed(parts)[i] = <<Comma>> \o parts[i]
      BY <1>3, <1>5, CommaedAre
    <2>2. Silent(<<Comma>> \o parts[i], k)
      BY <1>1, <1>3, <2>1, SilentJoin
    <2> QED BY <2>1, <2>2
  <1> QED BY <1>4, <1>5

(* Brackets around a silent text change nothing.                            *)
LEMMA BracketsSilent ==
    ASSUME NEW f \in Seq(Symbols), NEW k, k \notin Marks, Silent(f, k),
           NEW l \in Marks \ {Colon}, NEW r \in Marks \ {Colon}
    PROVE  /\ (<<l>> \o f) \o <<r>> \in Seq(Symbols)
           /\ (<<l>> \o f) \o <<r>> # <<>>
           /\ Silent((<<l>> \o f) \o <<r>>, k)
  <1>1. Silent(<<l>>, k) /\ Silent(<<r>>, k)
    BY MarkSilent
  <1>2. Marks \subseteq Symbols
    BY Zenon DEF Symbols
  <1>3. <<l>> \in Seq(Symbols) /\ <<r>> \in Seq(Symbols)
    BY <1>2
  <1> DEFINE x == <<l>>
             y == <<r>>
             a == x \o f
             e == a \o y
  <1>4. x \in Seq(Symbols) /\ y \in Seq(Symbols) /\ Silent(x, k) /\ Silent(y, k) /\ Len(y) = 1
    BY <1>1, <1>3
  <1> HIDE DEF x, y
  <1>5. a \in Seq(Symbols)
    BY <1>4
  <1>6. Silent(a, k)
    BY <1>4, SilentJoin
  <1> HIDE DEF a
  <1>7. e \in Seq(Symbols) /\ Len(e) = Len(a) + 1 /\ Len(a) \in Nat
    <2>1. \A u, w \in Seq(Symbols) :
             u \o w \in Seq(Symbols) /\ Len(u \o w) = Len(u) + Len(w) /\ Len(u) \in Nat
      OBVIOUS
    <2> QED BY <1>4, <1>5, <2>1, Zenon
  <1>8. Silent(e, k)
    BY <1>4, <1>5, <1>6, SilentJoin
  <1> HIDE DEF e
  <1>9. e # <<>>
    <2>1. Len(e) # 0
      BY <1>7
    <2> QED BY <2>1
  <1> QED BY <1>7, <1>8, <1>9 DEF e, a, x, y

(* An object and a list of silent parts.                                    *)
LEMMA PartsSilent ==
    ASSUME NEW parts \in Seq(Seq(Symbols)), NEW k, k \notin Marks,
           \A i \in 1..Len(parts) : Silent(parts[i], k)
    PROVE  /\ JObject(parts) \in Seq(Symbols) /\ JObject(parts) # <<>> /\ Silent(JObject(parts), k)
           /\ JList(parts) \in Seq(Symbols) /\ JList(parts) # <<>> /\ Silent(JList(parts), k)
  <1> DEFINE f == FlattenSeq(Commaed(parts))
  <1>1. f \in Seq(Symbols) /\ Silent(f, k)
    <2>1. Len(parts) \in 0..Len(parts) /\ Commaed(parts) \in Seq(Seq(Symbols))
          /\ Len(Commaed(parts)) = Len(parts)
      BY CommaedAre
    <2>2. \A i \in 1..Len(parts) : Silent(Commaed(parts)[i], k)
      BY <2>1, CommaedSilent
    <2> QED BY <2>1, <2>2, FlattenSilent
  <1>2. {Open, Close, ListOpen, ListClose} \subseteq Marks \ {Colon}
    BY MarksAre
  <1>3. /\ JObject(parts) = (<<Open>> \o f) \o <<Close>>
        /\ JList(parts) = (<<ListOpen>> \o f) \o <<ListClose>>
    BY JoinedIs
  <1> HIDE DEF f
  <1>4. /\ (<<Open>> \o f) \o <<Close>> \in Seq(Symbols)
        /\ (<<Open>> \o f) \o <<Close>> # <<>>
        /\ Silent((<<Open>> \o f) \o <<Close>>, k)
    BY <1>1, <1>2, BracketsSilent
  <1>5. /\ (<<ListOpen>> \o f) \o <<ListClose>> \in Seq(Symbols)
        /\ (<<ListOpen>> \o f) \o <<ListClose>> # <<>>
        /\ Silent((<<ListOpen>> \o f) \o <<ListClose>>, k)
    BY <1>1, <1>2, BracketsSilent
  <1> QED BY <1>3, <1>4, <1>5

(* A field is silent for another name, if its value is.                      *)
LEMMA FieldSilent ==
    ASSUME NEW k, k \notin Marks, NEW m \in Symbols, m # k, NEW v \in Seq(Symbols), Silent(v, k)
    PROVE  /\ JField(m, v) \in Seq(Symbols) /\ Silent(JField(m, v), k)
           /\ JField(m, v) = <<Quote, m, Quote, Colon>> \o v
  <1> DEFINE q == <<Quote, m, Quote, Colon>>
  <1>1. JField(m, v) = q \o v
    BY Zenon DEF JField, Quote, Colon
  <1>2. Quote \in Symbols /\ Colon \in Symbols /\ k # Quote /\ k # Colon /\ Quote # Colon
    BY MarksAre
  <1>3. /\ q \in Seq(Symbols) /\ Len(q) = 4 /\ q[1] = Quote /\ q[2] = m /\ q[3] = Quote
        /\ q[4] = Colon
    BY <1>2
  <1>4. \A i \in 1..4 : i = 1 \/ i = 2 \/ i = 3 \/ i = 4
    OBVIOUS
  <1> HIDE DEF q
  <1>5. \A i \in 1..Len(q) : q[i] # k
    BY <1>2, <1>3, <1>4
  <1>6. Silent(q, k)
    BY <1>2, <1>3, <1>5, SilentWithout
  <1>7. Silent(q \o v, k) /\ q \o v \in Seq(Symbols)
    BY <1>3, <1>6, SilentJoin
  <1> QED BY <1>1, <1>7 DEF q

(* The text around a field, put together one way and the other.              *)
Around(S, o, f, c, q, v, b, z) ==
    /\ o \in Seq(S) /\ f \in Seq(S) /\ c \in Seq(S) /\ q \in Seq(S) /\ v \in Seq(S)
    /\ b \in Seq(S) /\ z \in Seq(S)
AroundAgain(o, f, c, q, v, b, z) ==
    Then(Then(o, Then(f, Then(Then(c, Then(q, v)), b))), z)
        = Then(Then(o, Then(f, c)), Then(q, Then(v, Then(b, z))))

(* Both are the same text.                                                  *)
LEMMA PutAround ==
    \A S, o, f, c, q, v, b, z :
        Around(S, o, f, c, q, v, b, z) => AroundAgain(o, f, c, q, v, b, z)
  <1> SUFFICES ASSUME NEW S, NEW o, NEW f, NEW c, NEW q, NEW v, NEW b, NEW z,
                      Around(S, o, f, c, q, v, b, z)
               PROVE  AroundAgain(o, f, c, q, v, b, z)
    BY Zenon
  <1> DEFINE Q == Seq(S)
             qv == Then(q, v)
             cqv == Then(c, qv)
             x == Then(cqv, b)
             fx == Then(f, x)
             bz == Then(b, z)
             vbz == Then(v, bz)
             qvbz == Then(q, vbz)
             fc == Then(f, c)
  <1>1. \A i, j, k \in Q : Then(Then(i, j), k) = Then(i, Then(j, k)) /\ Then(i, j) \in Q
    BY ThenThree
  <1>2. o \in Q /\ f \in Q /\ c \in Q /\ q \in Q /\ v \in Q /\ b \in Q /\ z \in Q
    BY DEF Around
  <1> HIDE DEF Q, qv, cqv, x, fx, bz, vbz, qvbz, fc
  <1>3. qv \in Q /\ bz \in Q /\ fc \in Q
    BY <1>1, <1>2 DEF qv, bz, fc
  <1>4. cqv \in Q /\ vbz \in Q
    BY <1>1, <1>2, <1>3 DEF cqv, vbz
  <1>5. x \in Q /\ qvbz \in Q
    BY <1>1, <1>2, <1>4 DEF x, qvbz
  <1>6. fx \in Q
    BY <1>1, <1>2, <1>5 DEF fx
  <1>7. Then(Then(o, fx), z) = Then(o, Then(fx, z))
    BY <1>1, <1>2, <1>6
  <1>8. Then(fx, z) = Then(f, Then(x, z))
    BY <1>1, <1>2, <1>5 DEF fx
  <1>9. Then(x, z) = Then(cqv, bz)
    BY <1>1, <1>2, <1>4 DEF x, bz
  <1>10. Then(cqv, bz) = Then(c, Then(qv, bz))
    BY <1>1, <1>2, <1>3 DEF cqv
  <1>11. Then(qv, bz) = qvbz
    BY <1>1, <1>2, <1>3 DEF qv, qvbz, vbz
  <1>12. Then(f, Then(c, qvbz)) = Then(fc, qvbz)
    BY <1>1, <1>2, <1>5 DEF fc
  <1>13. Then(o, Then(fc, qvbz)) = Then(Then(o, fc), qvbz)
    BY <1>1, <1>2, <1>3, <1>5
  <1>14. Then(Then(o, fx), z) = Then(Then(o, fc), qvbz)
    BY <1>7, <1>8, <1>9, <1>10, <1>11, <1>12, <1>13
  <1> QED BY <1>14 DEF AroundAgain, fx, x, cqv, qv, fc, qvbz, vbz, bz

(* A field of an object, before which no part names it.                      *)
LEMMA FieldAmidst ==
    ASSUME NEW parts \in Seq(Seq(Symbols)), NEW j \in 1..Len(parts), NEW k \in Symbols,
           k \notin Marks, NEW v \in Seq(Symbols),
           parts[j] = <<Quote, k, Quote, Colon>> \o v,
           \A i \in 1 .. j - 1 : Silent(parts[i], k)
    PROVE  Amid(JObject(parts), k, v)
  <1> DEFINE s == Commaed(parts)
             n == Len(parts)
             o == <<Open>>
             z == <<Close>>
             q == <<Quote, k, Quote, Colon>>
             comma == <<Comma>>
             f == FlattenSeq(SubSeq(s, 1, j - 1))
             c == IF j = 1 THEN <<>> ELSE comma
  <1>1. /\ s \in Seq(Seq(Symbols)) /\ Len(s) = n /\ n \in Nat
        /\ \A i \in 1..n : /\ parts[i] \in Seq(Symbols)
                           /\ i = 1 => s[i] = parts[i]
                           /\ i # 1 => s[i] = comma \o parts[i]
    BY CommaedAre
  <1>2. /\ o \in Seq(Symbols) /\ z \in Seq(Symbols) /\ q \in Seq(Symbols) /\ comma \in Seq(Symbols)
        /\ Len(comma) = 1 /\ comma[1] = Comma /\ Len(z) = 1
    BY MarksAre
  <1>3. Silent(o, k) /\ Silent(comma, k)
    <2>1. Open \in Marks \ {Colon} /\ Comma \in Marks \ {Colon}
      BY MarksAre
    <2> QED BY <2>1, MarkSilent
  <1>4. parts[j] = q \o v
    OBVIOUS
  <1>5. JObject(parts) = (o \o FlattenSeq(s)) \o z
    BY JoinedIs
  <1> HIDE DEF s, o, z, q, comma
  <1>6. Marked(Symbols, s, j, Comma)
    <2> SUFFICES ASSUME NEW i \in j + 1 .. Len(s) PROVE s[i] # <<>> /\ s[i][1] = Comma
      BY <1>1 DEF Marked
    <2>1. i \in 1..n /\ i # 1
      BY <1>1
    <2>2. s[i] = comma \o parts[i] /\ parts[i] \in Seq(Symbols)
      BY <1>1, <2>1
    <2>3. \A w \in Seq(Symbols) : comma \o w # <<>> /\ (comma \o w)[1] = Comma
      <3> SUFFICES ASSUME NEW w \in Seq(Symbols)
                   PROVE  comma \o w # <<>> /\ (comma \o w)[1] = Comma
        OBVIOUS
      <3> DEFINE u == comma \o w
      <3>1. Len(u) = Len(comma) + Len(w) /\ \A h \in 1..Len(comma) : u[h] = comma[h]
        <4>1. comma \in Seq(Symbols)
          BY <1>2
        <4> QED BY <4>1
      <3> HIDE DEF u
      <3>2. Len(w) \in Nat /\ 1 \in 1..Len(comma)
        BY <1>2
      <3>3. u[1] = Comma /\ Len(u) # 0
        BY <1>2, <3>1, <3>2
      <3>4. u # <<>>
        BY <3>3
      <3> QED BY <3>3, <3>4 DEF u
    <2> QED BY <2>2, <2>3, Zenon
  <1>7. PICK b \in Seq(Symbols) : FlattenSeq(s) = f \o (s[j] \o b)
    <2>1. SplitAt(Symbols, s, j, Comma)
      BY <1>6, FlattenAround
    <2> QED BY <2>1 DEF SplitAt
  <1>8. f \in Seq(Symbols) /\ Silent(f, k)
    <2> DEFINE t == SubSeq(s, 1, j - 1)
    <2>1. j - 1 \in 0..n /\ j \in 1..n
      BY <1>1
    <2>2. \A i \in 1 .. j - 1 : Silent(s[i], k)
      BY <2>1, CommaedSilent DEF s
    <2>3. t \in Seq(Seq(Symbols)) /\ Len(t) = j - 1 /\ \A i \in 1 .. j - 1 : t[i] = s[i]
      BY <1>1, <2>1
    <2> HIDE DEF t
    <2>4. \A i \in 1..Len(t) : Silent(t[i], k)
      BY <2>2, <2>3
    <2>5. FlattenSeq(t) \in Seq(Symbols) /\ Silent(FlattenSeq(t), k)
      BY <2>3, <2>4, FlattenSilent
    <2> QED BY <2>5 DEF t
  <1>9. c \in Seq(Symbols) /\ Silent(c, k)
    <2>1. <<>> \in Seq(Symbols) /\ \A i \in 1..Len(<<>>) : FALSE
      OBVIOUS
    <2>2. Silent(<<>>, k)
      BY <2>1, SilentWithout
    <2> QED BY <1>2, <1>3, <2>1, <2>2
  <1>10. s[j] = c \o (q \o v)
    <2>1. j \in 1..n /\ q \o v \in Seq(Symbols)
      BY <1>2
    <2>2. <<>> \o (q \o v) = q \o v
      BY <2>1
    <2> QED BY <1>1, <1>4, <2>1, <2>2
  <1> HIDE DEF f, c
  <1>11. JObject(parts) = Then(Then(o, Then(f, Then(Then(c, Then(q, v)), b))), z)
    <2>1. JObject(parts) = (o \o (f \o ((c \o (q \o v)) \o b))) \o z
      BY <1>5, <1>7, <1>10, Zenon
    <2> QED BY <2>1, Zenon DEF Then
  <1>12. Around(Symbols, o, f, c, q, v, b, z)
    BY <1>2, <1>8, <1>9 DEF Around
  <1>13. JObject(parts) = (o \o (f \o c)) \o (q \o (v \o (b \o z)))
    <2>1. AroundAgain(o, f, c, q, v, b, z)
      BY <1>12, PutAround, Zenon
    <2> QED BY <1>11, <2>1, Zenon DEF AroundAgain, Then
  <1> DEFINE fc == f \o c
             a == o \o fc
             e == b \o z
  <1>14. fc \in Seq(Symbols) /\ Silent(fc, k)
    BY <1>8, <1>9, SilentJoin
  <1> HIDE DEF fc
  <1>15. a \in Seq(Symbols) /\ Silent(a, k)
    BY <1>2, <1>3, <1>14, SilentJoin
  <1>16. e \in Seq(Symbols) /\ e # <<>>
    <2>1. e \in Seq(Symbols) /\ Len(e) = Len(b) + 1 /\ Len(b) \in Nat
      <3>1. \A u, w \in Seq(Symbols) :
               u \o w \in Seq(Symbols) /\ Len(u \o w) = Len(u) + Len(w) /\ Len(u) \in Nat
        OBVIOUS
      <3> QED BY <1>2, <3>1, Zenon
    <2> HIDE DEF e
    <2>2. Len(e) # 0
      BY <2>1
    <2> QED BY <2>1, <2>2
  <1>17. JObject(parts) = a \o (q \o (v \o e))
    BY <1>13, Zenon DEF fc
  <1> HIDE DEF a, e
  <1>18. \E x, y \in Seq(Symbols) :
            JObject(parts) = x \o (q \o (v \o y)) /\ Silent(x, k) /\ y # <<>>
    BY <1>15, <1>16, <1>17, Zenon
  <1> QED BY <1>18, Zenon DEF Amid, q

-----------------------------------------------------------------------------
(* The names of fields are no marks.                                        *)
LEMMA NamesAre == \A k \in FieldNames : k \in Symbols /\ k \notin Marks
  <1>1. FieldNames \subseteq Symbols
    BY Zenon DEF Symbols
  <1>2. DOMAIN NoMetrics = WholeMetrics \union DecimalMetrics
    BY DEF NoMetrics
  <1>3. \A k \in WholeMetrics \union DecimalMetrics : k \notin Marks
    BY Zenon DEF WholeMetrics, DecimalMetrics, Marks
  <1>4. \A k \in {"jobId", "jobType", "status", "previousStatus", "timestamp", "progressPercent",
                  "currentStep", "startTime", "createdAt", "completedAt", "metrics",
                  "errorMessage", "recentLogs", "level", "component", "message", "context",
                  "type", "data", "targetJobId", "targetLevel", "jobIds", "logLevels",
                  "messageTypes", "includeSystemNotifications"} : k \notin Marks
    BY Zenon DEF Marks
  <1>5. FieldNames \subseteq (WholeMetrics \union DecimalMetrics)
            \union {"jobId", "jobType", "status", "previousStatus", "timestamp", "progressPercent",
                  "currentStep", "startTime", "createdAt", "completedAt", "metrics",
                  "errorMessage", "recentLogs", "level", "component", "message", "context",
                  "type", "data", "targetJobId", "targetLevel", "jobIds", "logLevels",
                  "messageTypes", "includeSystemNotifications"}
    BY <1>2, Zenon DEF FieldNames
  <1> QED BY <1>1, <1>3, <1>4, <1>5, Zenon

(* What an object says of its fields: the names differ, and a value names no *)
(* field that follows.                                                     *)
Says(n, ks, vs, parts) ==
    /\ n \in Nat /\ parts \in Seq(Seq(Symbols)) /\ Len(parts) = n
    /\ \A i \in 1..n : /\ ks[i] \in FieldNames /\ vs[i] \in Seq(Symbols)
                       /\ parts[i] = JField(ks[i], vs[i])
    /\ \A i, j \in 1..n : i < j => ks[i] # ks[j] /\ Silent(vs[i], ks[j])

(* None of the fields is called so, nor is any in them.                      *)
Lacks(n, ks, vs, k) == \A i \in 1..n : ks[i] # k /\ Silent(vs[i], k)

(* Each field of an object stands in its text; the text is silent about names it lacks. *)
LEMMA FieldsAmid ==
    ASSUME NEW n, NEW ks, NEW vs, NEW parts, Says(n, ks, vs, parts)
    PROVE  /\ \A j \in 1..n : Amid(JObject(parts), ks[j], vs[j])
           /\ \A k \in FieldNames : Lacks(n, ks, vs, k) =>
                 JObject(parts) \in Seq(Symbols) /\ Silent(JObject(parts), k)
  <1>1. /\ n \in Nat /\ parts \in Seq(Seq(Symbols)) /\ Len(parts) = n
        /\ \A i \in 1..n : /\ ks[i] \in FieldNames /\ vs[i] \in Seq(Symbols)
                           /\ parts[i] = JField(ks[i], vs[i])
        /\ \A i, j \in 1..n : i < j => ks[i] # ks[j] /\ Silent(vs[i], ks[j])
    BY DEF Says
  <1>2. ASSUME NEW i \in 1..n, NEW k \in FieldNames, ks[i] # k, Silent(vs[i], k)
        PROVE  Silent(parts[i], k)
    <2> DEFINE m == ks[i]
               v == vs[i]
    <2>1. m \in Symbols /\ k \notin Marks /\ m # k /\ v \in Seq(Symbols) /\ Silent(v, k)
      BY <1>1, <1>2, NamesAre
    <2>2. parts[i] = JField(m, v)
      BY <1>1
    <2> HIDE DEF m, v
    <2>3. Silent(JField(m, v), k)
      BY <2>1, FieldSilent
    <2> QED BY <2>2, <2>3
  <1>3. ASSUME NEW j \in 1..n PROVE Amid(JObject(parts), ks[j], vs[j])
    <2> DEFINE k == ks[j]
               v == vs[j]
    <2>1. k \in FieldNames /\ k \in Symbols /\ k \notin Marks /\ v \in Seq(Symbols)
          /\ parts[j] = JField(k, v)
      BY <1>1, NamesAre
    <2>2. \A i \in 1 .. j - 1 : i \in 1..n /\ ks[i] # k /\ Silent(vs[i], k)
      BY <1>1
    <2>3. \A i \in 1 .. j - 1 : Silent(parts[i], k)
      BY <1>2, <2>1, <2>2
    <2> HIDE DEF k, v
    <2>4. JField(k, v) = <<Quote, k, Quote, Colon>> \o v
      BY Zenon DEF JField, Quote, Colon
    <2>5. parts[j] = <<Quote, k, Quote, Colon>> \o v
      BY <2>1, <2>4, Zenon
    <2>6. Amid(JObject(parts), k, v)
      BY <1>1, <2>1, <2>3, <2>5, FieldAmidst
    <2> QED BY <2>6 DEF k, v
  <1>4. ASSUME NEW k \in FieldNames, Lacks(n, ks, vs, k)
        PROVE  JObject(parts) \in Seq(Symbols) /\ Silent(JObject(parts), k)
    <2>1. \A i \in 1..n : Silent(parts[i], k)
      BY <1>2, <1>4 DEF Lacks
    <2>2. k \notin Marks
      BY NamesAre
    <2> QED BY <1>1, <2>1, <2>2, PartsSilent
  <1> QED BY <1>3, <1>4

(* An optional text at the end.                                             *)
Holds(n, ks, vs, k, option) ==
    \/ option = {} /\ Lacks(n, ks, vs, k)
    \/ \E t \in AnyText, j \in 1..n : option = {t} /\ ks[j] = k /\ vs[j] = JText(t)

(* An optional text is read if it was written, and only then.               *)
LEMMA OptionRead ==
    ASSUME NEW n, NEW ks, NEW vs, NEW parts, Says(n, ks, vs, parts), NEW k \in FieldNames,
           NEW option, Holds(n, ks, vs, k, option)
    PROVE  SameOption(option, readText(JObject(parts), k))
  <1> DEFINE T == JObject(parts)
  <1>0. k \in Symbols /\ k \notin Marks
    BY NamesAre
  <1>1. CASE option = {} /\ Lacks(n, ks, vs, k)
    <2>1. T \in Seq(Symbols) /\ Silent(T, k)
      BY <1>1, FieldsAmid
    <2> HIDE DEF T
    <2>2. readText(T, k) = {}
      BY <1>0, <2>1, NothingRead
    <2> QED BY <1>1, <2>2 DEF SameOption, T
  <1>2. CASE \E t \in AnyText, j \in 1..n : option = {t} /\ ks[j] = k /\ vs[j] = JText(t)
    <2>1. PICK t \in AnyText, j \in 1..n : option = {t} /\ ks[j] = k /\ vs[j] = JText(t)
      BY <1>2
    <2>2. Amid(T, k, JText(t))
      <3>1. Amid(T, ks[j], vs[j])
        BY FieldsAmid
      <3> QED BY <2>1, <3>1
    <2> HIDE DEF T
    <2>3. ASSUME PlainText(t) PROVE readText(T, k) = {t}
      BY <1>0, <2>2, <2>3, TextRead
    <2> QED BY <2>1, <2>3 DEF SameOption, T
  <1> QED BY <1>1, <1>2 DEF Holds

(* What a longer object says, which begins as a shorter one.                 *)
Continues(n, ks, vs, m, ls, ws) ==
    /\ n \in Nat /\ m \in Nat /\ n <= m
    /\ \A i \in 1..n : ls[i] = ks[i] /\ ws[i] = vs[i]

(* With one more optional text, the object says what it said before, and that text. *)
LEMMA OptionAdded ==
    ASSUME NEW n, NEW ks, NEW vs, NEW parts, Says(n, ks, vs, parts), NEW k \in FieldNames,
           NEW option, IsOption(option), Lacks(n, ks, vs, k)
    PROVE  \E m, ls, ws : /\ Says(m, ls, ws, parts \o JOptional(k, option))
                          /\ Continues(n, ks, vs, m, ls, ws)
                          /\ Holds(m, ls, ws, k, option)
                          /\ \A h \in FieldNames :
                                h # k /\ Lacks(n, ks, vs, h) => Lacks(m, ls, ws, h)
  <1>1. /\ n \in Nat /\ parts \in Seq(Seq(Symbols)) /\ Len(parts) = n
        /\ \A i \in 1..n : /\ ks[i] \in FieldNames /\ vs[i] \in Seq(Symbols)
                           /\ parts[i] = JField(ks[i], vs[i])
        /\ \A i, j \in 1..n : i < j => ks[i] # ks[j] /\ Silent(vs[i], ks[j])
    BY DEF Says
  <1>2. CASE option = {}
    <2>1. JOptional(k, option) = <<>>
      BY <1>2, Zenon DEF JOptional
    <2>2. parts \o <<>> = parts
      BY <1>1
    <2>3. Says(n, ks, vs, parts \o JOptional(k, option))
      BY <2>1, <2>2
    <2>4. Continues(n, ks, vs, n, ks, vs)
      BY <1>1 DEF Continues
    <2>5. Holds(n, ks, vs, k, option)
      BY <1>2 DEF Holds
    <2> QED BY <2>3, <2>4, <2>5, Zenon
  <1>3. CASE option # {}
    <2>1. PICK t \in AnyText : option = {t}
      BY <1>3, Zenon DEF IsOption
    <2> DEFINE v == JText(t)
               p == JField(k, v)
               m == n + 1
               ls == [i \in 1..m |-> IF i <= n THEN ks[i] ELSE k]
               ws == [i \in 1..m |-> IF i <= n THEN vs[i] ELSE v]
               all == parts \o <<p>>
    <2>2. JOptional(k, option) = <<p>>
      <3>1. option # {} /\ (CHOOSE x \in option : TRUE) = t
        BY <2>1
      <3>2. JOptional(k, option) = <<JField(k, JText(CHOOSE x \in option : TRUE))>>
        BY <3>1, Zenon DEF JOptional
      <3> QED BY <3>1, <3>2, Zenon
    <2>3. \A h \in FieldNames : v \in Seq(Symbols) /\ Silent(v, h)
      BY <2>1, NamesAre, TextSilent
    <2> HIDE DEF v
    <2>4. p \in Seq(Symbols)
      <3>1. p = <<Quote, k, Quote, Colon>> \o v
        BY Zenon DEF JField, Quote, Colon
      <3>2. k \in Symbols /\ Quote \in Symbols /\ Colon \in Symbols /\ v \in Seq(Symbols)
        BY <2>3, NamesAre, MarksAre
      <3> HIDE DEF p
      <3> QED BY <3>1, <3>2
    <2> HIDE DEF p
    <2>5. /\ all \in Seq(Seq(Symbols)) /\ Len(all) = m /\ all[m] = p
          /\ \A i \in 1..n : all[i] = parts[i]
      BY <1>1, <2>4
    <2>6. /\ m \in Nat /\ n <= m /\ m \in 1..m
          /\ \A i \in 1..m : i = m \/ (i \in 1..n /\ i <= n)
          /\ \A i \in 1..n : i <= n /\ i \in 1..m
          /\ ~(m <= n)
      BY <1>1
    <2>7. /\ ls[m] = k /\ ws[m] = v
          /\ \A i \in 1..n : ls[i] = ks[i] /\ ws[i] = vs[i]
      BY <2>6
    <2> HIDE DEF all, ls, ws
    <2>8. \A i \in 1..m : ls[i] \in FieldNames /\ ws[i] \in Seq(Symbols)
                          /\ all[i] = JField(ls[i], ws[i])
      <3>1. ASSUME NEW i \in 1..n
            PROVE  ls[i] \in FieldNames /\ ws[i] \in Seq(Symbols) /\ all[i] = JField(ls[i], ws[i])
        BY <1>1, <2>5, <2>7
      <3>2. ls[m] \in FieldNames /\ ws[m] \in Seq(Symbols) /\ all[m] = JField(ls[m], ws[m])
        BY <2>3, <2>5, <2>7 DEF p
      <3> QED BY <2>6, <3>1, <3>2
    <2>9. \A i, j \in 1..m : i < j => ls[i] # ls[j] /\ Silent(ws[i], ls[j])
      <3> SUFFICES ASSUME NEW i \in 1..m, NEW j \in 1..m, i < j
                   PROVE  ls[i] # ls[j] /\ Silent(ws[i], ls[j])
        OBVIOUS
      <3>1. i \in 1..n
        BY <1>1
      <3>2. CASE j = m
        BY <2>7, <3>1, <3>2 DEF Lacks
      <3>3. CASE j # m
        BY <1>1, <2>6, <2>7, <3>1, <3>3
      <3> QED BY <3>2, <3>3
    <2>10. Says(m, ls, ws, all)
      BY <2>5, <2>6, <2>8, <2>9 DEF Says
    <2>11. Continues(n, ks, vs, m, ls, ws)
      BY <1>1, <2>6, <2>7 DEF Continues
    <2>12. Holds(m, ls, ws, k, option)
      BY <2>1, <2>6, <2>7 DEF Holds, v
    <2>13. \A h \in FieldNames : h # k /\ Lacks(n, ks, vs, h) => Lacks(m, ls, ws, h)
      BY <2>3, <2>6, <2>7 DEF Lacks
    <2>14. Says(m, ls, ws, parts \o JOptional(k, option))
      BY <2>2, <2>10 DEF all
    <2> HIDE DEF m
    <2> QED BY <2>11, <2>12, <2>13, <2>14, Zenon
  <1> QED BY <1>2, <1>3

-----------------------------------------------------------------------------
(* Numbers, names and times are words of texts, and no marks.               *)
LEMMA WordsAre ==
    /\ \A w \in decimals : w \in Symbols /\ w \notin Marks /\ w \notin FieldNames
    /\ \A w \in numerals : w \in decimals
    /\ \A f \in DOMAIN hundredths : hundredths[f] \in decimals
    /\ \A w \in JobStatusNames \union JobTypeNames \union MessageTypeNames \union instants :
          w \in Symbols /\ w # Quote
    /\ \A w \in {"true", "false"} : w \in Symbols /\ w \notin Marks /\ w \notin FieldNames
  <1>1. \A w \in decimals : w \in Symbols /\ w \notin Marks /\ w \notin FieldNames
    <2>1. \A w \in decimals : w \in Symbols
      BY Zenon DEF Symbols
    <2>2. \A w \in decimals : w \notin Marks /\ w \notin FieldNames
      BY WordsAssumption
    <2> QED BY <2>1, <2>2
  <1>2. \A w \in numerals : w \in decimals
    BY ModelsAssumption
  <1>3. \A f \in DOMAIN hundredths : hundredths[f] \in decimals
    BY ModelsAssumption
  <1>4. \A w \in JobStatusNames \union JobTypeNames \union MessageTypeNames \union instants :
          w \in Symbols
    BY Zenon DEF Symbols
  <1>5. \A w \in JobStatusNames : w # Quote
    BY Zenon DEF JobStatusNames, Quote
  <1>6. \A w \in JobTypeNames : w # Quote
    BY Zenon DEF JobTypeNames, Quote
  <1>7. \A w \in MessageTypeNames : w # Quote
    BY Zenon DEF MessageTypeNames, Quote
  <1>8. \A w \in instants : w # Quote
    <2>1. Quote \in Marks
      BY MarksAre
    <2> QED BY <2>1, WordsAssumption
  <1>9. \A w \in {"true", "false"} : w \in Symbols /\ w \notin Marks /\ w \notin FieldNames
    <2>1. \A w \in {"true", "false"} : w \in Symbols
      BY Zenon DEF Symbols
    <2>2. \A w \in {"true", "false"} : w \notin Marks
      BY Zenon DEF Marks
    <2>3. \A w \in {"true", "false"} : w \notin WholeMetrics \union DecimalMetrics
      BY Zenon DEF WholeMetrics, DecimalMetrics
    <2>4. DOMAIN NoMetrics = WholeMetrics \union DecimalMetrics
      BY DEF NoMetrics
    <2>5. \A w \in {"true", "false"} : w \notin FieldNames
      BY <2>3, <2>4, Zenon DEF FieldNames
    <2> QED BY <2>1, <2>2, <2>5
  <1> QED BY <1>1, <1>2, <1>3, <1>4, <1>5, <1>6, <1>7, <1>8, <1>9

(* A word between quotes is silent, and one without quotes for other names.  *)
LEMMA WordSilent ==
    ASSUME NEW w \in Symbols, NEW k, k \notin Marks
    PROVE  JWord(w) \in Seq(Symbols) /\ JWord(w) # <<>> /\ Silent(JWord(w), k)
  <1> DEFINE v == <<Quote, w, Quote>>
  <1>1. JWord(w) = v
    BY Zenon DEF JWord, Quote
  <1>2. Quote \in Symbols /\ k # Quote /\ Quote # Colon
    BY MarksAre
  <1>3. v \in Seq(Symbols) /\ Len(v) = 3 /\ v[1] = Quote /\ v[3] = Quote /\ v # <<>>
    BY <1>2
  <1> HIDE DEF v
  <1>4. \A i \in 1..3 : v[i] = k => i = 2
    <2>1. \A i \in 1..3 : i = 1 \/ i = 2 \/ i = 3
      OBVIOUS
    <2> QED BY <1>2, <1>3, <2>1
  <1>5. \A i \in 1..Len(v) : v[i] = k => i > 1 /\ i < Len(v) /\ ~(i + 2 <= Len(v))
    <2>1. 2 > 1 /\ 2 < 3 /\ ~(2 + 2 <= 3)
      OBVIOUS
    <2> QED BY <1>3, <1>4, <2>1
  <1>6. v[1] # Colon
    BY <1>2, <1>3
  <1>7. Silent(v, k)
    BY <1>5, <1>6, Zenon DEF Silent, Colon
  <1> QED BY <1>1, <1>3, <1>7

(* A word without quotes is silent.                                         *)
LEMMA BareSilent ==
    ASSUME NEW w \in Symbols, NEW k, w # k, w \notin Marks
    PROVE  <<w>> \in Seq(Symbols) /\ <<w>> # <<>> /\ Silent(<<w>>, k)
  <1> DEFINE v == <<w>>
  <1>1. v \in Seq(Symbols) /\ v # <<>> /\ Len(v) = 1 /\ v[1] = w
    OBVIOUS
  <1>2. w # Colon
    BY MarksAre
  <1> HIDE DEF v
  <1>3. \A i \in 1..Len(v) : v[i] # k
    BY <1>1
  <1>4. Silent(v, k)
    BY <1>1, <1>2, <1>3, SilentWithout
  <1> QED BY <1>1, <1>4 DEF v

(* What the fields of a record hold: for which names they are silent.       *)
LEMMA ValuesSilent ==
    ASSUME NEW k \in FieldNames
    PROVE  /\ \A x \in AnyText : JText(x) \in Seq(Symbols) /\ Silent(JText(x), k)
           /\ \A w \in JobStatusNames \union JobTypeNames \union MessageTypeNames :
                 JWord(w) \in Seq(Symbols) /\ Silent(JWord(w), k)
           /\ \A time : IsTime(time) =>
                 formatTimestamp(time) \in Seq(Symbols) /\ Silent(formatTimestamp(time), k)
           /\ \A w \in decimals : <<w>> \in Seq(Symbols) /\ Silent(<<w>>, k)
           /\ \A w \in {"true", "false"} : <<w>> \in Seq(Symbols) /\ Silent(<<w>>, k)
  <1>0. k \in Symbols /\ k \notin Marks
    BY NamesAre
  <1>1. \A x \in AnyText : JText(x) \in Seq(Symbols) /\ Silent(JText(x), k)
    BY <1>0, TextSilent
  <1>2. \A w \in Symbols : JWord(w) \in Seq(Symbols) /\ Silent(JWord(w), k)
    BY <1>0, WordSilent
  <1>3. \A time : IsTime(time) => formatTimestamp(time) = JWord(time.ms) /\ time.ms \in Symbols
    BY WordsAre, Zenon DEF IsTime, formatTimestamp
  <1>4. \A w \in Symbols : w # k /\ w \notin Marks => <<w>> \in Seq(Symbols) /\ Silent(<<w>>, k)
    BY BareSilent
  <1>5. \A w \in decimals : <<w>> \in Seq(Symbols) /\ Silent(<<w>>, k)
    BY <1>4, WordsAre
  <1>6. \A w \in {"true", "false"} : <<w>> \in Seq(Symbols) /\ Silent(<<w>>, k)
    <2>1. \A w \in {"true", "false"} : w \in Symbols /\ w # k /\ w \notin Marks
      BY WordsAre
    <2> QED BY <1>4, <2>1, Zenon
  <1>7. \A w \in JobStatusNames \union JobTypeNames \union MessageTypeNames :
           JWord(w) \in Seq(Symbols) /\ Silent(JWord(w), k)
    BY <1>2, WordsAre
  <1>8. \A time : IsTime(time) =>
           formatTimestamp(time) \in Seq(Symbols) /\ Silent(formatTimestamp(time), k)
    BY <1>2, <1>3, Zenon
  <1> QED BY <1>1, <1>5, <1>6, <1>7, <1>8, Zenon

-----------------------------------------------------------------------------
(* A symbol that no field holds, and the comma is not, stands nowhere in what *)
(* is put together of them.                                                *)
Free(a, c) == \A i \in 1..Len(a) : a[i] # c

(* Two texts without a symbol put together lack it.                         *)
LEMMA FreeJoin ==
    ASSUME NEW S, NEW a \in Seq(S), NEW b \in Seq(S), NEW c, Free(a, c), Free(b, c)
    PROVE  Free(a \o b, c)
  <1> DEFINE n == Len(a)
             m == Len(b)
             d == a \o b
  <1>1. /\ n \in Nat /\ m \in Nat /\ Len(d) = n + m
        /\ \A i \in 1..n : d[i] = a[i]
        /\ \A i \in 1..m : d[n + i] = b[i]
    OBVIOUS
  <1>2. (\A i \in 1..n : a[i] # c) /\ \A i \in 1..m : b[i] # c
    BY DEF Free
  <1> HIDE DEF n, m, d
  <1>3. ASSUME NEW i \in 1..n + m PROVE d[i] # c
    <2>1. CASE i <= n
      BY <1>1, <1>2, <2>1
    <2>2. CASE ~(i <= n)
      <3>1. i - n \in 1..m /\ n + (i - n) = i
        BY <1>1, <2>2
      <3>2. d[n + (i - n)] = b[i - n]
        BY <1>1, <3>1
      <3> QED BY <1>2, <3>1, <3>2
    <2> QED BY <2>1, <2>2
  <1>4. Free(d, c)
    BY <1>1, <1>3 DEF Free
  <1> QED BY <1>4 DEF d

(* Parts without a symbol and the commas between them lack it.             *)
LEMMA FreeParts ==
    ASSUME NEW parts \in Seq(Seq(Symbols)), NEW c, c # Comma,
           \A i \in 1..Len(parts) : Free(parts[i], c)
    PROVE  /\ FlattenSeq(Commaed(parts)) \in Seq(Symbols)
           /\ Free(FlattenSeq(Commaed(parts)), c)
  <1> DEFINE G == {a \in Seq(Symbols) : Free(a, c)}
             s == Commaed(parts)
             n == Len(parts)
             comma == <<Comma>>
  <1>1. G \in SUBSET Seq(Symbols)
    OBVIOUS
  <1>2. <<>> \in G
    <2>1. <<>> \in Seq(Symbols) /\ \A i \in 1..Len(<<>>) : FALSE
      OBVIOUS
    <2> QED BY <2>1 DEF Free
  <1>3. \A a, b \in G : a \o b \in G
    <2> SUFFICES ASSUME NEW a \in G, NEW b \in G PROVE a \o b \in G
      OBVIOUS
    <2>1. a \in Seq(Symbols) /\ b \in Seq(Symbols) /\ Free(a, c) /\ Free(b, c)
      OBVIOUS
    <2>2. a \o b \in Seq(Symbols) /\ Free(a \o b, c)
      BY <2>1, FreeJoin
    <2> QED BY <2>2
  <1>4. /\ s \in Seq(Seq(Symbols)) /\ Len(s) = n /\ n \in Nat
        /\ \A i \in 1..n : /\ parts[i] \in Seq(Symbols)
                           /\ i = 1 => s[i] = parts[i]
                           /\ i # 1 => s[i] = comma \o parts[i]
    BY CommaedAre
  <1>5. comma \in Seq(Symbols) /\ Free(comma, c)
    <2>1. comma \in Seq(Symbols) /\ \A i \in 1..Len(comma) : comma[i] = Comma
      BY MarksAre
    <2> HIDE DEF comma
    <2> QED BY <2>1 DEF Free
  <1> HIDE DEF s, comma
  <1>6. \A i \in 1..n : s[i] \in G
    <2> SUFFICES ASSUME NEW i \in 1..n PROVE s[i] \in G
      OBVIOUS
    <2>1. parts[i] \in G
      BY <1>4
    <2>2. comma \in G
      BY <1>5
    <2> HIDE DEF G
    <2> QED BY <1>3, <1>4, <2>1, <2>2
  <1> HIDE DEF G
  <1>7. s \in Seq(G)
    <2>1. s = [i \in 1..n |-> s[i]] /\ n \in Nat
      BY <1>4
    <2> HIDE DEF n
    <2> QED BY <1>6, <2>1
  <1>8. FlattenSeq(s) \in G
    BY <1>1, <1>2, <1>3, <1>7, FlattenIn
  <1> QED BY <1>8 DEF G, s

-----------------------------------------------------------------------------
(* The names of the metrics are written each once.                          *)
LEMMA MetricNamesAre ==
    /\ DOMAIN MetricNames = 1..20
    /\ \A i \in 1..20 : MetricNames[i] \in DOMAIN NoMetrics
    /\ \A i, j \in 1..20 : i < j => MetricNames[i] # MetricNames[j]
    /\ \A f \in DOMAIN NoMetrics : \E i \in 1..20 : MetricNames[i] = f
    /\ DOMAIN NoMetrics = WholeMetrics \union DecimalMetrics
    /\ \A f \in DOMAIN NoMetrics : f \in FieldNames
  <1>1. DOMAIN NoMetrics = WholeMetrics \union DecimalMetrics
    BY DEF NoMetrics
  <1>2. DOMAIN MetricNames = 1..20
    BY DEF MetricNames
  <1>3. \A i \in 1..20 : MetricNames[i] \in WholeMetrics \union DecimalMetrics
    BY DEF MetricNames, WholeMetrics, DecimalMetrics
  <1>4. \A i, j \in 1..20 : i < j => MetricNames[i] # MetricNames[j]
    BY SMTT(60) DEF MetricNames
  <1>5. \A f \in WholeMetrics \union DecimalMetrics : \E i \in 1..20 : MetricNames[i] = f
    BY SMTT(60) DEF MetricNames, WholeMetrics, DecimalMetrics
  <1>6. \A f \in DOMAIN NoMetrics : f \in FieldNames
    BY Zenon DEF FieldNames
  <1> QED BY <1>1, <1>2, <1>3, <1>4, <1>5, <1>6

(* What each is written as.                                                 *)
MetricWord(m, f) == IF f \in DecimalMetrics THEN hundredths[m[f]] ELSE m[f]

(* A metric is written as a number the readers know.                        *)
LEMMA MetricWordIs ==
    ASSUME NEW m, IsMetrics(m), NEW f \in DOMAIN NoMetrics
    PROVE  /\ MetricWord(m, f) \in decimals
           /\ MetricWord(m, f) \in IF f \in DecimalMetrics THEN decimals ELSE numerals
  <1>1. f \in WholeMetrics \/ f \in DecimalMetrics
    BY MetricNamesAre
  <1>2. CASE f \in DecimalMetrics
    BY <1>2, WordsAre DEF IsMetrics, MetricWord
  <1>3. CASE f \notin DecimalMetrics
    BY <1>1, <1>3, WordsAre DEF IsMetrics, MetricWord
  <1> QED BY <1>2, <1>3

(* The fields of the metrics.                                               *)
LEMMA MetricsSay ==
    ASSUME NEW m, IsMetrics(m)
    PROVE  \E vs, parts :
              /\ Says(20, MetricNames, vs, parts)
              /\ \A i \in 1..20 : vs[i] = <<MetricWord(m, MetricNames[i])>>
              /\ metricsToJson(m) = JObject(parts)
  <1> DEFINE w(i) == MetricWord(m, MetricNames[i])
             vs == [i \in 1..20 |-> <<w(i)>>]
             field(i) == JField(MetricNames[i], <<w(i)>>)
             parts == [i \in 1..20 |-> field(i)]
  <1>1. metricsToJson(m) = JObject(parts)
    <2>1. metricsToJson(m) = JObject([i \in DOMAIN MetricNames |-> field(i)])
      BY Zenon DEF metricsToJson, MetricWord
    <2>2. DOMAIN MetricNames = 1..20
      BY MetricNamesAre
    <2> HIDE DEF field
    <2> QED BY <2>1, <2>2
  <1>2. \A i \in 1..20 : /\ MetricNames[i] \in FieldNames /\ MetricNames[i] \in Symbols
                         /\ w(i) \in decimals /\ w(i) \in Symbols
    BY MetricNamesAre, MetricWordIs, NamesAre, WordsAre
  <1> HIDE DEF w
  <1>3. \A i \in 1..20 : field(i) \in Seq(Symbols)
    <2> SUFFICES ASSUME NEW i \in 1..20 PROVE field(i) \in Seq(Symbols)
      OBVIOUS
    <2> DEFINE k == MetricNames[i]
               v == <<w(i)>>
    <2>1. k \in Symbols /\ v \in Seq(Symbols)
      BY <1>2
    <2>2. field(i) = <<Quote, k, Quote, Colon>> \o v
      BY Zenon DEF JField, Quote, Colon
    <2>3. Quote \in Symbols /\ Colon \in Symbols
      BY MarksAre
    <2> HIDE DEF k, v, field
    <2>4. <<Quote, k, Quote, Colon>> \in Seq(Symbols)
      BY <2>1, <2>3
    <2> QED BY <2>1, <2>2, <2>4
  <1> HIDE DEF field
  <1>4. parts \in Seq(Seq(Symbols)) /\ Len(parts) = 20 /\ \A i \in 1..20 : parts[i] = field(i)
    BY <1>3
  <1>5. \A i \in 1..20 : vs[i] = <<w(i)>> /\ vs[i] \in Seq(Symbols)
    BY <1>2
  <1>6. \A i, j \in 1..20 : i < j =>
           MetricNames[i] # MetricNames[j] /\ Silent(vs[i], MetricNames[j])
    <2> SUFFICES ASSUME NEW i \in 1..20, NEW j \in 1..20, i < j
                 PROVE  MetricNames[i] # MetricNames[j] /\ Silent(vs[i], MetricNames[j])
      OBVIOUS
    <2>1. MetricNames[i] # MetricNames[j]
      BY MetricNamesAre
    <2>2. MetricNames[j] \in FieldNames /\ w(i) \in decimals
      BY <1>2
    <2>3. Silent(<<w(i)>>, MetricNames[j])
      BY <2>2, ValuesSilent
    <2> QED BY <1>5, <2>1, <2>3
  <1>7. \A i \in 1..20 : MetricNames[i] \in FieldNames /\ vs[i] \in Seq(Symbols)
                         /\ parts[i] = JField(MetricNames[i], vs[i])
    BY <1>2, <1>4, <1>5 DEF field
  <1> HIDE DEF vs, parts
  <1>8. Says(20, MetricNames, vs, parts)
    <2>1. 20 \in Nat
      OBVIOUS
    <2> QED BY <1>4, <1>6, <1>7, <2>1, Zenon DEF Says
  <1> QED BY <1>1, <1>5, <1>8, Zenon DEF w

(* They are silent for the names of other fields, and an object that closes  *)
(* at its end.                                                             *)
LEMMA MetricsSilent ==
    ASSUME NEW m, IsMetrics(m)
    PROVE  /\ metricsToJson(m) \in Seq(Symbols)
           /\ \A k \in FieldNames \ DOMAIN NoMetrics : Silent(metricsToJson(m), k)
           /\ Closed(metricsToJson(m), Open, Close)
  <1>1. PICK vs, parts : /\ Says(20, MetricNames, vs, parts)
                         /\ \A i \in 1..20 : vs[i] = <<MetricWord(m, MetricNames[i])>>
                         /\ metricsToJson(m) = JObject(parts)
    BY MetricsSay
  <1>2. /\ parts \in Seq(Seq(Symbols)) /\ Len(parts) = 20
        /\ \A i \in 1..20 : parts[i] = JField(MetricNames[i], vs[i])
    BY <1>1 DEF Says
  <1>3. \A i \in 1..20 : Free(parts[i], Close)
    <2> SUFFICES ASSUME NEW i \in 1..20 PROVE Free(parts[i], Close)
      OBVIOUS
    <2> DEFINE k == MetricNames[i]
               w == MetricWord(m, k)
               q == <<Quote, k, Quote, Colon>>
               v == <<w>>
    <2>1. /\ k \in DOMAIN NoMetrics /\ k \in FieldNames /\ k \in Symbols /\ k \notin Marks
      BY MetricNamesAre, NamesAre
    <2>2. w \in decimals /\ w \in Symbols /\ w \notin Marks
      BY <2>1, MetricWordIs, WordsAre
    <2>3. parts[i] = q \o v
      <3>1. parts[i] = JField(k, v)
        BY <1>1, <1>2
      <3> QED BY <3>1, Zenon DEF JField, Quote, Colon
    <2>4. /\ Quote \in Symbols /\ Colon \in Symbols /\ Quote # Close /\ Colon # Close
          /\ Close \in Marks
      BY MarksAre
    <2>5. /\ q \in Seq(Symbols) /\ Len(q) = 4 /\ q[1] = Quote /\ q[2] = k /\ q[3] = Quote
          /\ q[4] = Colon
      <3> HIDE DEF k
      <3> QED BY <2>1, <2>4
    <2>6. v \in Seq(Symbols) /\ Len(v) = 1 /\ v[1] = w
      <3> HIDE DEF w
      <3> QED BY <2>2
    <2> HIDE DEF q, v, k, w
    <2>7. Free(q, Close)
      <3>1. \A j \in 1..4 : j = 1 \/ j = 2 \/ j = 3 \/ j = 4
        OBVIOUS
      <3> QED BY <2>1, <2>4, <2>5, <3>1 DEF Free
    <2>8. Free(v, Close)
      <3>1. \A j \in 1..1 : j = 1
        OBVIOUS
      <3> QED BY <2>2, <2>4, <2>6, <3>1 DEF Free
    <2>9. Free(q \o v, Close)
      BY <2>5, <2>6, <2>7, <2>8, FreeJoin
    <2> QED BY <2>3, <2>9
  <1>4. metricsToJson(m) \in Seq(Symbols) /\ Closed(metricsToJson(m), Open, Close)
    <2> DEFINE x == FlattenSeq(Commaed(parts))
    <2>1. Close # Comma /\ Open \in Symbols /\ Close \in Symbols
      BY MarksAre
    <2>2. x \in Seq(Symbols) /\ Free(x, Close)
      BY <1>2, <1>3, <2>1, FreeParts
    <2>3. metricsToJson(m) = (<<Open>> \o x) \o <<Close>>
      BY <1>1, JoinedIs
    <2> HIDE DEF x
    <2>4. \A i \in 1..Len(x) : x[i] # Close
      BY <2>2 DEF Free
    <2>5. Closed(<<Open>> \o x \o <<Close>>, Open, Close)
      BY <2>1, <2>2, <2>4, BetweenIs
    <2>6. Closed(metricsToJson(m), Open, Close)
      BY <2>3, <2>5
    <2> QED BY <2>6 DEF Closed
  <1>5. ASSUME NEW k \in FieldNames \ DOMAIN NoMetrics PROVE Silent(metricsToJson(m), k)
    <2>1. \A i \in 1..20 : MetricNames[i] # k /\ MetricNames[i] \in DOMAIN NoMetrics
      BY MetricNamesAre
    <2>2. \A i \in 1..20 : Silent(vs[i], k)
      <3>1. \A w \in decimals : Silent(<<w>>, k)
        BY ValuesSilent
      <3> QED BY <1>1, <2>1, <3>1, MetricWordIs
    <2>3. Lacks(20, MetricNames, vs, k)
      BY <2>1, <2>2 DEF Lacks
    <2> QED BY <1>1, <2>3, FieldsAmid
  <1> QED BY <1>4, <1>5

(* They are read as they were written, by themselves ...                    *)
LEMMA MetricsSame ==
    ASSUME NEW m, IsMetrics(m)
    PROVE  SameMetrics(m, metricsFromJson(metricsToJson(m)))
  <1> DEFINE T == metricsToJson(m)
  <1>1. PICK vs, parts : /\ Says(20, MetricNames, vs, parts)
                         /\ \A i \in 1..20 : vs[i] = <<MetricWord(m, MetricNames[i])>>
                         /\ T = JObject(parts)
    BY MetricsSay
  <1> HIDE DEF T
  <1>2. ASSUME NEW f \in DOMAIN NoMetrics PROVE metricsFromJson(T)[f] = MetricWord(m, f)
    <2> DEFINE words == IF f \in DecimalMetrics THEN decimals ELSE numerals
               w == MetricWord(m, f)
    <2>1. f \in Symbols /\ f \notin Marks
      BY MetricNamesAre, NamesAre
    <2>2. w \in Symbols /\ w \in words
      BY MetricWordIs, WordsAre
    <2>3. Amid(T, f, <<w>>)
      <3>1. PICK j \in 1..20 : MetricNames[j] = f
        BY MetricNamesAre
      <3>2. Amid(JObject(parts), MetricNames[j], vs[j])
        BY <1>1, FieldsAmid
      <3> QED BY <1>1, <3>1, <3>2
    <2> HIDE DEF words, w
    <2>4. readWord(T, f, words) = {w}
      BY <2>1, <2>2, <2>3, WordRead
    <2>5. Given(readWord(T, f, words), "0") = w
      BY <2>4, GivenIs
    <2>6. metricsFromJson(T)[f] = Given(readWord(T, f, words), "0")
      BY Zenon DEF metricsFromJson, words
    <2> QED BY <2>5, <2>6 DEF w
  <1>3. DOMAIN m = DOMAIN NoMetrics
    BY DEF IsMetrics
  <1> QED BY <1>2, <1>3 DEF SameMetrics, MetricWord, T

(* ... and as the metrics of a record.                                      *)
LEMMA MetricsRead ==
    ASSUME NEW m, IsMetrics(m), NEW T, Amid(T, "metrics", metricsToJson(m))
    PROVE  SameMetrics(m, readMetrics(T))
  <1> DEFINE J == metricsToJson(m)
  <1>1. "metrics" \in FieldNames
    BY Zenon DEF FieldNames
  <1>2. "metrics" \in Symbols /\ "metrics" \notin Marks
    BY <1>1, NamesAre
  <1>3. Closed(J, Open, Close)
    BY MetricsSilent
  <1>4. FirstEnclosed(T, "metrics", Open, Close) = {J}
    BY <1>2, <1>3, EnclosedRead
  <1>5. readObject(T, "metrics") = {J}
    BY <1>4, Zenon DEF readObject, Open, Close
  <1>6. SameMetrics(m, metricsFromJson(J))
    BY MetricsSame
  <1> HIDE DEF J
  <1>7. {metricsFromJson(x) : x \in readObject(T, "metrics")} = {metricsFromJson(J)}
    BY <1>5
  <1>8. readMetrics(T) = Given({metricsFromJson(J)}, NoMetrics)
    BY <1>7, Zenon DEF readMetrics
  <1>9. readMetrics(T) = metricsFromJson(J)
    BY <1>8, GivenIs
  <1> QED BY <1>6, <1>9

-----------------------------------------------------------------------------
(* The odd numbers below an odd number.                                     *)
Odds(m) == {2 * j - 1 : j \in 1..m}

(* There are m of them.                                                     *)
LEMMA OddsCounted == ASSUME NEW m \in Nat PROVE Cardinality(Odds(m)) = m
  <1> DEFINE f == [j \in 1..m |-> 2 * j - 1]
             O == Odds(m)
  <1>1. IsFiniteSet(1..m) /\ Cardinality(1..m) = m
    <2>1. 1 \in Int /\ m \in Int /\ (IF 1 > m THEN 0 ELSE m - 1 + 1) = m
      OBVIOUS
    <2> QED BY <2>1, FS_Interval
  <1>2. f \in Bijection(1..m, O)
    <2>1. f \in [1..m -> O]
      BY DEF Odds
    <2>2. \A a, b \in 1..m : f[a] = f[b] => a = b
      OBVIOUS
    <2>3. \A t \in O : \E a \in 1..m : f[a] = t
      BY DEF Odds
    <2> HIDE DEF f, O
    <2> QED BY <2>1, <2>2, <2>3 DEF Bijection, Injection, Surjection, IsInjective
  <1>3. ExistsBijection(1..m, O)
    BY <1>2 DEF ExistsBijection
  <1> HIDE DEF O
  <1>4. Cardinality(O) = Cardinality(1..m)
    BY <1>1, <1>3, FS_Bijection
  <1> QED BY <1>1, <1>4 DEF O

(* The positions kept of positions, when they are these.                     *)
LEMMA OddsKept ==
    ASSUME NEW L \in Nat, NEW n \in Nat, 2 * n - 1 <= L, NEW D, D = Odds(n)
    PROVE  Kept([k \in 1..L |-> k], D) = [m \in 1..n |-> 2 * m - 1]
  <1> DEFINE q == [k \in 1..L |-> k]
             U(i) == {j \in D : j <= i}
  <1>1. Cardinality(D) = n
    BY OddsCounted
  <1>2. \A m \in 1..n : U(2 * m - 1) = Odds(m) /\ m \in Nat
    BY DEF Odds
  <1>3. \A m \in 1..n : Cardinality(U(2 * m - 1)) = m
    BY <1>2, OddsCounted
  <1>4. \A i \in D : \E m \in 1..n : i = 2 * m - 1
    BY DEF Odds
  <1>5. \A m \in 1..n : 2 * m - 1 \in D /\ 2 * m - 1 \in 1..L
    BY DEF Odds
  <1> HIDE DEF U
  <1>6. ASSUME NEW m \in 1..n PROVE (CHOOSE i \in D : Cardinality(U(i)) = m) = 2 * m - 1
    <2>1. \E i \in D : Cardinality(U(i)) = m
      BY <1>3, <1>5
    <2>2. \A i \in D : Cardinality(U(i)) = m => i = 2 * m - 1
      <3> SUFFICES ASSUME NEW i \in D, Cardinality(U(i)) = m PROVE i = 2 * m - 1
        OBVIOUS
      <3>1. PICK h \in 1..n : i = 2 * h - 1
        BY <1>4
      <3>2. Cardinality(U(i)) = h
        BY <1>3, <3>1
      <3> QED BY <3>1, <3>2
    <2> QED BY <2>1, <2>2
  <1>7. Kept(q, D) = [k \in 1..Cardinality(D) |-> q[CHOOSE i \in D : Cardinality(U(i)) = k]]
    BY Zenon DEF Kept, U
  <1>8. \A m \in 1..n : q[CHOOSE i \in D : Cardinality(U(i)) = m] = 2 * m - 1
    <2>1. \A m \in 1..n : q[2 * m - 1] = 2 * m - 1
      BY <1>5
    <2> HIDE DEF q
    <2> QED BY <1>6, <2>1
  <1> HIDE DEF q
  <1>9. Kept(q, D) = [m \in 1..n |-> 2 * m - 1]
    BY <1>1, <1>7, <1>8
  <1> QED BY <1>9 DEF q

-----------------------------------------------------------------------------
(* Words between quotes, with commas between them: quotes stand at the odd   *)
(* places.                                                                 *)
WordsIn(y, ws, n) ==
    /\ y \in Seq(Symbols) /\ Len(y) = IF n = 0 THEN 0 ELSE 4 * n - 1
    /\ \A m \in 1 .. 2 * n : y[2 * m - 1] = Quote
    /\ \A m \in 1 .. 2 * n - 1 : y[2 * m] # Quote
    /\ \A i \in 1..n : y[4 * i - 2] = ws[i]

(* Two texts put together: the places of each.                              *)
Joins(a, b) ==
    /\ a \o b \in Seq(Symbols) /\ Len(a \o b) = Len(a) + Len(b)
    /\ \A i \in 1..Len(a) : (a \o b)[i] = a[i]
    /\ \A i \in 1..Len(b) : (a \o b)[Len(a) + i] = b[i]

(* So all texts are put together.                                           *)
LEMMA JoinsAre == \A a, b \in Seq(Symbols) : Joins(a, b)
  BY DEF Joins

(* One word more, with its comma.                                           *)
LEMMA WordAdded ==
    ASSUME NEW y, NEW ws, NEW n \in Nat, WordsIn(y, ws, n), NEW w \in Symbols, w # Quote,
           ws[n + 1] = w, NEW z,
           z = (IF n = 0 THEN <<>> ELSE <<Comma>>) \o <<Quote, w, Quote>>
    PROVE  WordsIn(y \o z, ws, n + 1)
  <1> DEFINE c == y \o z
             l == Len(y)
  <1>1. /\ y \in Seq(Symbols) /\ l = (IF n = 0 THEN 0 ELSE 4 * n - 1)
        /\ \A m \in 1 .. 2 * n : y[2 * m - 1] = Quote
        /\ \A m \in 1 .. 2 * n - 1 : y[2 * m] # Quote
        /\ \A i \in 1..n : y[4 * i - 2] = ws[i]
    BY DEF WordsIn
  <1>2. Quote \in Symbols /\ Comma \in Symbols /\ Comma # Quote
    BY MarksAre
  <1>3. CASE n = 0
    <2>1. z = <<Quote, w, Quote>>
      BY <1>2, <1>3
    <2>2. z \in Seq(Symbols) /\ Len(z) = 3 /\ z[1] = Quote /\ z[2] = w /\ z[3] = Quote
      BY <1>2, <2>1
    <2> HIDE DEF c
    <2>3. c = z
      <3>1. y = <<>>
        BY <1>1, <1>3
      <3> QED BY <2>2, <3>1 DEF c
    <2>4. /\ \A m \in 1 .. 2 * (n + 1) : m = 1 \/ m = 2
          /\ \A m \in 1 .. 2 * (n + 1) - 1 : m = 1
          /\ \A i \in 1 .. n + 1 : i = 1
      BY <1>3
    <2>5. /\ \A m \in 1 .. 2 * (n + 1) : c[2 * m - 1] = Quote
          /\ \A m \in 1 .. 2 * (n + 1) - 1 : c[2 * m] # Quote
          /\ \A i \in 1 .. n + 1 : c[4 * i - 2] = ws[i]
      <3>1. 2 * 1 - 1 = 1 /\ 2 * 2 - 1 = 3 /\ 2 * 1 = 2 /\ 4 * 1 - 2 = 2 /\ n + 1 = 1
        BY <1>3
      <3> QED BY <2>2, <2>3, <2>4, <3>1
    <2>6. Len(c) = 4 * (n + 1) - 1 /\ n + 1 # 0
      BY <1>3, <2>2, <2>3
    <2>7. WordsIn(c, ws, n + 1)
      BY <2>2, <2>3, <2>5, <2>6 DEF WordsIn
    <2> QED BY <2>7 DEF c
  <1>4. CASE n # 0
    <2>1. z = <<Comma>> \o <<Quote, w, Quote>>
      BY <1>4
    <2>2. /\ z \in Seq(Symbols) /\ Len(z) = 4 /\ z[1] = Comma /\ z[2] = Quote /\ z[3] = w
          /\ z[4] = Quote
      <3> DEFINE a == <<Comma>>
                 b == <<Quote, w, Quote>>
      <3>1. /\ a \in Seq(Symbols) /\ Len(a) = 1 /\ a[1] = Comma
            /\ b \in Seq(Symbols) /\ Len(b) = 3 /\ b[1] = Quote /\ b[2] = w /\ b[3] = Quote
        BY <1>2
      <3>2. z = a \o b
        BY <2>1
      <3> HIDE DEF a, b
      <3>3. Joins(a, b)
        BY <3>1, JoinsAre
      <3>4. /\ z \in Seq(Symbols) /\ Len(z) = 1 + 3 /\ z[1] = a[1]
            /\ z[1 + 1] = b[1] /\ z[1 + 2] = b[2] /\ z[1 + 3] = b[3]
        BY <3>1, <3>2, <3>3 DEF Joins
      <3>5. 1 + 1 = 2 /\ 1 + 2 = 3 /\ 1 + 3 = 4
        OBVIOUS
      <3> QED BY <3>1, <3>4, <3>5
    <2>3. l = 4 * n - 1 /\ l \in Nat
      BY <1>1, <1>4
    <2>4. /\ c \in Seq(Symbols) /\ Len(c) = l + 4
          /\ \A j \in 1..l : c[j] = y[j]
          /\ \A j \in 1..4 : c[l + j] = z[j]
      <3>1. Joins(y, z)
        BY <1>1, <2>2, JoinsAre
      <3> QED BY <2>2, <3>1, Zenon DEF Joins
    <2> HIDE DEF c, l
    <2>5. c[4 * n] = Comma /\ c[4 * n + 1] = Quote /\ c[4 * n + 2] = w /\ c[4 * n + 3] = Quote
      <3>1. /\ l + 1 = 4 * n /\ l + 2 = 4 * n + 1 /\ l + 3 = 4 * n + 2 /\ l + 4 = 4 * n + 3
            /\ 1 \in 1..4 /\ 2 \in 1..4 /\ 3 \in 1..4 /\ 4 \in 1..4
        BY <2>3
      <3>2. c[l + 1] = z[1] /\ c[l + 2] = z[2] /\ c[l + 3] = z[3] /\ c[l + 4] = z[4]
        BY <2>4, <3>1
      <3> QED BY <2>2, <3>1, <3>2
    <2>6. \A m \in 1 .. 2 * (n + 1) : c[2 * m - 1] = Quote
      <3> SUFFICES ASSUME NEW m \in 1 .. 2 * (n + 1) PROVE c[2 * m - 1] = Quote
        OBVIOUS
      <3>1. CASE m <= 2 * n
        <4>1. 2 * m - 1 \in 1..l /\ m \in 1 .. 2 * n
          BY <1>4, <2>3, <3>1
        <4> QED BY <1>1, <2>4, <4>1
      <3>2. CASE ~(m <= 2 * n)
        <4>1. 2 * m - 1 = 4 * n + 1 \/ 2 * m - 1 = 4 * n + 3
          BY <3>2
        <4> QED BY <2>5, <4>1
      <3> QED BY <3>1, <3>2
    <2>7. \A m \in 1 .. 2 * (n + 1) - 1 : c[2 * m] # Quote
      <3> SUFFICES ASSUME NEW m \in 1 .. 2 * (n + 1) - 1 PROVE c[2 * m] # Quote
        OBVIOUS
      <3>1. CASE m <= 2 * n - 1
        <4>1. 2 * m \in 1..l /\ m \in 1 .. 2 * n - 1
          BY <1>4, <2>3, <3>1
        <4> QED BY <1>1, <2>4, <4>1
      <3>2. CASE ~(m <= 2 * n - 1)
        <4>1. 2 * m = 4 * n \/ 2 * m = 4 * n + 2
          BY <3>2
        <4> QED BY <1>2, <2>5, <4>1
      <3> QED BY <3>1, <3>2
    <2>8. \A i \in 1 .. n + 1 : c[4 * i - 2] = ws[i]
      <3> SUFFICES ASSUME NEW i \in 1 .. n + 1 PROVE c[4 * i - 2] = ws[i]
        OBVIOUS
      <3>1. CASE i <= n
        <4>1. 4 * i - 2 \in 1..l /\ i \in 1..n
          BY <1>4, <2>3, <3>1
        <4> QED BY <1>1, <2>4, <4>1
      <3>2. CASE ~(i <= n)
        <4>1. 4 * i - 2 = 4 * n + 2 /\ i = n + 1
          BY <3>2
        <4> QED BY <2>5, <4>1
      <3> QED BY <3>1, <3>2
    <2>9. Len(c) = 4 * (n + 1) - 1 /\ n + 1 # 0
      BY <2>3, <2>4
    <2>10. WordsIn(c, ws, n + 1)
      BY <2>4, <2>6, <2>7, <2>8, <2>9 DEF WordsIn
    <2> QED BY <2>10 DEF c
  <1> QED BY <1>3, <1>4

(* A list of words is written so.                                           *)
LEMMA WordsListed ==
    ASSUME NEW ws \in Seq(Symbols), \A i \in 1..Len(ws) : ws[i] # Quote, NEW parts,
           parts = [i \in 1..Len(ws) |-> <<Quote, ws[i], Quote>>]
    PROVE  WordsIn(FlattenSeq(Commaed(parts)), ws, Len(ws))
  <1> DEFINE n == Len(ws)
             s == Commaed(parts)
             T == {m \in Nat : m <= n => WordsIn(FlattenSeq(SubSeq(s, 1, m)), ws, m)}
             word(i) == <<Quote, ws[i], Quote>>
  <1>0. n \in Nat /\ \A i \in 1..n : ws[i] \in Symbols
    OBVIOUS
  <1>1. \A i \in 1..n : word(i) \in Seq(Symbols)
    BY <1>0, MarksAre
  <1>2. parts \in Seq(Seq(Symbols)) /\ Len(parts) = n /\ \A i \in 1..n : parts[i] = word(i)
    <2> DEFINE all == [i \in 1..n |-> word(i)]
    <2>1. parts = all
      OBVIOUS
    <2> HIDE DEF n, word
    <2>2. all \in Seq(Seq(Symbols)) /\ Len(all) = n /\ \A i \in 1..n : all[i] = word(i)
      BY <1>0, <1>1
    <2> HIDE DEF all
    <2> QED BY <2>1, <2>2, Zenon
  <1>3. /\ s \in Seq(Seq(Symbols)) /\ Len(s) = n
        /\ \A i \in 1..n : /\ i = 1 => s[i] = parts[i]
                           /\ i # 1 => s[i] = <<Comma>> \o parts[i]
    BY <1>2, CommaedAre
  <1> HIDE DEF s, word
  <1>4. 0 \in T /\ T \in SUBSET Nat
    <2>1. SubSeq(s, 1, 0) = <<>>
      BY <1>3
    <2>2. FlattenSeq(<<>>) = <<>>
      BY DEF FlattenSeq
    <2>3. <<>> \in Seq(Symbols) /\ Len(<<>>) = 0
      OBVIOUS
    <2>4. WordsIn(<<>>, ws, 0)
      BY <2>3 DEF WordsIn
    <2> QED BY <2>1, <2>2, <2>4
  <1>5. ASSUME NEW m \in T PROVE m + 1 \in T
    <2> SUFFICES ASSUME m + 1 <= n PROVE WordsIn(FlattenSeq(SubSeq(s, 1, m + 1)), ws, m + 1)
      BY <1>4
    <2> DEFINE p == SubSeq(s, 1, m)
               y == FlattenSeq(p)
               z == s[m + 1]
    <2>1. m \in Nat /\ m <= n /\ m + 1 \in 1..n
      BY <1>0, <1>4
    <2>2. p \in Seq(Seq(Symbols)) /\ SubSeq(s, 1, m + 1) = Append(p, z) /\ z \in Seq(Symbols)
      BY <1>3, <2>1
    <2>3. WordsIn(y, ws, m)
      BY <2>1
    <2> HIDE DEF p, T
    <2>4. FlattenSeq(Append(p, z)) = y \o z
      BY <2>2, FlattenAppend
    <2>5. z = (IF m = 0 THEN <<>> ELSE <<Comma>>) \o <<Quote, ws[m + 1], Quote>>
      <3>1. CASE m = 0
        <4>1. m + 1 = 1
          BY <3>1
        <4>2. z = word(m + 1) /\ word(m + 1) \in Seq(Symbols)
          BY <1>1, <1>2, <1>3, <2>1, <4>1
        <4>3. <<>> \o word(m + 1) = word(m + 1)
          BY <4>2
        <4> HIDE DEF z
        <4> QED BY <3>1, <4>2, <4>3, Zenon DEF word
      <3>2. CASE m # 0
        <4>1. m + 1 # 1
          BY <2>1, <3>2
        <4>2. z = <<Comma>> \o word(m + 1)
          BY <1>2, <1>3, <2>1, <4>1
        <4> HIDE DEF z
        <4> QED BY <3>2, <4>2, Zenon DEF word
      <3> QED BY <3>1, <3>2
    <2>6. ws[m + 1] \in Symbols /\ ws[m + 1] # Quote
      BY <1>0, <2>1
    <2> HIDE DEF y, z
    <2>7. WordsIn(y \o z, ws, m + 1)
      <3> DEFINE w == ws[m + 1]
      <3>1. w \in Symbols /\ w # Quote /\ z = (IF m = 0 THEN <<>> ELSE <<Comma>>) \o <<Quote, w, Quote>>
        BY <2>5, <2>6
      <3>2. ws[m + 1] = w
        OBVIOUS
      <3> HIDE DEF w
      <3> QED BY <2>1, <2>3, <3>1, <3>2, WordAdded
    <2> QED BY <2>2, <2>4, <2>7 DEF y
  <1>6. n \in T
    <2> HIDE DEF T
    <2> QED BY <1>0, <1>4, <1>5, SetInduction
  <1>7. SubSeq(s, 1, n) = s
    BY <1>3
  <1>8. WordsIn(FlattenSeq(SubSeq(s, 1, n)), ws, n)
    <2> HIDE DEF n
    <2> QED BY <1>0, <1>6
  <1> QED BY <1>7, <1>8 DEF s

(* And read so.                                                             *)
LEMMA QuotationsAre ==
    ASSUME NEW y, NEW ws, NEW n \in Nat, WordsIn(y, ws, n)
    PROVE  Quotations(y) = [i \in 1..n |-> <<ws[i]>>]
  <1> DEFINE l == Len(y)
             D == {k \in DOMAIN y : y[k] = Quote}
             quotes == Kept([k \in DOMAIN y |-> k], D)
  <1>1. /\ y \in Seq(Symbols) /\ l = (IF n = 0 THEN 0 ELSE 4 * n - 1) /\ l \in Nat
        /\ \A m \in 1 .. 2 * n : y[2 * m - 1] = Quote
        /\ \A m \in 1 .. 2 * n - 1 : y[2 * m] # Quote
        /\ \A i \in 1..n : y[4 * i - 2] = ws[i]
        /\ DOMAIN y = 1..l
    BY DEF WordsIn
  <1> HIDE DEF l
  <1>2. D = Odds(2 * n)
    <2>1. ASSUME NEW k \in 1..l, y[k] = Quote PROVE \E m \in 1 .. 2 * n : k = 2 * m - 1
      <3>1. \E m \in Nat : k = 2 * m \/ k = 2 * m - 1
        <4>1. \A j \in Nat : j = 2 * (j \div 2) \/ j = 2 * (j \div 2 + 1) - 1
          OBVIOUS
        <4>2. k \div 2 \in Nat /\ k \div 2 + 1 \in Nat /\ k \in Nat
          BY <1>1
        <4> QED BY <4>1, <4>2
      <3>2. PICK m \in Nat : k = 2 * m \/ k = 2 * m - 1
        BY <3>1
      <3>3. CASE k = 2 * m
        <4>1. m \in 1 .. 2 * n - 1
          BY <1>1, <3>2, <3>3
        <4> QED BY <1>1, <2>1, <3>3, <4>1
      <3>4. CASE k = 2 * m - 1
        <4>1. m \in 1 .. 2 * n
          BY <1>1, <3>2, <3>4
        <4> QED BY <3>4, <4>1
      <3> QED BY <3>2, <3>3, <3>4
    <2>2. ASSUME NEW m \in 1 .. 2 * n PROVE 2 * m - 1 \in 1..l /\ y[2 * m - 1] = Quote
      BY <1>1
    <2> QED BY <1>1, <2>1, <2>2 DEF Odds
  <1>3. quotes = [m \in 1 .. 2 * n |-> 2 * m - 1]
    <2>1. 2 * n \in Nat /\ 2 * (2 * n) - 1 <= l
      BY <1>1
    <2> HIDE DEF D
    <2>2. Kept([k \in 1..l |-> k], D) = [m \in 1 .. 2 * n |-> 2 * m - 1]
      <3> DEFINE N == 2 * n
      <3>1. N \in Nat /\ 2 * N - 1 <= l /\ D = Odds(N)
        BY <1>2, <2>1
      <3> HIDE DEF N
      <3>2. Kept([k \in 1..l |-> k], D) = [m \in 1..N |-> 2 * m - 1]
        BY <1>1, <3>1, OddsKept
      <3> QED BY <3>2 DEF N
    <2> QED BY <1>1, <2>2
  <1>4. Quotations(y)
        = [i \in 1 .. Len(quotes) \div 2 |-> SubSeq(y, quotes[2 * i - 1] + 1, quotes[2 * i] - 1)]
    BY Zenon DEF Quotations, Quote
  <1> HIDE DEF quotes, D
  <1>5. Len(quotes) \div 2 = n
    <2>1. Len(quotes) = 2 * n
      BY <1>3
    <2>2. \A j \in Nat : (2 * j) \div 2 = j
      OBVIOUS
    <2> QED BY <2>1, <2>2
  <1>6. ASSUME NEW i \in 1..n
        PROVE  SubSeq(y, quotes[2 * i - 1] + 1, quotes[2 * i] - 1) = <<ws[i]>>
    <2>1. 2 * i - 1 \in 1 .. 2 * n /\ 2 * i \in 1 .. 2 * n
      OBVIOUS
    <2>2. quotes[2 * i - 1] = 2 * (2 * i - 1) - 1 /\ quotes[2 * i] = 2 * (2 * i) - 1
      BY <1>3, <2>1
    <2>3. quotes[2 * i - 1] + 1 = 4 * i - 2 /\ quotes[2 * i] - 1 = 4 * i - 2
      BY <2>2
    <2>4. 4 * i - 2 \in 1..l
      BY <1>1
    <2>5. \A h \in 1..Len(y) : SubSeq(y, h, h) = <<y[h]>>
      <3> SUFFICES ASSUME NEW h \in 1..Len(y) PROVE SubSeq(y, h, h) = <<y[h]>>
        OBVIOUS
      <3> DEFINE t == SubSeq(y, h, h)
      <3>1. t \in Seq(Symbols) /\ Len(t) = 1 /\ t[1] = y[h]
        BY <1>1
      <3> HIDE DEF t
      <3>2. t = <<y[h]>>
        BY <3>1
      <3> QED BY <3>2 DEF t
    <2> QED BY <1>1, <2>3, <2>4, <2>5 DEF l
  <1> QED BY <1>4, <1>5, <1>6

(* A list of words is read as it was written, each word a text of its own.   *)
AreQuoted(parts, ws) == parts = [i \in 1..Len(ws) |-> <<Quote, ws[i], Quote>>]

(* The texts between the quotes are the words.                              *)
LEMMA WordsRead ==
    ASSUME NEW T, NEW k \in Symbols, k \notin Marks, NEW ws \in Seq(Symbols),
           \A i \in 1..Len(ws) : ws[i] # Quote /\ ws[i] # ListClose, NEW parts,
           AreQuoted(parts, ws), Amid(T, k, JList(parts))
    PROVE  readList(T, k) = {[i \in 1..Len(ws) |-> <<ws[i]>>]}
  <1> DEFINE n == Len(ws)
             x == FlattenSeq(Commaed(parts))
             v == JList(parts)
             read == [i \in 1..n |-> <<ws[i]>>]
             word(i) == <<Quote, ws[i], Quote>>
  <1>1. /\ n \in Nat /\ Quote \in Symbols /\ Quote # ListClose /\ ListClose # Comma
        /\ ListOpen \in Symbols /\ ListClose \in Symbols
        /\ \A i \in 1..n : ws[i] \in Symbols /\ ws[i] # ListClose
    BY MarksAre
  <1>2. \A i \in 1..n : word(i) \in Seq(Symbols) /\ Free(word(i), ListClose)
    <2> SUFFICES ASSUME NEW i \in 1..n PROVE word(i) \in Seq(Symbols) /\ Free(word(i), ListClose)
      OBVIOUS
    <2>1. /\ word(i) \in Seq(Symbols) /\ Len(word(i)) = 3 /\ word(i)[1] = Quote
          /\ word(i)[2] = ws[i] /\ word(i)[3] = Quote
      BY <1>1
    <2>2. \A j \in 1..3 : j = 1 \/ j = 2 \/ j = 3
      OBVIOUS
    <2> HIDE DEF word, n
    <2> QED BY <1>1, <2>1, <2>2 DEF Free
  <1>3. parts \in Seq(Seq(Symbols)) /\ Len(parts) = n /\ \A i \in 1..n : parts[i] = word(i)
    <2> DEFINE all == [i \in 1..n |-> word(i)]
    <2>1. parts = all
      BY Zenon DEF AreQuoted
    <2> HIDE DEF n, word
    <2>2. all \in Seq(Seq(Symbols)) /\ Len(all) = n /\ \A i \in 1..n : all[i] = word(i)
      BY <1>1, <1>2
    <2> HIDE DEF all
    <2> QED BY <2>1, <2>2, Zenon
  <1> HIDE DEF word
  <1>4. x \in Seq(Symbols) /\ Free(x, ListClose)
    BY <1>1, <1>2, <1>3, FreeParts
  <1>5. v = (<<ListOpen>> \o x) \o <<ListClose>>
    BY JoinedIs
  <1>6. WordsIn(x, ws, n)
    <2>1. parts = [i \in 1..Len(ws) |-> <<Quote, ws[i], Quote>>]
      BY DEF AreQuoted
    <2> QED BY <2>1, WordsListed
  <1> HIDE DEF x, n
  <1>7. Quotations(x) = read
    BY <1>1, <1>6, QuotationsAre
  <1>8. Closed(v, ListOpen, ListClose) /\ Inner(v) = x
    <2>1. \A i \in 1..Len(x) : x[i] # ListClose
      BY <1>4 DEF Free
    <2>2. /\ Closed(<<ListOpen>> \o x \o <<ListClose>>, ListOpen, ListClose)
          /\ Inner(<<ListOpen>> \o x \o <<ListClose>>) = x
      BY <1>1, <1>4, <2>1, BetweenIs
    <2> QED BY <1>5, <2>2
  <1>9. FirstEnclosed(T, k, ListOpen, ListClose) = {v}
    <2>1. Amid(T, k, v)
      OBVIOUS
    <2> HIDE DEF v
    <2> QED BY <1>8, <2>1, EnclosedRead
  <1>10. readList(T, k) = {Quotations(Inner(y)) : y \in FirstEnclosed(T, k, ListOpen, ListClose)}
    BY Zenon DEF readList, ListOpen, ListClose
  <1> HIDE DEF v, read
  <1>11. readList(T, k) = {read}
    BY <1>7, <1>8, <1>9, <1>10
  <1> QED BY <1>11 DEF read, n

(* So is a list of names ...                                                *)
LEMMA NamesRead ==
    ASSUME NEW T, NEW k \in Symbols, k \notin Marks, NEW ws \in Seq(Symbols),
           \A i \in 1..Len(ws) : ws[i] # Quote /\ ws[i] # ListClose,
           Amid(T, k, JList([i \in DOMAIN ws |-> JWord(ws[i])]))
    PROVE  readList(T, k) = {[i \in 1..Len(ws) |-> <<ws[i]>>]}
  <1> DEFINE parts == [i \in 1..Len(ws) |-> <<Quote, ws[i], Quote>>]
  <1>1. [i \in DOMAIN ws |-> JWord(ws[i])] = parts
    <2>1. DOMAIN ws = 1..Len(ws)
      OBVIOUS
    <2>2. \A i \in 1..Len(ws) : JWord(ws[i]) = <<Quote, ws[i], Quote>>
      BY Zenon DEF JWord, Quote
    <2> QED BY <2>1, <2>2
  <1>2. Amid(T, k, JList(parts))
    BY <1>1
  <1> HIDE DEF parts
  <1>3. AreQuoted(parts, ws)
    BY DEF parts, AreQuoted
  <1> QED BY <1>2, <1>3, WordsRead

(* ... and one of texts that are a word each.                               *)
LEMMA SinglesRead ==
    ASSUME NEW T, NEW k \in Symbols, k \notin Marks, NEW list \in Seq(AnyText),
           \A i \in 1..Len(list) : Len(list[i]) = 1 /\ list[i][1] \notin Marks,
           Amid(T, k, JList([i \in DOMAIN list |-> JText(list[i])]))
    PROVE  readList(T, k) = {list}
  <1> DEFINE n == Len(list)
             ws == [i \in 1..n |-> list[i][1]]
             parts == [i \in 1..n |-> <<Quote, ws[i], Quote>>]
  <1>1. /\ n \in Nat /\ DOMAIN list = 1..n
        /\ \A i \in 1..n : list[i] \in AnyText /\ Len(list[i]) = 1 /\ list[i][1] \notin Marks
    OBVIOUS
  <1>2. \A i \in 1..n : list[i] = <<ws[i]>> /\ ws[i] \in Symbols
    <2> SUFFICES ASSUME NEW i \in 1..n PROVE list[i] = <<ws[i]>> /\ ws[i] \in Symbols
      OBVIOUS
    <2> DEFINE t == list[i]
    <2>1. t \in Seq(Symbols) /\ Len(t) = 1 /\ ws[i] = t[1]
      BY <1>1 DEF AnyText
    <2> HIDE DEF t, ws
    <2>2. t = <<t[1]>> /\ t[1] \in Symbols
      BY <2>1
    <2> QED BY <2>1, <2>2 DEF t
  <1>3. ws \in Seq(Symbols) /\ Len(ws) = n
    <2> HIDE DEF n
    <2>1. ws \in [1..n -> Symbols]
      BY <1>2
    <2> QED BY <1>1, <2>1
  <1>4. \A i \in 1..n : ws[i] # Quote /\ ws[i] # ListClose /\ ws[i] \notin Marks
    <2>1. \A i \in 1..n : ws[i] \notin Marks
      BY <1>1
    <2> QED BY <2>1, MarksAre
  <1> HIDE DEF ws, n
  <1>5. ASSUME NEW i \in 1..n PROVE JText(list[i]) = <<Quote, ws[i], Quote>>
    <2> DEFINE t == list[i]
               w == ws[i]
    <2>1. t \in AnyText /\ t = <<w>> /\ w \notin Marks /\ w \in Symbols
      BY <1>1, <1>2, <1>4
    <2> HIDE DEF t, w
    <2>2. PlainText(t)
      <3>1. ToSet(t) = {w}
        BY <2>1 DEF ToSet
      <3>2. w \notin {"\"", "\\", "\n"}
        BY <2>1, Zenon DEF Marks
      <3> QED BY <3>1, <3>2, Zenon DEF PlainText
    <2>3. escapeJsonString(t) = t
      BY <2>1, <2>2, EscapedPlain
    <2>4. JText(t) = (<<Quote>> \o t) \o <<Quote>>
      BY <2>3, Zenon DEF JText, Quote
    <2>5. \A a, b, c \in Symbols : (<<a>> \o <<b>>) \o <<c>> = <<a, b, c>>
      <3> SUFFICES ASSUME NEW a \in Symbols, NEW b \in Symbols, NEW c \in Symbols
                   PROVE  (<<a>> \o <<b>>) \o <<c>> = <<a, b, c>>
        OBVIOUS
      <3> DEFINE l == <<a>>
                 m == <<b>>
                 r == <<c>>
                 u == l \o m
                 z == u \o r
      <3>1. /\ l \in Seq(Symbols) /\ Len(l) = 1 /\ l[1] = a
            /\ m \in Seq(Symbols) /\ Len(m) = 1 /\ m[1] = b
            /\ r \in Seq(Symbols) /\ Len(r) = 1 /\ r[1] = c
        OBVIOUS
      <3> HIDE DEF l, m, r
      <3>2. u \in Seq(Symbols) /\ Len(u) = 1 + 1 /\ u[1] = a /\ u[1 + 1] = b
        <4>1. Joins(l, m) /\ 1 \in 1..1
          BY <3>1, JoinsAre
        <4> QED BY <3>1, <4>1 DEF Joins
      <3> HIDE DEF u
      <3>3. Len(u) = 2 /\ u[1] = a /\ u[2] = b
        BY <3>2
      <3>4. z \in Seq(Symbols) /\ Len(z) = 2 + 1 /\ z[1] = a /\ z[2] = b /\ z[2 + 1] = c
        <4>1. Joins(u, r) /\ 1 \in 1..1 /\ 1 \in 1..2 /\ 2 \in 1..2
          BY <3>1, <3>2, JoinsAre
        <4> QED BY <3>1, <3>3, <4>1 DEF Joins
      <3> HIDE DEF z
      <3>5. Len(z) = 3 /\ z[1] = a /\ z[2] = b /\ z[3] = c /\ z \in Seq(Symbols)
        BY <3>4
      <3>6. z = <<a, b, c>>
        BY <3>5
      <3> QED BY <3>6 DEF z, u, l, m, r
    <2>6. JText(t) = <<Quote, w, Quote>>
      <3>1. Quote \in Symbols
        BY MarksAre
      <3>2. (<<Quote>> \o <<w>>) \o <<Quote>> = <<Quote, w, Quote>>
        BY <2>1, <2>5, <3>1
      <3> QED BY <2>1, <2>4, <3>2
    <2> QED BY <2>6 DEF t, w
  <1>6. [i \in DOMAIN list |-> JText(list[i])] = parts
    BY <1>1, <1>5
  <1>7. Amid(T, k, JList(parts))
    BY <1>6
  <1> HIDE DEF parts
  <1>8. AreQuoted(parts, ws)
    BY <1>3 DEF parts, AreQuoted
  <1>9. readList(T, k) = {[i \in 1..Len(ws) |-> <<ws[i]>>]}
    BY <1>3, <1>4, <1>7, <1>8, WordsRead
  <1>10. [i \in 1..n |-> <<ws[i]>>] = list
    BY <1>1, <1>2
  <1> QED BY <1>3, <1>9, <1>10

(* A list of texts is silent, and so is one of names.                        *)
LEMMA ListsSilent ==
    ASSUME NEW k \in FieldNames
    PROVE  /\ \A list \in Seq(AnyText) :
                 LET v == JList([i \in DOMAIN list |-> JText(list[i])]) IN
                 v \in Seq(Symbols) /\ Silent(v, k)
           /\ \A list \in Seq(MessageTypeNames) :
                 LET v == JList([i \in DOMAIN list |-> JWord(list[i])]) IN
                 v \in Seq(Symbols) /\ Silent(v, k)
  <1>0. k \in Symbols /\ k \notin Marks
    BY NamesAre
  <1>1. ASSUME NEW list \in Seq(AnyText)
        PROVE  LET v == JList([i \in DOMAIN list |-> JText(list[i])]) IN
               v \in Seq(Symbols) /\ Silent(v, k)
    <2> DEFINE parts == [i \in DOMAIN list |-> JText(list[i])]
    <2>1. DOMAIN list = 1..Len(list) /\ Len(list) \in Nat /\ \A i \in 1..Len(list) : list[i] \in AnyText
      OBVIOUS
    <2>2. \A i \in 1..Len(list) : JText(list[i]) \in Seq(Symbols) /\ Silent(JText(list[i]), k)
      BY <2>1, ValuesSilent
    <2>3. /\ parts \in Seq(Seq(Symbols)) /\ Len(parts) = Len(list)
          /\ \A i \in 1..Len(list) : parts[i] = JText(list[i])
      BY <2>1, <2>2
    <2> HIDE DEF parts
    <2>4. JList(parts) \in Seq(Symbols) /\ Silent(JList(parts), k)
      BY <1>0, <2>2, <2>3, PartsSilent
    <2> QED BY <2>4 DEF parts
  <1>2. ASSUME NEW list \in Seq(MessageTypeNames)
        PROVE  LET v == JList([i \in DOMAIN list |-> JWord(list[i])]) IN
               v \in Seq(Symbols) /\ Silent(v, k)
    <2> DEFINE parts == [i \in DOMAIN list |-> JWord(list[i])]
    <2>1. DOMAIN list = 1..Len(list) /\ Len(list) \in Nat
          /\ \A i \in 1..Len(list) : list[i] \in MessageTypeNames
      OBVIOUS
    <2>2. \A i \in 1..Len(list) : JWord(list[i]) \in Seq(Symbols) /\ Silent(JWord(list[i]), k)
      BY <2>1, ValuesSilent
    <2>3. /\ parts \in Seq(Seq(Symbols)) /\ Len(parts) = Len(list)
          /\ \A i \in 1..Len(list) : parts[i] = JWord(list[i])
      BY <2>1, <2>2
    <2> HIDE DEF parts
    <2>4. JList(parts) \in Seq(Symbols) /\ Silent(JList(parts), k)
      BY <1>0, <2>2, <2>3, PartsSilent
    <2> QED BY <2>4 DEF parts
  <1> QED BY <1>1, <1>2

-----------------------------------------------------------------------------
(* One field of a record as its reader gives it: a plain text, a name, a time,*)
(* a number.                                                               *)
LEMMA TextField ==
    ASSUME NEW T, NEW k \in FieldNames, NEW x \in AnyText, Amid(T, k, JText(x)), PlainText(x),
           NEW d
    PROVE  Given(readText(T, k), d) = x
  <1>1. k \in Symbols /\ k \notin Marks
    BY NamesAre
  <1>2. readText(T, k) = {x}
    BY <1>1, TextRead
  <1> QED BY <1>2, GivenIs

(* The three kinds of names, as the readers write it.                       *)
StatusOf(T, k) == Given({toJobStatus(t) : t \in readText(T, k)}, "uninitialised")
JobTypeOf(T, k) == Given({toJobType(t) : t \in readText(T, k)}, "uninitialised")
MessageTypeOf(T, k) == Given({stringToMessageType(t) : t \in readText(T, k)}, "uninitialised")

(* The name of a status, a type of jobs or of messages is read back.        *)
LEMMA NameField ==
    ASSUME NEW T, NEW k \in FieldNames, NEW w,
           w \in JobStatusNames \union JobTypeNames \union MessageTypeNames,
           Amid(T, k, JWord(w))
    PROVE  /\ w \in JobStatusNames => StatusOf(T, k) = w
           /\ w \in JobTypeNames => JobTypeOf(T, k) = w
           /\ w \in MessageTypeNames => MessageTypeOf(T, k) = w
  <1>1. k \in Symbols /\ k \notin Marks
    BY NamesAre
  <1>2. w \in Symbols /\ w # Quote
    BY WordsAre
  <1>3. readText(T, k) = {<<w>>}
    BY <1>1, <1>2, QuotedWordRead
  <1>4. Len(<<w>>) = 1 /\ <<w>>[1] = w
    OBVIOUS
  <1>5. \A names, other : w \in names => stringToNamed(<<w>>, names, other) = w
    BY <1>4 DEF stringToNamed
  <1>6. /\ w \in JobStatusNames => toJobStatus(<<w>>) = w
        /\ w \in JobTypeNames => toJobType(<<w>>) = w
        /\ w \in MessageTypeNames => stringToMessageType(<<w>>) = w
    BY <1>5, Zenon DEF toJobStatus, toJobType, stringToMessageType
  <1>7. /\ {toJobStatus(t) : t \in readText(T, k)} = {toJobStatus(<<w>>)}
        /\ {toJobType(t) : t \in readText(T, k)} = {toJobType(<<w>>)}
        /\ {stringToMessageType(t) : t \in readText(T, k)} = {stringToMessageType(<<w>>)}
    BY <1>3
  <1>8. /\ StatusOf(T, k) = Given({toJobStatus(<<w>>)}, "uninitialised")
        /\ JobTypeOf(T, k) = Given({toJobType(<<w>>)}, "uninitialised")
        /\ MessageTypeOf(T, k) = Given({stringToMessageType(<<w>>)}, "uninitialised")
    BY <1>7, Zenon DEF StatusOf, JobTypeOf, MessageTypeOf
  <1> QED BY <1>6, <1>8, GivenIs

(* A time is read back to the millisecond.                                  *)
LEMMA TimeField ==
    ASSUME NEW T, NEW k \in FieldNames, NEW time, IsTime(time), NEW d,
           Amid(T, k, formatTimestamp(time))
    PROVE  Given(readTime(T, k), d) = [ms |-> time.ms, below |-> 0]
  <1> DEFINE w == time.ms
  <1>1. k \in Symbols /\ k \notin Marks
    BY NamesAre
  <1>2. w \in instants /\ w \in Symbols /\ w # Quote
    BY WordsAre DEF IsTime
  <1>3. Amid(T, k, JWord(w))
    BY Zenon DEF formatTimestamp
  <1> HIDE DEF w
  <1>4. readText(T, k) = {<<w>>}
    BY <1>1, <1>2, <1>3, QuotedWordRead
  <1>5. Len(<<w>>) = 1 /\ <<w>>[1] = w
    OBVIOUS
  <1>6. parseTimestamp(<<w>>) = [ms |-> w, below |-> 0]
    BY <1>2, <1>5, Zenon DEF parseTimestamp
  <1>7. readTime(T, k) = {parseTimestamp(<<w>>)}
    BY <1>4 DEF readTime
  <1> QED BY <1>6, <1>7, GivenIs DEF w

(* A number is read back.                                                   *)
LEMMA NumberField ==
    ASSUME NEW T, NEW k \in FieldNames, NEW w \in numerals, Amid(T, k, <<w>>), NEW d
    PROVE  Given(readWord(T, k, numerals), d) = w
  <1>1. k \in Symbols /\ k \notin Marks
    BY NamesAre
  <1>2. w \in Symbols
    BY WordsAre
  <1>3. readWord(T, k, numerals) = {w}
    BY <1>1, <1>2, WordRead
  <1> QED BY <1>3, GivenIs

(* Fields one after another, each of whose values names none that follows.   *)
LEMMA FieldsSay ==
    ASSUME NEW n \in Nat, NEW ks, NEW vs, NEW parts,
           DOMAIN parts = 1..n, parts = [i \in 1..n |-> parts[i]],
           \A i \in 1..n : /\ ks[i] \in FieldNames /\ vs[i] \in Seq(Symbols)
                           /\ parts[i] = JField(ks[i], vs[i]),
           \A i, j \in 1..n : i < j => ks[i] # ks[j] /\ Silent(vs[i], ks[j])
    PROVE  Says(n, ks, vs, parts)
  <1>1. \A i \in 1..n : parts[i] \in Seq(Symbols)
    <2> SUFFICES ASSUME NEW i \in 1..n PROVE parts[i] \in Seq(Symbols)
      OBVIOUS
    <2> DEFINE k == ks[i]
               v == vs[i]
    <2>1. k \in Symbols /\ v \in Seq(Symbols)
      BY NamesAre
    <2>2. parts[i] = <<Quote, k, Quote, Colon>> \o v
      BY Zenon DEF JField, Quote, Colon
    <2>3. Quote \in Symbols /\ Colon \in Symbols
      BY MarksAre
    <2> HIDE DEF k, v
    <2>4. <<Quote, k, Quote, Colon>> \in Seq(Symbols)
      BY <2>1, <2>3
    <2>5. <<Quote, k, Quote, Colon>> \o v \in Seq(Symbols)
      BY <2>1, <2>4
    <2> QED BY <2>2, <2>5
  <1>2. parts \in Seq(Seq(Symbols)) /\ Len(parts) = n
    <2> DEFINE all == [i \in 1..n |-> parts[i]]
    <2>1. all \in Seq(Seq(Symbols)) /\ Len(all) = n
      BY <1>1
    <2>2. parts = all
      OBVIOUS
    <2> HIDE DEF all
    <2> QED BY <2>1, <2>2, Zenon
  <1> QED BY <1>2, Zenon DEF Says

(* The names of fields, and those that are no metrics.                      *)
LEMMA NamesOfFields ==
    /\ {"jobId", "jobType", "status", "previousStatus", "timestamp", "progressPercent",
        "currentStep", "startTime", "createdAt", "completedAt", "metrics", "errorMessage",
        "recentLogs", "level", "component", "message", "context", "type", "data", "targetJobId",
        "targetLevel", "jobIds", "logLevels", "messageTypes", "includeSystemNotifications",
        "executionTime"} \subseteq FieldNames
    /\ \A k \in {"recentLogs", "errorMessage"} : k \in FieldNames \ DOMAIN NoMetrics
  <1>1. DOMAIN NoMetrics = WholeMetrics \union DecimalMetrics
    BY MetricNamesAre
  <1>2. "executionTime" \in FieldNames
    BY <1>1, Zenon DEF FieldNames, WholeMetrics
  <1>3. {"jobId", "jobType", "status", "previousStatus", "timestamp", "progressPercent",
        "currentStep", "startTime", "createdAt", "completedAt", "metrics", "errorMessage",
        "recentLogs", "level", "component", "message", "context", "type", "data", "targetJobId",
        "targetLevel", "jobIds", "logLevels", "messageTypes", "includeSystemNotifications"}
        \subseteq FieldNames
    BY Zenon DEF FieldNames
  <1>4. \A k \in {"recentLogs", "errorMessage"} : k \notin WholeMetrics \union DecimalMetrics
    BY Zenon DEF WholeMetrics, DecimalMetrics
  <1>5. \A k \in {"recentLogs", "errorMessage"} : k \in FieldNames
    BY Zenon DEF FieldNames
  <1> QED BY <1>1, <1>2, <1>3, <1>4, <1>5, Zenon

(* An update of a job.                                                      *)
UpdateNames == <<"jobId", "status", "previousStatus", "timestamp", "progressPercent",
                 "currentStep", "metrics">>
UpdateValues(u) ==
    <<JText(u.jobId), JWord(u.status), JWord(u.previousStatus), formatTimestamp(u.timestamp),
      <<u.progressPercent>>, JText(u.currentStep), metricsToJson(u.metrics)>>
UpdateFields(u) ==
    <<JField("jobId", JText(u.jobId)), JField("status", JWord(u.status)),
      JField("previousStatus", JWord(u.previousStatus)),
      JField("timestamp", formatTimestamp(u.timestamp)),
      JField("progressPercent", <<u.progressPercent>>),
      JField("currentStep", JText(u.currentStep)),
      JField("metrics", metricsToJson(u.metrics))>>

(* It says its fields.                                                      *)
LEMMA UpdateSays ==
    ASSUME NEW u, IsUpdate(u)
    PROVE  /\ Says(7, UpdateNames, UpdateValues(u), UpdateFields(u))
           /\ Lacks(7, UpdateNames, UpdateValues(u), "errorMessage")
  <1> DEFINE ks == UpdateNames
             vs == UpdateValues(u)
             parts == UpdateFields(u)
  <1>1. /\ ks[1] = "jobId" /\ ks[2] = "status" /\ ks[3] = "previousStatus" /\ ks[4] = "timestamp"
        /\ ks[5] = "progressPercent" /\ ks[6] = "currentStep" /\ ks[7] = "metrics"
    BY DEF UpdateNames
  <1>2. /\ vs[1] = JText(u.jobId) /\ vs[2] = JWord(u.status) /\ vs[3] = JWord(u.previousStatus)
        /\ vs[4] = formatTimestamp(u.timestamp) /\ vs[5] = <<u.progressPercent>>
        /\ vs[6] = JText(u.currentStep) /\ vs[7] = metricsToJson(u.metrics)
    BY DEF UpdateValues
  <1>3. \A i \in 1..7 : i = 1 \/ i = 2 \/ i = 3 \/ i = 4 \/ i = 5 \/ i = 6 \/ i = 7
    OBVIOUS
  <1>4. \A i \in 1..7 : ks[i] \in FieldNames /\ ks[i] # "errorMessage"
    <2>1. \A i \in 1..7 : ks[i] \in {"jobId", "status", "previousStatus", "timestamp",
                                     "progressPercent", "currentStep", "metrics"}
      BY DEF UpdateNames
    <2>2. {"jobId", "status", "previousStatus", "timestamp", "progressPercent", "currentStep",
           "metrics"} \subseteq FieldNames \ {"errorMessage"}
      BY NamesOfFields, Zenon
    <2> QED BY <2>1, <2>2
  <1>5. \A i, j \in 1..7 : i < j => ks[i] # ks[j]
    BY SMTT(60) DEF UpdateNames
  <1>6. /\ u.jobId \in AnyText /\ u.currentStep \in AnyText /\ u.status \in JobStatusNames
        /\ u.previousStatus \in JobStatusNames /\ IsTime(u.timestamp)
        /\ u.progressPercent \in decimals /\ IsMetrics(u.metrics)
    BY WordsAre DEF IsUpdate
  <1>7. \A k \in FieldNames : \A i \in 1..6 : vs[i] \in Seq(Symbols) /\ Silent(vs[i], k)
    <2> SUFFICES ASSUME NEW k \in FieldNames
                 PROVE  \A i \in 1..6 : vs[i] \in Seq(Symbols) /\ Silent(vs[i], k)
      OBVIOUS
    <2>1. /\ \A x \in AnyText : JText(x) \in Seq(Symbols) /\ Silent(JText(x), k)
          /\ \A w \in JobStatusNames : JWord(w) \in Seq(Symbols) /\ Silent(JWord(w), k)
          /\ \A time : IsTime(time) =>
                formatTimestamp(time) \in Seq(Symbols) /\ Silent(formatTimestamp(time), k)
          /\ \A w \in decimals : <<w>> \in Seq(Symbols) /\ Silent(<<w>>, k)
      BY ValuesSilent
    <2>2. \A i \in 1..6 : i = 1 \/ i = 2 \/ i = 3 \/ i = 4 \/ i = 5 \/ i = 6
      OBVIOUS
    <2> DEFINE Q(v) == v \in Seq(Symbols) /\ Silent(v, k)
    <2>3. /\ Q(JText(u.jobId)) /\ Q(JWord(u.status)) /\ Q(JWord(u.previousStatus))
          /\ Q(formatTimestamp(u.timestamp)) /\ Q(<<u.progressPercent>>) /\ Q(JText(u.currentStep))
      BY <1>6, <2>1, Zenon
    <2> HIDE DEF ks, vs, parts, Q
    <2>4. \A i \in 1..6 : Q(vs[i])
      BY <1>2, <2>2, <2>3
    <2> QED BY <2>4 DEF Q
  <1>8. vs[7] \in Seq(Symbols) /\ Silent(vs[7], "errorMessage")
    BY <1>2, <1>6, MetricsSilent, NamesOfFields
  <1>9. DOMAIN parts = 1..7 /\ parts = [i \in 1..7 |-> parts[i]]
    BY DEF UpdateFields
  <1>10. \A i \in 1..7 : parts[i] = JField(ks[i], vs[i])
    <2>1. /\ parts[1] = JField(ks[1], vs[1]) /\ parts[2] = JField(ks[2], vs[2])
          /\ parts[3] = JField(ks[3], vs[3]) /\ parts[4] = JField(ks[4], vs[4])
          /\ parts[5] = JField(ks[5], vs[5]) /\ parts[6] = JField(ks[6], vs[6])
          /\ parts[7] = JField(ks[7], vs[7])
      BY <1>1, <1>2 DEF UpdateFields
    <2> HIDE DEF ks, vs, parts
    <2> QED BY <1>3, <2>1
  <1> HIDE DEF ks, vs, parts
  <1>11. \A i \in 1..7 : i \in 1..6 \/ i = 7
    OBVIOUS
  <1>12. \A i, j \in 1..7 : i < j => i \in 1..6
    OBVIOUS
  <1>13. "errorMessage" \in FieldNames
    BY NamesOfFields
  <1>14. \A i \in 1..7 : vs[i] \in Seq(Symbols) /\ Silent(vs[i], "errorMessage")
    BY <1>7, <1>8, <1>11, <1>13
  <1>15. Says(7, ks, vs, parts)
    <2>1. \A i \in 1..7 : /\ ks[i] \in FieldNames /\ vs[i] \in Seq(Symbols)
                          /\ parts[i] = JField(ks[i], vs[i])
      BY <1>4, <1>10, <1>14
    <2>2. \A i, j \in 1..7 : i < j => ks[i] # ks[j] /\ Silent(vs[i], ks[j])
      BY <1>4, <1>5, <1>7, <1>12
    <2>3. 7 \in Nat
      OBVIOUS
    <2> QED BY <1>9, <2>1, <2>2, <2>3, FieldsSay
  <1>16. Lacks(7, ks, vs, "errorMessage")
    BY <1>4, <1>14 DEF Lacks
  <1> QED BY <1>15, <1>16 DEF ks, vs, parts

(* With an optional text behind them, the fields of an object still stand    *)
(* amid it.                                                                *)
LEMMA StillAmid ==
    ASSUME NEW n, NEW ks, NEW vs, NEW parts, Says(n, ks, vs, parts), NEW k \in FieldNames,
           NEW option, IsOption(option), Lacks(n, ks, vs, k), NEW T,
           T = JObject(parts \o JOptional(k, option))
    PROVE  /\ \A j \in 1..n : Amid(T, ks[j], vs[j])
           /\ SameOption(option, readText(T, k))
  <1>1. PICK m, ls, ws : /\ Says(m, ls, ws, parts \o JOptional(k, option))
                         /\ Continues(n, ks, vs, m, ls, ws)
                         /\ Holds(m, ls, ws, k, option)
    BY OptionAdded
  <1> DEFINE all == parts \o JOptional(k, option)
  <1>2. Says(m, ls, ws, all) /\ T = JObject(all)
    BY <1>1
  <1> HIDE DEF all
  <1>3. \A j \in 1..m : Amid(T, ls[j], ws[j])
    BY <1>2, FieldsAmid
  <1>4. \A j \in 1..n : j \in 1..m /\ ls[j] = ks[j] /\ ws[j] = vs[j]
    BY <1>1 DEF Continues
  <1>5. SameOption(option, readText(T, k))
    BY <1>1, <1>2, OptionRead
  <1> QED BY <1>3, <1>4, <1>5

(* A status update is read back.                                            *)
LEMMA UpdateSame ==
    ASSUME NEW u, IsUpdate(u)
    PROVE  SameUpdate(u, updateFromJson(updateToJson(u)))
  <1> DEFINE T == updateToJson(u)
             R == updateFromJson(T)
             ks == UpdateNames
             vs == UpdateValues(u)
  <1>1. T = JObject(UpdateFields(u) \o JOptional("errorMessage", u.errorMessage))
    BY Zenon DEF updateToJson, UpdateFields
  <1>2. /\ \A j \in 1..7 : Amid(T, ks[j], vs[j])
        /\ SameOption(u.errorMessage, readText(T, "errorMessage"))
    <2>1. Says(7, ks, vs, UpdateFields(u)) /\ Lacks(7, ks, vs, "errorMessage")
      BY UpdateSays
    <2>2. IsOption(u.errorMessage) /\ "errorMessage" \in FieldNames
      BY NamesOfFields DEF IsUpdate
    <2> HIDE DEF T, ks, vs
    <2> QED BY <1>1, <2>1, <2>2, StillAmid
  <1> HIDE DEF T
  <1>3. /\ Amid(T, "jobId", JText(u.jobId)) /\ Amid(T, "status", JWord(u.status))
        /\ Amid(T, "previousStatus", JWord(u.previousStatus))
        /\ Amid(T, "timestamp", formatTimestamp(u.timestamp))
        /\ Amid(T, "progressPercent", <<u.progressPercent>>)
        /\ Amid(T, "currentStep", JText(u.currentStep))
        /\ Amid(T, "metrics", metricsToJson(u.metrics))
    <2>1. /\ Amid(T, ks[1], vs[1]) /\ Amid(T, ks[2], vs[2]) /\ Amid(T, ks[3], vs[3])
          /\ Amid(T, ks[4], vs[4]) /\ Amid(T, ks[5], vs[5]) /\ Amid(T, ks[6], vs[6])
          /\ Amid(T, ks[7], vs[7])
      <3>1. 1 \in 1..7 /\ 2 \in 1..7 /\ 3 \in 1..7 /\ 4 \in 1..7 /\ 5 \in 1..7 /\ 6 \in 1..7 /\ 7 \in 1..7
        OBVIOUS
      <3> QED BY <1>2, <3>1, Zenon
    <2>2. /\ ks[1] = "jobId" /\ ks[2] = "status" /\ ks[3] = "previousStatus" /\ ks[4] = "timestamp"
          /\ ks[5] = "progressPercent" /\ ks[6] = "currentStep" /\ ks[7] = "metrics"
      BY DEF UpdateNames
    <2>3. /\ vs[1] = JText(u.jobId) /\ vs[2] = JWord(u.status) /\ vs[3] = JWord(u.previousStatus)
          /\ vs[4] = formatTimestamp(u.timestamp) /\ vs[5] = <<u.progressPercent>>
          /\ vs[6] = JText(u.currentStep) /\ vs[7] = metricsToJson(u.metrics)
      BY DEF UpdateValues
    <2> HIDE DEF ks, vs
    <2> QED BY <2>1, <2>2, <2>3
  <1>4. /\ u.jobId \in AnyText /\ u.currentStep \in AnyText /\ u.status \in JobStatusNames
        /\ u.previousStatus \in JobStatusNames /\ IsTime(u.timestamp)
        /\ u.progressPercent \in numerals /\ IsMetrics(u.metrics)
    BY DEF IsUpdate
  <1>5. /\ R.jobId = Given(readText(T, "jobId"), <<>>)
        /\ R.status = StatusOf(T, "status") /\ R.previousStatus = StatusOf(T, "previousStatus")
        /\ R.timestamp = Given(readTime(T, "timestamp"), Epoch)
        /\ R.progressPercent = Given(readWord(T, "progressPercent", numerals), "0")
        /\ R.currentStep = Given(readText(T, "currentStep"), <<>>)
        /\ R.errorMessage = readText(T, "errorMessage")
        /\ R.metrics = readMetrics(T)
    BY DEF updateFromJson, StatusOf
  <1> HIDE DEF R
  <1>6. {"jobId", "status", "previousStatus", "timestamp", "progressPercent", "currentStep",
         "metrics"} \subseteq FieldNames
    BY NamesOfFields
  <1>7. /\ PlainText(u.jobId) => R.jobId = u.jobId
        /\ PlainText(u.currentStep) => R.currentStep = u.currentStep
    BY <1>3, <1>4, <1>5, <1>6, TextField
  <1>8. R.status = u.status /\ R.previousStatus = u.previousStatus
    BY <1>3, <1>4, <1>5, <1>6, NameField
  <1>9. R.timestamp = [ms |-> u.timestamp.ms, below |-> 0]
    BY <1>3, <1>4, <1>5, <1>6, TimeField
  <1>10. R.progressPercent = u.progressPercent
    BY <1>3, <1>4, <1>5, <1>6, NumberField
  <1>11. SameMetrics(u.metrics, R.metrics)
    BY <1>3, <1>4, <1>5, MetricsRead
  <1>12. SameOption(u.errorMessage, R.errorMessage)
    BY <1>2, <1>5
  <1>13. SameFields(u, R, {"jobId", "currentStep"}, {"status", "previousStatus", "progressPercent"})
    BY <1>7, <1>8, <1>10 DEF SameFields
  <1>14. SameTimes(u, R, {"timestamp"})
    BY <1>9 DEF SameTimes
  <1>15. SameUpdate(u, R)
    BY <1>11, <1>12, <1>13, <1>14 DEF SameUpdate
  <1> QED BY <1>15 DEF R, T

(* The data of a job.                                                       *)
LogsOf(d) == JList([i \in DOMAIN d.recentLogs |-> JText(d.recentLogs[i])])
DataNames ==
    <<"jobId", "jobType", "status", "progressPercent", "currentStep", "startTime", "createdAt",
      "completedAt", "executionTime", "metrics", "recentLogs">>
DataValues(d) ==
    <<JText(d.jobId), JWord(d.jobType), JWord(d.status), <<d.progressPercent>>,
      JText(d.currentStep), formatTimestamp(d.startTime), formatTimestamp(d.createdAt),
      formatTimestamp(d.completedAt), <<d.executionTime>>, metricsToJson(d.metrics), LogsOf(d)>>
DataFields(d) ==
    <<JField("jobId", JText(d.jobId)), JField("jobType", JWord(d.jobType)),
      JField("status", JWord(d.status)), JField("progressPercent", <<d.progressPercent>>),
      JField("currentStep", JText(d.currentStep)),
      JField("startTime", formatTimestamp(d.startTime)),
      JField("createdAt", formatTimestamp(d.createdAt)),
      JField("completedAt", formatTimestamp(d.completedAt)),
      JField("executionTime", <<d.executionTime>>), JField("metrics", metricsToJson(d.metrics)),
      JField("recentLogs", LogsOf(d))>>

(* They say their fields.                                                   *)
LEMMA DataSays ==
    ASSUME NEW d, IsData(d)
    PROVE  /\ Says(11, DataNames, DataValues(d), DataFields(d))
           /\ Lacks(11, DataNames, DataValues(d), "errorMessage")
  <1> DEFINE ks == DataNames
             vs == DataValues(d)
             parts == DataFields(d)
  <1>1. /\ ks[1] = "jobId" /\ ks[2] = "jobType" /\ ks[3] = "status" /\ ks[4] = "progressPercent"
        /\ ks[5] = "currentStep" /\ ks[6] = "startTime" /\ ks[7] = "createdAt"
        /\ ks[8] = "completedAt" /\ ks[9] = "executionTime" /\ ks[10] = "metrics"
        /\ ks[11] = "recentLogs"
    BY DEF DataNames
  <1>2. /\ vs[1] = JText(d.jobId) /\ vs[2] = JWord(d.jobType) /\ vs[3] = JWord(d.status)
        /\ vs[4] = <<d.progressPercent>> /\ vs[5] = JText(d.currentStep)
        /\ vs[6] = formatTimestamp(d.startTime) /\ vs[7] = formatTimestamp(d.createdAt)
        /\ vs[8] = formatTimestamp(d.completedAt) /\ vs[9] = <<d.executionTime>>
        /\ vs[10] = metricsToJson(d.metrics) /\ vs[11] = LogsOf(d)
    BY DEF DataValues
  <1>3. \A i \in 1..11 : \/ i = 1 \/ i = 2 \/ i = 3 \/ i = 4 \/ i = 5 \/ i = 6 \/ i = 7
                         \/ i = 8 \/ i = 9 \/ i = 10 \/ i = 11
    OBVIOUS
  <1>4. \A i \in 1..11 : ks[i] \in FieldNames /\ ks[i] # "errorMessage"
    <2>1. \A i \in 1..11 : ks[i] \in {"jobId", "jobType", "status", "progressPercent",
                                    "currentStep", "startTime", "createdAt", "completedAt",
                                    "executionTime", "metrics", "recentLogs"}
      BY SMTT(60) DEF DataNames
    <2>2. {"jobId", "jobType", "status", "progressPercent", "currentStep", "startTime",
           "createdAt", "completedAt", "executionTime", "metrics", "recentLogs"}
          \subseteq FieldNames \ {"errorMessage"}
      BY NamesOfFields, Zenon
    <2> QED BY <2>1, <2>2
  <1>5. \A i, j \in 1..11 : i < j => ks[i] # ks[j]
    BY SMTT(60) DEF DataNames
  <1>6. /\ d.jobId \in AnyText /\ d.currentStep \in AnyText /\ d.status \in JobStatusNames
        /\ d.jobType \in JobTypeNames /\ IsTime(d.startTime) /\ IsTime(d.createdAt)
        /\ IsTime(d.completedAt) /\ d.progressPercent \in decimals
        /\ d.executionTime \in decimals /\ IsMetrics(d.metrics) /\ d.recentLogs \in Seq(AnyText)
    BY WordsAre DEF IsData
  <1>7. \A k \in FieldNames : \A i \in 1..11 :
           vs[i] \in Seq(Symbols) /\ (i # 10 => Silent(vs[i], k))
    <2> SUFFICES ASSUME NEW k \in FieldNames
                 PROVE  \A i \in 1..11 : vs[i] \in Seq(Symbols) /\ (i # 10 => Silent(vs[i], k))
      OBVIOUS
    <2>1. /\ \A x \in AnyText : JText(x) \in Seq(Symbols) /\ Silent(JText(x), k)
          /\ \A w \in JobStatusNames \union JobTypeNames :
                JWord(w) \in Seq(Symbols) /\ Silent(JWord(w), k)
          /\ \A time : IsTime(time) =>
                formatTimestamp(time) \in Seq(Symbols) /\ Silent(formatTimestamp(time), k)
          /\ \A w \in decimals : <<w>> \in Seq(Symbols) /\ Silent(<<w>>, k)
      BY ValuesSilent
    <2>2. LogsOf(d) \in Seq(Symbols) /\ Silent(LogsOf(d), k)
      BY <1>6, ListsSilent, Zenon DEF LogsOf
    <2>3. metricsToJson(d.metrics) \in Seq(Symbols)
      BY <1>6, MetricsSilent
    <2> DEFINE Q(v) == v \in Seq(Symbols) /\ Silent(v, k)
    <2>4. /\ Q(JText(d.jobId)) /\ Q(JWord(d.jobType)) /\ Q(JWord(d.status))
          /\ Q(<<d.progressPercent>>) /\ Q(JText(d.currentStep))
          /\ Q(formatTimestamp(d.startTime)) /\ Q(formatTimestamp(d.createdAt))
          /\ Q(formatTimestamp(d.completedAt)) /\ Q(<<d.executionTime>>) /\ Q(LogsOf(d))
      BY <1>6, <2>1, <2>2, Zenon
    <2> HIDE DEF ks, vs, parts
    <2>5. vs[10] \in Seq(Symbols)
      BY <1>2, <2>3
    <2> HIDE DEF Q
    <2>6. \A i \in 1..11 : i # 10 => Q(vs[i])
      BY <1>2, <1>3, <2>4
    <2> QED BY <2>5, <2>6 DEF Q
  <1>8. Silent(vs[10], "recentLogs") /\ Silent(vs[10], "errorMessage")
    BY <1>2, <1>6, MetricsSilent, NamesOfFields
  <1>9. DOMAIN parts = 1..11 /\ parts = [i \in 1..11 |-> parts[i]]
    BY DEF DataFields
  <1>10. \A i \in 1..11 : parts[i] = JField(ks[i], vs[i])
    <2>1. /\ parts[1] = JField(ks[1], vs[1]) /\ parts[2] = JField(ks[2], vs[2])
          /\ parts[3] = JField(ks[3], vs[3]) /\ parts[4] = JField(ks[4], vs[4])
          /\ parts[5] = JField(ks[5], vs[5]) /\ parts[6] = JField(ks[6], vs[6])
          /\ parts[7] = JField(ks[7], vs[7]) /\ parts[8] = JField(ks[8], vs[8])
          /\ parts[9] = JField(ks[9], vs[9]) /\ parts[10] = JField(ks[10], vs[10])
          /\ parts[11] = JField(ks[11], vs[11])
      BY <1>1, <1>2 DEF DataFields
    <2> HIDE DEF ks, vs, parts
    <2> QED BY <1>3, <2>1
  <1> HIDE DEF ks, vs, parts
  <1>11. "errorMessage" \in FieldNames
    BY NamesOfFields
  <1>12. \A i \in 1..11 : vs[i] \in Seq(Symbols) /\ Silent(vs[i], "errorMessage")
    BY <1>7, <1>8, <1>11
  <1>13. \A i, j \in 1..11 : i < j => Silent(vs[i], ks[j])
    <2> SUFFICES ASSUME NEW i \in 1..11, NEW j \in 1..11, i < j PROVE Silent(vs[i], ks[j])
      OBVIOUS
    <2>1. CASE i = 10
      <3>1. j = 11
        BY <2>1
      <3> QED BY <1>1, <1>8, <2>1, <3>1
    <2>2. CASE i # 10
      BY <1>4, <1>7, <2>2
    <2> QED BY <2>1, <2>2
  <1>14. Says(11, ks, vs, parts)
    <2>1. \A i \in 1..11 : /\ ks[i] \in FieldNames /\ vs[i] \in Seq(Symbols)
                           /\ parts[i] = JField(ks[i], vs[i])
      BY <1>4, <1>10, <1>12
    <2>2. 11 \in Nat
      OBVIOUS
    <2> QED BY <1>5, <1>9, <1>13, <2>1, <2>2, FieldsSay
  <1>15. Lacks(11, ks, vs, "errorMessage")
    BY <1>4, <1>12 DEF Lacks
  <1> QED BY <1>14, <1>15 DEF ks, vs, parts

(* The data of a job are read back.                                         *)
LEMMA DataSame ==
    ASSUME NEW d, IsData(d)
    PROVE  SameData(d, dataFromJson(dataToJson(d)))
  <1> DEFINE T == dataToJson(d)
             R == dataFromJson(T)
             ks == DataNames
             vs == DataValues(d)
  <1>1. T = JObject(DataFields(d) \o JOptional("errorMessage", d.errorMessage))
    BY Zenon DEF dataToJson, DataFields, LogsOf
  <1>2. /\ \A j \in 1..11 : Amid(T, ks[j], vs[j])
        /\ SameOption(d.errorMessage, readText(T, "errorMessage"))
    <2>1. Says(11, ks, vs, DataFields(d)) /\ Lacks(11, ks, vs, "errorMessage")
      BY DataSays
    <2>2. IsOption(d.errorMessage) /\ "errorMessage" \in FieldNames
      BY NamesOfFields DEF IsData
    <2> HIDE DEF T, ks, vs
    <2> QED BY <1>1, <2>1, <2>2, StillAmid
  <1> HIDE DEF T
  <1>3. /\ Amid(T, "jobId", JText(d.jobId)) /\ Amid(T, "jobType", JWord(d.jobType))
        /\ Amid(T, "status", JWord(d.status)) /\ Amid(T, "progressPercent", <<d.progressPercent>>)
        /\ Amid(T, "currentStep", JText(d.currentStep))
        /\ Amid(T, "startTime", formatTimestamp(d.startTime))
        /\ Amid(T, "createdAt", formatTimestamp(d.createdAt))
        /\ Amid(T, "completedAt", formatTimestamp(d.completedAt))
        /\ Amid(T, "executionTime", <<d.executionTime>>)
        /\ Amid(T, "metrics", metricsToJson(d.metrics)) /\ Amid(T, "recentLogs", LogsOf(d))
    <2>1. /\ Amid(T, ks[1], vs[1]) /\ Amid(T, ks[2], vs[2]) /\ Amid(T, ks[3], vs[3])
          /\ Amid(T, ks[4], vs[4]) /\ Amid(T, ks[5], vs[5]) /\ Amid(T, ks[6], vs[6])
          /\ Amid(T, ks[7], vs[7]) /\ Amid(T, ks[8], vs[8]) /\ Amid(T, ks[9], vs[9])
          /\ Amid(T, ks[10], vs[10]) /\ Amid(T, ks[11], vs[11])
      <3>1. /\ 1 \in 1..11 /\ 2 \in 1..11 /\ 3 \in 1..11 /\ 4 \in 1..11 /\ 5 \in 1..11
               /\ 6 \in 1..11 /\ 7 \in 1..11 /\ 8 \in 1..11 /\ 9 \in 1..11 /\ 10 \in 1..11
               /\ 11 \in 1..11
        OBVIOUS
      <3> QED BY <1>2, <3>1, Zenon
    <2>2. /\ ks[1] = "jobId" /\ ks[2] = "jobType" /\ ks[3] = "status" /\ ks[4] = "progressPercent"
          /\ ks[5] = "currentStep" /\ ks[6] = "startTime" /\ ks[7] = "createdAt"
          /\ ks[8] = "completedAt" /\ ks[9] = "executionTime" /\ ks[10] = "metrics"
          /\ ks[11] = "recentLogs"
      BY DEF DataNames
    <2>3. /\ vs[1] = JText(d.jobId) /\ vs[2] = JWord(d.jobType) /\ vs[3] = JWord(d.status)
          /\ vs[4] = <<d.progressPercent>> /\ vs[5] = JText(d.currentStep)
          /\ vs[6] = formatTimestamp(d.startTime) /\ vs[7] = formatTimestamp(d.createdAt)
          /\ vs[8] = formatTimestamp(d.completedAt) /\ vs[9] = <<d.executionTime>>
          /\ vs[10] = metricsToJson(d.metrics) /\ vs[11] = LogsOf(d)
      BY DEF DataValues
    <2> HIDE DEF ks, vs
    <2> QED BY <2>1, <2>2, <2>3
  <1>4. /\ d.jobId \in AnyText /\ d.currentStep \in AnyText /\ d.status \in JobStatusNames
        /\ d.jobType \in JobTypeNames /\ IsTime(d.startTime) /\ IsTime(d.createdAt)
        /\ IsTime(d.completedAt) /\ d.progressPercent \in numerals
        /\ d.executionTime \in numerals /\ IsMetrics(d.metrics)
    BY DEF IsData
  <1>5. /\ R.jobId = Given(readText(T, "jobId"), <<>>)
        /\ R.jobType = JobTypeOf(T, "jobType") /\ R.status = StatusOf(T, "status")
        /\ R.progressPercent = Given(readWord(T, "progressPercent", numerals), "0")
        /\ R.currentStep = Given(readText(T, "currentStep"), <<>>)
        /\ R.startTime = Given(readTime(T, "startTime"), Epoch)
        /\ R.createdAt = Given(readTime(T, "createdAt"), Epoch)
        /\ R.completedAt = Given(readTime(T, "completedAt"), Epoch)
        /\ R.executionTime = Given(readWord(T, "executionTime", numerals), "0")
        /\ R.errorMessage = readText(T, "errorMessage") /\ R.metrics = readMetrics(T)
    BY DEF dataFromJson, JobTypeOf, StatusOf
  <1> HIDE DEF R
  <1>6. {"jobId", "jobType", "status", "progressPercent", "currentStep", "startTime", "createdAt",
         "completedAt", "executionTime"} \subseteq FieldNames
    BY NamesOfFields
  <1>7. /\ PlainText(d.jobId) => R.jobId = d.jobId
        /\ PlainText(d.currentStep) => R.currentStep = d.currentStep
    BY <1>3, <1>4, <1>5, <1>6, TextField
  <1>8. R.jobType = d.jobType /\ R.status = d.status
    BY <1>3, <1>4, <1>5, <1>6, NameField
  <1>9. /\ R.startTime = [ms |-> d.startTime.ms, below |-> 0]
        /\ R.createdAt = [ms |-> d.createdAt.ms, below |-> 0]
        /\ R.completedAt = [ms |-> d.completedAt.ms, below |-> 0]
    BY <1>3, <1>4, <1>5, <1>6, TimeField
  <1>10. R.progressPercent = d.progressPercent /\ R.executionTime = d.executionTime
    BY <1>3, <1>4, <1>5, <1>6, NumberField
  <1>11. SameMetrics(d.metrics, R.metrics)
    BY <1>3, <1>4, <1>5, MetricsRead
  <1>12. SameOption(d.errorMessage, R.errorMessage)
    BY <1>2, <1>5
  <1>13. SameFields(d, R, {"jobId", "currentStep"},
                    {"jobType", "status", "progressPercent", "executionTime"})
    BY <1>7, <1>8, <1>10 DEF SameFields
  <1>14. SameTimes(d, R, {"startTime", "createdAt", "completedAt"})
    BY <1>9 DEF SameTimes
  <1>15. SameData(d, R)
    BY <1>11, <1>12, <1>13, <1>14 DEF SameData
  <1> QED BY <1>15 DEF R, T

(* An object of parts of symbols is one.                                    *)
LEMMA ObjectType ==
    ASSUME NEW parts \in Seq(Seq(Symbols)) PROVE JObject(parts) \in Seq(Symbols)
  <1> DEFINE x == FlattenSeq(Commaed(parts))
             o == <<Open>>
             z == <<Close>>
  <1>1. x \in Seq(Symbols)
    BY CommaedAre, FlattenType
  <1>2. o \in Seq(Symbols) /\ z \in Seq(Symbols)
    BY MarksAre
  <1>3. JObject(parts) = (o \o x) \o z
    BY JoinedIs
  <1> HIDE DEF x, o, z
  <1>4. o \o x \in Seq(Symbols)
    BY <1>1, <1>2
  <1>5. (o \o x) \o z \in Seq(Symbols)
    BY <1>2, <1>4
  <1> QED BY <1>3, <1>5

(* A log entry.                                                             *)
ContextOf(l) ==
    JObject([i \in DOMAIN l.context |->
        JText(l.context[i][1]) \o <<":">> \o JText(l.context[i][2])])
LogNames == <<"jobId", "level", "component", "message", "timestamp", "context">>
LogValues(l) ==
    <<JText(l.jobId), JText(l.level), JText(l.component), JText(l.message),
      formatTimestamp(l.timestamp), ContextOf(l)>>
LogFields(l) ==
    <<JField("jobId", JText(l.jobId)), JField("level", JText(l.level)),
      JField("component", JText(l.component)), JField("message", JText(l.message)),
      JField("timestamp", formatTimestamp(l.timestamp)), JField("context", ContextOf(l))>>

(* The context of a log message is written as a text.                       *)
LEMMA ContextType ==
    ASSUME NEW l, l.context \in Seq(AnyText \X AnyText) PROVE ContextOf(l) \in Seq(Symbols)
  <1> DEFINE c == l.context
             pair(i) == JText(c[i][1]) \o <<":">> \o JText(c[i][2])
             parts == [i \in DOMAIN c |-> pair(i)]
  <1>1. /\ Len(c) \in Nat /\ DOMAIN c = 1..Len(c)
        /\ \A i \in 1..Len(c) : c[i][1] \in AnyText /\ c[i][2] \in AnyText
    <2>1. c \in Seq(AnyText \X AnyText)
      OBVIOUS
    <2> HIDE DEF c
    <2> QED BY <2>1
  <1>2. \A i \in 1..Len(c) : pair(i) \in Seq(Symbols)
    <2> SUFFICES ASSUME NEW i \in 1..Len(c) PROVE pair(i) \in Seq(Symbols)
      OBVIOUS
    <2> DEFINE a == JText(c[i][1])
               b == JText(c[i][2])
               colon == <<Colon>>
    <2>1. a \in Seq(Symbols) /\ b \in Seq(Symbols)
      BY <1>1, NamesOfFields, ValuesSilent
    <2>2. colon \in Seq(Symbols)
      BY MarksAre
    <2>3. pair(i) = (a \o colon) \o b
      BY Zenon DEF Colon
    <2> HIDE DEF a, b, colon, pair
    <2>4. a \o colon \in Seq(Symbols)
      BY <2>1, <2>2
    <2>5. (a \o colon) \o b \in Seq(Symbols)
      BY <2>1, <2>4
    <2> QED BY <2>3, <2>5
  <1> HIDE DEF c, pair
  <1>3. parts \in Seq(Seq(Symbols))
    BY <1>1, <1>2
  <1>4. JObject(parts) \in Seq(Symbols)
    <2> HIDE DEF parts
    <2> QED BY <1>3, ObjectType
  <1>5. ContextOf(l) = JObject(parts)
    BY Zenon DEF ContextOf, c, pair
  <1> QED BY <1>4, <1>5

(* It says its fields; the context comes last.                              *)
LEMMA LogSays ==
    ASSUME NEW l, IsLog(l)
    PROVE  Says(6, LogNames, LogValues(l), LogFields(l))
  <1> DEFINE ks == LogNames
             vs == LogValues(l)
             parts == LogFields(l)
  <1>1. /\ ks[1] = "jobId" /\ ks[2] = "level" /\ ks[3] = "component" /\ ks[4] = "message"
        /\ ks[5] = "timestamp" /\ ks[6] = "context"
    BY DEF LogNames
  <1>2. /\ vs[1] = JText(l.jobId) /\ vs[2] = JText(l.level) /\ vs[3] = JText(l.component)
        /\ vs[4] = JText(l.message) /\ vs[5] = formatTimestamp(l.timestamp)
        /\ vs[6] = ContextOf(l)
    BY DEF LogValues
  <1>3. \A i \in 1..6 : i = 1 \/ i = 2 \/ i = 3 \/ i = 4 \/ i = 5 \/ i = 6
    OBVIOUS
  <1>4. \A i \in 1..6 : ks[i] \in FieldNames
    <2>1. \A i \in 1..6 : ks[i] \in {"jobId", "level", "component", "message", "timestamp", "context"}
      BY DEF LogNames
    <2>2. {"jobId", "level", "component", "message", "timestamp", "context"} \subseteq FieldNames
      BY NamesOfFields, Zenon
    <2> QED BY <2>1, <2>2
  <1>5. \A i, j \in 1..6 : i < j => ks[i] # ks[j]
    BY SMTT(60) DEF LogNames
  <1>6. /\ l.jobId \in AnyText /\ l.level \in AnyText /\ l.component \in AnyText
        /\ l.message \in AnyText /\ IsTime(l.timestamp) /\ ContextOf(l) \in Seq(Symbols)
    BY ContextType DEF IsLog
  <1>7. \A k \in FieldNames : \A i \in 1..6 : vs[i] \in Seq(Symbols) /\ (i # 6 => Silent(vs[i], k))
    <2> SUFFICES ASSUME NEW k \in FieldNames
                 PROVE  \A i \in 1..6 : vs[i] \in Seq(Symbols) /\ (i # 6 => Silent(vs[i], k))
      OBVIOUS
    <2>1. /\ \A x \in AnyText : JText(x) \in Seq(Symbols) /\ Silent(JText(x), k)
          /\ \A time : IsTime(time) =>
                formatTimestamp(time) \in Seq(Symbols) /\ Silent(formatTimestamp(time), k)
      BY ValuesSilent
    <2> DEFINE Q(v) == v \in Seq(Symbols) /\ Silent(v, k)
    <2>2. /\ Q(JText(l.jobId)) /\ Q(JText(l.level)) /\ Q(JText(l.component)) /\ Q(JText(l.message))
          /\ Q(formatTimestamp(l.timestamp))
      BY <1>6, <2>1, Zenon
    <2> HIDE DEF ks, vs, parts
    <2>3. vs[6] \in Seq(Symbols)
      BY <1>2, <1>6
    <2> HIDE DEF Q
    <2>4. \A i \in 1..6 : i # 6 => Q(vs[i])
      BY <1>2, <1>3, <2>2
    <2> QED BY <2>3, <2>4 DEF Q
  <1>8. DOMAIN parts = 1..6 /\ parts = [i \in 1..6 |-> parts[i]]
    BY DEF LogFields
  <1>9. \A i \in 1..6 : parts[i] = JField(ks[i], vs[i])
    <2>1. /\ parts[1] = JField(ks[1], vs[1]) /\ parts[2] = JField(ks[2], vs[2])
          /\ parts[3] = JField(ks[3], vs[3]) /\ parts[4] = JField(ks[4], vs[4])
          /\ parts[5] = JField(ks[5], vs[5]) /\ parts[6] = JField(ks[6], vs[6])
      BY <1>1, <1>2 DEF LogFields
    <2> HIDE DEF ks, vs, parts
    <2> QED BY <1>3, <2>1
  <1> HIDE DEF ks, vs, parts
  <1>10. \A i \in 1..6 : /\ ks[i] \in FieldNames /\ vs[i] \in Seq(Symbols)
                         /\ parts[i] = JField(ks[i], vs[i])
    BY <1>4, <1>7, <1>9
  <1>11. \A i, j \in 1..6 : i < j => ks[i] # ks[j] /\ Silent(vs[i], ks[j])
    <2>1. \A i, j \in 1..6 : i < j => i # 6
      OBVIOUS
    <2> QED BY <1>4, <1>5, <1>7, <2>1
  <1>12. Says(6, ks, vs, parts)
    <2>1. 6 \in Nat
      OBVIOUS
    <2> QED BY <1>8, <1>10, <1>11, <2>1, FieldsSay
  <1> QED BY <1>12 DEF ks, vs, parts

(* A log message is read back, except for its context, which is not read.   *)
LEMMA LogSame ==
    ASSUME NEW l, IsLog(l)
    PROVE  SameLog(l, logFromJson(logToJson(l)))
  <1> DEFINE T == logToJson(l)
             R == logFromJson(T)
             ks == LogNames
             vs == LogValues(l)
  <1>1. T = JObject(LogFields(l))
    BY Zenon DEF logToJson, LogFields, ContextOf
  <1>2. \A j \in 1..6 : Amid(T, ks[j], vs[j])
    BY <1>1, LogSays, FieldsAmid
  <1> HIDE DEF T
  <1>3. /\ Amid(T, "jobId", JText(l.jobId)) /\ Amid(T, "level", JText(l.level))
        /\ Amid(T, "component", JText(l.component)) /\ Amid(T, "message", JText(l.message))
        /\ Amid(T, "timestamp", formatTimestamp(l.timestamp))
    <2>1. /\ Amid(T, ks[1], vs[1]) /\ Amid(T, ks[2], vs[2]) /\ Amid(T, ks[3], vs[3])
          /\ Amid(T, ks[4], vs[4]) /\ Amid(T, ks[5], vs[5])
      <3>1. 1 \in 1..6 /\ 2 \in 1..6 /\ 3 \in 1..6 /\ 4 \in 1..6 /\ 5 \in 1..6
        OBVIOUS
      <3> QED BY <1>2, <3>1, Zenon
    <2>2. /\ ks[1] = "jobId" /\ ks[2] = "level" /\ ks[3] = "component" /\ ks[4] = "message"
          /\ ks[5] = "timestamp"
      BY DEF LogNames
    <2>3. /\ vs[1] = JText(l.jobId) /\ vs[2] = JText(l.level) /\ vs[3] = JText(l.component)
          /\ vs[4] = JText(l.message) /\ vs[5] = formatTimestamp(l.timestamp)
      BY DEF LogValues
    <2> HIDE DEF ks, vs
    <2> QED BY <2>1, <2>2, <2>3
  <1>4. /\ l.jobId \in AnyText /\ l.level \in AnyText /\ l.component \in AnyText
        /\ l.message \in AnyText /\ IsTime(l.timestamp)
    BY DEF IsLog
  <1>5. /\ R.jobId = Given(readText(T, "jobId"), <<>>)
        /\ R.level = Given(readText(T, "level"), <<>>)
        /\ R.component = Given(readText(T, "component"), <<>>)
        /\ R.message = Given(readText(T, "message"), <<>>)
        /\ R.timestamp = Given(readTime(T, "timestamp"), Epoch)
    BY DEF logFromJson
  <1> HIDE DEF R
  <1>6. {"jobId", "level", "component", "message", "timestamp"} \subseteq FieldNames
    BY NamesOfFields
  <1>7. /\ PlainText(l.jobId) => R.jobId = l.jobId
        /\ PlainText(l.level) => R.level = l.level
        /\ PlainText(l.component) => R.component = l.component
        /\ PlainText(l.message) => R.message = l.message
    BY <1>3, <1>4, <1>5, <1>6, TextField
  <1>8. R.timestamp = [ms |-> l.timestamp.ms, below |-> 0]
    BY <1>3, <1>4, <1>5, <1>6, TimeField
  <1>9. SameFields(l, R, {"jobId", "level", "component", "message"}, {})
    BY <1>7 DEF SameFields
  <1>10. SameTimes(l, R, {"timestamp"})
    BY <1>8 DEF SameTimes
  <1>11. SameLog(l, R)
    BY <1>9, <1>10 DEF SameLog
  <1> QED BY <1>11 DEF R, T

(* The data of a message is silent for the names of the fields behind it.    *)
LEMMA DataSilent ==
    ASSUME NEW w, IsMessage(w), NEW k \in {"targetJobId", "targetLevel"}
    PROVE  w.data \in Seq(Symbols) /\ Silent(w.data, k)
  <1> DEFINE a == w.data
             n == Len(a)
  <1>1. a \in Seq(Symbols) /\ n > 1 /\ n \in Nat /\ a[1] = Open /\ a[n] = Close /\ Unnamed(a, k)
    <2>1. a \in AnyText /\ Len(a) > 1 /\ a[1] = Open /\ a[Len(a)] = Close
      BY Zenon DEF IsMessage, Open, Close
    <2>2. Unnamed(a, "targetJobId") /\ Unnamed(a, "targetLevel")
      BY DEF IsMessage
    <2>3. Unnamed(a, k)
      BY <2>2, Zenon
    <2> HIDE DEF a
    <2> QED BY <2>1, <2>3 DEF AnyText
  <1>2. k \in Symbols /\ k # Open /\ k # Close /\ Open # Colon
    <2>1. k \in FieldNames
      BY NamesOfFields, Zenon
    <2> QED BY <2>1, NamesAre, MarksAre
  <1> HIDE DEF a
  <1>3. \A i \in 1 .. n - 3 : ~KeyAt(a, k, i)
    <2>1. \A i \in 1 .. n - 3 : SubSeq(a, i, i + 3) # JField(k, <<>>)
      BY <1>1 DEF Unnamed
    <2> QED BY <1>1, <1>2, <2>1, KeyIs
  <1>4. ASSUME NEW i \in 1..n, a[i] = k
        PROVE  /\ i > 1 /\ i < n
               /\ ~(a[i - 1] = Quote /\ a[i + 1] = Quote /\ i + 2 <= n /\ a[i + 2] = Colon)
    <2>1. i # 1 /\ i # n
      BY <1>1, <1>2, <1>4
    <2>2. i > 1 /\ i < n
      BY <1>1, <2>1
    <2>3. ASSUME a[i - 1] = Quote, a[i + 1] = Quote, i + 2 <= n, a[i + 2] = Colon PROVE FALSE
      <3>1. i - 1 \in 1 .. n - 3 /\ (i - 1) + 1 = i /\ (i - 1) + 2 = i + 1 /\ (i - 1) + 3 = i + 2
        BY <1>1, <2>2, <2>3
      <3>2. KeyAt(a, k, i - 1)
        BY <1>4, <2>3, <3>1 DEF KeyAt
      <3> QED BY <1>3, <3>1, <3>2
    <2> QED BY <2>2, <2>3
  <1>5. a[1] # Colon
    BY <1>1, <1>2
  <1>6. Silent(a, k)
    BY <1>4, <1>5, Zenon DEF Silent, Colon, n
  <1> QED BY <1>1, <1>6 DEF a

(* A message to clients.                                                    *)
MessageNames == <<"type", "timestamp", "data">>
MessageValues(w) == <<JWord(w.type), formatTimestamp(w.timestamp), w.data>>
MessageFields(w) ==
    <<JField("type", JWord(w.type)), JField("timestamp", formatTimestamp(w.timestamp)),
      JField("data", w.data)>>

(* It says its fields, whatever its data.                                   *)
LEMMA MessageSays ==
    ASSUME NEW w, IsMessage(w)
    PROVE  /\ Says(3, MessageNames, MessageValues(w), MessageFields(w))
           /\ Lacks(3, MessageNames, MessageValues(w), "targetJobId")
           /\ Lacks(3, MessageNames, MessageValues(w), "targetLevel")
  <1> DEFINE ks == MessageNames
             vs == MessageValues(w)
             parts == MessageFields(w)
  <1>1. ks[1] = "type" /\ ks[2] = "timestamp" /\ ks[3] = "data"
    BY DEF MessageNames
  <1>2. vs[1] = JWord(w.type) /\ vs[2] = formatTimestamp(w.timestamp) /\ vs[3] = w.data
    BY DEF MessageValues
  <1>3. \A i \in 1..3 : i = 1 \/ i = 2 \/ i = 3
    OBVIOUS
  <1>4. \A i \in 1..3 : ks[i] \in FieldNames /\ ks[i] # "targetJobId" /\ ks[i] # "targetLevel"
    <2>1. \A i \in 1..3 : ks[i] \in {"type", "timestamp", "data"}
      BY DEF MessageNames
    <2>2. {"type", "timestamp", "data"} \subseteq FieldNames \ {"targetJobId", "targetLevel"}
      BY NamesOfFields, Zenon
    <2> QED BY <2>1, <2>2
  <1>5. \A i, j \in 1..3 : i < j => ks[i] # ks[j]
    BY SMTT(60) DEF MessageNames
  <1>6. w.type \in MessageTypeNames /\ IsTime(w.timestamp)
    BY DEF IsMessage
  <1>7. \A k \in FieldNames : \A i \in 1..3 : i # 3 => vs[i] \in Seq(Symbols) /\ Silent(vs[i], k)
    <2> SUFFICES ASSUME NEW k \in FieldNames
                 PROVE  \A i \in 1..3 : i # 3 => vs[i] \in Seq(Symbols) /\ Silent(vs[i], k)
      OBVIOUS
    <2> DEFINE Q(v) == v \in Seq(Symbols) /\ Silent(v, k)
    <2>1. Q(JWord(w.type)) /\ Q(formatTimestamp(w.timestamp))
      BY <1>6, ValuesSilent
    <2> HIDE DEF ks, vs, parts, Q
    <2>2. \A i \in 1..3 : i # 3 => Q(vs[i])
      BY <1>2, <1>3, <2>1
    <2> QED BY <2>2 DEF Q
  <1>8. vs[3] \in Seq(Symbols) /\ Silent(vs[3], "targetJobId") /\ Silent(vs[3], "targetLevel")
    <2>1. /\ w.data \in Seq(Symbols) /\ Silent(w.data, "targetJobId")
          /\ Silent(w.data, "targetLevel")
      BY DataSilent
    <2> HIDE DEF vs
    <2> QED BY <1>2, <2>1
  <1>9. DOMAIN parts = 1..3 /\ parts = [i \in 1..3 |-> parts[i]]
    BY DEF MessageFields
  <1>10. \A i \in 1..3 : parts[i] = JField(ks[i], vs[i])
    <2>1. /\ parts[1] = JField(ks[1], vs[1]) /\ parts[2] = JField(ks[2], vs[2])
          /\ parts[3] = JField(ks[3], vs[3])
      BY <1>1, <1>2 DEF MessageFields
    <2> HIDE DEF ks, vs, parts
    <2> QED BY <1>3, <2>1
  <1> HIDE DEF ks, vs, parts
  <1>11. "targetJobId" \in FieldNames /\ "targetLevel" \in FieldNames
    BY NamesOfFields
  <1>12. \A i \in 1..3 : /\ ks[i] \in FieldNames /\ vs[i] \in Seq(Symbols)
                         /\ parts[i] = JField(ks[i], vs[i])
    BY <1>4, <1>7, <1>8, <1>10, <1>11
  <1>13. \A i, j \in 1..3 : i < j => ks[i] # ks[j] /\ Silent(vs[i], ks[j])
    <2>1. \A i, j \in 1..3 : i < j => i # 3
      OBVIOUS
    <2> QED BY <1>4, <1>5, <1>7, <2>1
  <1>14. Says(3, ks, vs, parts)
    <2>1. 3 \in Nat
      OBVIOUS
    <2> QED BY <1>9, <1>12, <1>13, <2>1, FieldsSay
  <1>15. Lacks(3, ks, vs, "targetJobId") /\ Lacks(3, ks, vs, "targetLevel")
    BY <1>4, <1>7, <1>8, <1>11 DEF Lacks
  <1> QED BY <1>14, <1>15 DEF ks, vs, parts

(* A message to clients is read back.                                       *)
LEMMA MessageSame ==
    ASSUME NEW w, IsMessage(w)
    PROVE  SameMessage(w, wsMessageFromJson(wsMessageToJson(w)))
  <1> DEFINE T == wsMessageToJson(w)
             R == wsMessageFromJson(T)
             ks == MessageNames
             vs == MessageValues(w)
             parts == MessageFields(w)
             first == parts \o JOptional("targetJobId", w.targetJobId)
             all == first \o JOptional("targetLevel", w.targetLevel)
  <1>1. T = JObject(all)
    BY Zenon DEF wsMessageToJson, MessageFields
  <1>2. /\ "targetJobId" \in FieldNames /\ "targetLevel" \in FieldNames
        /\ "targetJobId" # "targetLevel"
        /\ IsOption(w.targetJobId) /\ IsOption(w.targetLevel)
    BY NamesOfFields DEF IsMessage
  <1>3. /\ Says(3, ks, vs, parts)
        /\ Lacks(3, ks, vs, "targetJobId") /\ Lacks(3, ks, vs, "targetLevel")
    BY MessageSays
  <1> HIDE DEF T, ks, vs, parts
  <1>4. PICK m, ls, ws :
           /\ Says(m, ls, ws, first)
           /\ Continues(3, ks, vs, m, ls, ws)
           /\ Holds(m, ls, ws, "targetJobId", w.targetJobId)
           /\ \A h \in FieldNames : h # "targetJobId" /\ Lacks(3, ks, vs, h) => Lacks(m, ls, ws, h)
    BY <1>2, <1>3, OptionAdded
  <1>5. Lacks(m, ls, ws, "targetLevel")
    BY <1>2, <1>3, <1>4
  <1> HIDE DEF first
  <1>6. PICK n, ms, xs :
           /\ Says(n, ms, xs, all)
           /\ Continues(m, ls, ws, n, ms, xs)
           /\ Holds(n, ms, xs, "targetLevel", w.targetLevel)
           /\ \A h \in FieldNames : h # "targetLevel" /\ Lacks(m, ls, ws, h) => Lacks(n, ms, xs, h)
    BY <1>2, <1>4, <1>5, OptionAdded
  <1> HIDE DEF all
  <1>7. Holds(n, ms, xs, "targetJobId", w.targetJobId)
    <2>1. CASE w.targetJobId = {} /\ Lacks(m, ls, ws, "targetJobId")
      BY <1>2, <1>6, <2>1 DEF Holds
    <2>2. CASE \E t \in AnyText, j \in 1..m :
                  w.targetJobId = {t} /\ ls[j] = "targetJobId" /\ ws[j] = JText(t)
      <3>1. PICK t \in AnyText, j \in 1..m :
                   w.targetJobId = {t} /\ ls[j] = "targetJobId" /\ ws[j] = JText(t)
        BY <2>2
      <3>2. j \in 1..n /\ ms[j] = ls[j] /\ xs[j] = ws[j]
        BY <1>6 DEF Continues
      <3> QED BY <3>1, <3>2 DEF Holds
    <2> QED BY <1>4, <2>1, <2>2 DEF Holds
  <1>8. /\ SameOption(w.targetJobId, readText(T, "targetJobId"))
        /\ SameOption(w.targetLevel, readText(T, "targetLevel"))
    BY <1>1, <1>2, <1>6, <1>7, OptionRead
  <1>9. \A j \in 1..3 : Amid(T, ks[j], vs[j])
    <2>1. \A j \in 1..n : Amid(T, ms[j], xs[j])
      BY <1>1, <1>6, FieldsAmid
    <2>2. \A j \in 1..3 : j \in 1..n /\ ms[j] = ks[j] /\ xs[j] = vs[j]
      BY <1>4, <1>6 DEF Continues
    <2> QED BY <2>1, <2>2
  <1>10. Amid(T, "type", JWord(w.type)) /\ Amid(T, "timestamp", formatTimestamp(w.timestamp))
    <2>1. Amid(T, ks[1], vs[1]) /\ Amid(T, ks[2], vs[2])
      <3>1. 1 \in 1..3 /\ 2 \in 1..3
        OBVIOUS
      <3> QED BY <1>9, <3>1, Zenon
    <2>2. ks[1] = "type" /\ ks[2] = "timestamp"
      BY DEF ks, MessageNames
    <2>3. vs[1] = JWord(w.type) /\ vs[2] = formatTimestamp(w.timestamp)
      BY DEF vs, MessageValues
    <2> QED BY <2>1, <2>2, <2>3
  <1>11. /\ R.type = MessageTypeOf(T, "type") /\ R.timestamp = Given(readTime(T, "timestamp"), Epoch)
         /\ R.targetJobId = readText(T, "targetJobId") /\ R.targetLevel = readText(T, "targetLevel")
    BY DEF wsMessageFromJson, MessageTypeOf
  <1> HIDE DEF R
  <1>12. "type" \in FieldNames /\ "timestamp" \in FieldNames
    BY NamesOfFields
  <1>13. w.type \in MessageTypeNames /\ IsTime(w.timestamp)
    BY DEF IsMessage
  <1>14. R.type = w.type
    BY <1>10, <1>11, <1>12, <1>13, NameField
  <1>15. R.timestamp = [ms |-> w.timestamp.ms, below |-> 0]
    BY <1>10, <1>11, <1>12, <1>13, TimeField
  <1>16. SameTimes(w, R, {"timestamp"})
    BY <1>15 DEF SameTimes
  <1>17. SameMessage(w, R)
    BY <1>8, <1>11, <1>14, <1>16 DEF SameMessage
  <1> QED BY <1>17 DEF R, T

(* The filters of a connection.                                             *)
TextsOf(list) == JList([i \in DOMAIN list |-> JText(list[i])])
TypesOf(list) == JList([i \in DOMAIN list |-> JWord(list[i])])
SystemWord(f) == IF f.system THEN "true" ELSE "false"
FilterNames == <<"jobIds", "logLevels", "messageTypes", "includeSystemNotifications">>
FilterValues(f) ==
    <<TextsOf(f.jobIds), TextsOf(f.logLevels), TypesOf(f.messageTypes), <<SystemWord(f)>>>>
FilterFields(f) ==
    <<JField("jobIds", TextsOf(f.jobIds)), JField("logLevels", TextsOf(f.logLevels)),
      JField("messageTypes", TypesOf(f.messageTypes)),
      JField("includeSystemNotifications", <<SystemWord(f)>>)>>

(* They say their fields.                                                   *)
LEMMA FiltersSay ==
    ASSUME NEW f, IsFilters(f)
    PROVE  Says(4, FilterNames, FilterValues(f), FilterFields(f))
  <1> DEFINE ks == FilterNames
             vs == FilterValues(f)
             parts == FilterFields(f)
  <1>1. /\ ks[1] = "jobIds" /\ ks[2] = "logLevels" /\ ks[3] = "messageTypes"
        /\ ks[4] = "includeSystemNotifications"
    BY DEF FilterNames
  <1>2. /\ vs[1] = TextsOf(f.jobIds) /\ vs[2] = TextsOf(f.logLevels)
        /\ vs[3] = TypesOf(f.messageTypes) /\ vs[4] = <<SystemWord(f)>>
    BY DEF FilterValues
  <1>3. \A i \in 1..4 : i = 1 \/ i = 2 \/ i = 3 \/ i = 4
    OBVIOUS
  <1>4. \A i \in 1..4 : ks[i] \in FieldNames
    <2>1. \A i \in 1..4 : ks[i] \in {"jobIds", "logLevels", "messageTypes",
                                     "includeSystemNotifications"}
      BY DEF FilterNames
    <2>2. {"jobIds", "logLevels", "messageTypes", "includeSystemNotifications"} \subseteq FieldNames
      BY NamesOfFields, Zenon
    <2> QED BY <2>1, <2>2
  <1>5. \A i, j \in 1..4 : i < j => ks[i] # ks[j]
    BY SMTT(60) DEF FilterNames
  <1>6. /\ f.jobIds \in Seq(AnyText) /\ f.logLevels \in Seq(AnyText)
        /\ f.messageTypes \in Seq(MessageTypeNames)
    BY DEF IsFilters
  <1>7. \A k \in FieldNames : \A i \in 1..4 : vs[i] \in Seq(Symbols) /\ Silent(vs[i], k)
    <2> SUFFICES ASSUME NEW k \in FieldNames
                 PROVE  \A i \in 1..4 : vs[i] \in Seq(Symbols) /\ Silent(vs[i], k)
      OBVIOUS
    <2> DEFINE Q(v) == v \in Seq(Symbols) /\ Silent(v, k)
    <2>1. Q(TextsOf(f.jobIds)) /\ Q(TextsOf(f.logLevels)) /\ Q(TypesOf(f.messageTypes))
      BY <1>6, ListsSilent, Zenon DEF TextsOf, TypesOf
    <2>2. Q(<<SystemWord(f)>>)
      <3>1. SystemWord(f) \in {"true", "false"}
        BY Zenon DEF SystemWord
      <3> QED BY <3>1, ValuesSilent
    <2> HIDE DEF ks, vs, parts, Q
    <2>3. \A i \in 1..4 : Q(vs[i])
      BY <1>2, <1>3, <2>1, <2>2
    <2> QED BY <2>3 DEF Q
  <1>8. DOMAIN parts = 1..4 /\ parts = [i \in 1..4 |-> parts[i]]
    BY DEF FilterFields
  <1>9. \A i \in 1..4 : parts[i] = JField(ks[i], vs[i])
    <2>1. /\ parts[1] = JField(ks[1], vs[1]) /\ parts[2] = JField(ks[2], vs[2])
          /\ parts[3] = JField(ks[3], vs[3]) /\ parts[4] = JField(ks[4], vs[4])
      BY <1>1, <1>2 DEF FilterFields
    <2> HIDE DEF ks, vs, parts
    <2> QED BY <1>3, <2>1
  <1> HIDE DEF ks, vs, parts
  <1>10. \A i \in 1..4 : /\ ks[i] \in FieldNames /\ vs[i] \in Seq(Symbols)
                         /\ parts[i] = JField(ks[i], vs[i])
    BY <1>4, <1>7, <1>9, NamesOfFields
  <1>11. \A i, j \in 1..4 : i < j => ks[i] # ks[j] /\ Silent(vs[i], ks[j])
    BY <1>4, <1>5, <1>7
  <1>12. Says(4, ks, vs, parts)
    <2>1. 4 \in Nat
      OBVIOUS
    <2> QED BY <1>8, <1>10, <1>11, <2>1, FieldsSay
  <1> QED BY <1>12 DEF ks, vs, parts

(* Filters are read back.                                                   *)
LEMMA FiltersSame ==
    ASSUME NEW f, IsFilters(f)
    PROVE  SameFilters(f, filtersFromJson(filtersToJson(f)))
  <1> DEFINE T == filtersToJson(f)
             R == filtersFromJson(T)
             ks == FilterNames
             vs == FilterValues(f)
             ts == f.messageTypes
             types == Given(readList(T, "messageTypes"), <<>>)
  <1>1. T = JObject(FilterFields(f))
    BY Zenon DEF filtersToJson, FilterFields, TextsOf, TypesOf, SystemWord
  <1>2. \A j \in 1..4 : Amid(T, ks[j], vs[j])
    BY <1>1, FiltersSay, FieldsAmid
  <1> HIDE DEF T
  <1>3. /\ Amid(T, "jobIds", TextsOf(f.jobIds)) /\ Amid(T, "logLevels", TextsOf(f.logLevels))
        /\ Amid(T, "messageTypes", TypesOf(ts))
        /\ Amid(T, "includeSystemNotifications", <<SystemWord(f)>>)
    <2>1. /\ Amid(T, ks[1], vs[1]) /\ Amid(T, ks[2], vs[2]) /\ Amid(T, ks[3], vs[3])
          /\ Amid(T, ks[4], vs[4])
      <3>1. 1 \in 1..4 /\ 2 \in 1..4 /\ 3 \in 1..4 /\ 4 \in 1..4
        OBVIOUS
      <3> QED BY <1>2, <3>1, Zenon
    <2>2. /\ ks[1] = "jobIds" /\ ks[2] = "logLevels" /\ ks[3] = "messageTypes"
          /\ ks[4] = "includeSystemNotifications"
      BY DEF FilterNames
    <2>3. /\ vs[1] = TextsOf(f.jobIds) /\ vs[2] = TextsOf(f.logLevels)
          /\ vs[3] = TypesOf(ts) /\ vs[4] = <<SystemWord(f)>>
      BY DEF FilterValues
    <2> HIDE DEF ks, vs
    <2> QED BY <2>1, <2>2, <2>3
  <1>4. /\ f.jobIds \in Seq(AnyText) /\ f.logLevels \in Seq(AnyText)
        /\ ts \in Seq(MessageTypeNames) /\ f.system \in BOOLEAN
    BY DEF IsFilters
  <1>5. \A k \in {"jobIds", "logLevels", "messageTypes", "includeSystemNotifications"} :
           k \in Symbols /\ k \notin Marks
    BY NamesOfFields, NamesAre
  <1>6. types = [i \in 1..Len(ts) |-> <<ts[i]>>]
    <2>1. ts \in Seq(Symbols) /\ \A i \in 1..Len(ts) : ts[i] # Quote /\ ts[i] # ListClose
      <3>1. \A w \in MessageTypeNames : w \in Symbols /\ w # Quote
        BY WordsAre
      <3>2. \A w \in MessageTypeNames : w # ListClose
        BY Zenon DEF MessageTypeNames, ListClose
      <3> HIDE DEF ts
      <3> QED BY <1>4, <3>1, <3>2
    <2>2. Amid(T, "messageTypes", JList([i \in DOMAIN ts |-> JWord(ts[i])]))
      BY <1>3, Zenon DEF TypesOf
    <2> HIDE DEF ts
    <2>3. readList(T, "messageTypes") = {[i \in 1..Len(ts) |-> <<ts[i]>>]}
      BY <1>5, <2>1, <2>2, NamesRead
    <2> QED BY <2>3, GivenIs
  <1>7. /\ R.messageTypes = [i \in DOMAIN types |-> stringToMessageType(types[i])]
        /\ R.jobIds = Given(readList(T, "jobIds"), <<>>)
        /\ R.logLevels = Given(readList(T, "logLevels"), <<>>)
        /\ R.system = (Given(readWord(T, "includeSystemNotifications", {"true", "false"}), "true")
                       = "true")
        /\ R = [jobIds |-> R.jobIds, logLevels |-> R.logLevels, messageTypes |-> R.messageTypes,
                system |-> R.system]
    BY DEF filtersFromJson
  <1> HIDE DEF R, types
  <1>8. R.messageTypes = ts
    <2>1. \A i \in 1..Len(ts) : stringToMessageType(<<ts[i]>>) = ts[i]
      <3> SUFFICES ASSUME NEW i \in 1..Len(ts) PROVE stringToMessageType(<<ts[i]>>) = ts[i]
        OBVIOUS
      <3> DEFINE w == ts[i]
      <3>1. w \in MessageTypeNames
        BY <1>4
      <3> HIDE DEF w
      <3>2. Len(<<w>>) = 1 /\ <<w>>[1] = w
        OBVIOUS
      <3>3. stringToMessageType(<<w>>) = w
        BY <3>1, <3>2, Zenon DEF stringToMessageType, stringToNamed
      <3> QED BY <3>3 DEF w
    <2>2. DOMAIN types = 1..Len(ts) /\ \A i \in 1..Len(ts) : types[i] = <<ts[i]>>
      BY <1>6
    <2>3. ts = [i \in 1..Len(ts) |-> ts[i]]
      BY <1>4
    <2> HIDE DEF ts
    <2>4. R.messageTypes = [i \in 1..Len(ts) |-> ts[i]]
      <3>1. R.messageTypes = [i \in DOMAIN types |-> stringToMessageType(types[i])]
        BY <1>7
      <3>2. DOMAIN types = 1..Len(ts)
        BY <2>2
      <3>3. \A i \in 1..Len(ts) : stringToMessageType(types[i]) = ts[i]
        BY <2>1, <2>2
      <3> QED BY <3>1, <3>2, <3>3
    <2> QED BY <2>3, <2>4
  <1>9. R.system = f.system
    <2> DEFINE w == SystemWord(f)
               words == {"true", "false"}
    <2>1. w \in words /\ w \in Symbols
      <3>1. w \in words
        BY Zenon DEF SystemWord
      <3> QED BY <3>1, WordsAre
    <2>2. (w = "true") = f.system
      <3>1. CASE f.system
        BY <3>1, Zenon DEF SystemWord
      <3>2. CASE ~f.system
        <4>1. w = "false"
          BY <3>2, Zenon DEF SystemWord
        <4>2. w # "true"
          BY <4>1
        <4> QED BY <1>4, <3>2, <4>2
      <3> QED BY <3>1, <3>2
    <2> HIDE DEF w, words
    <2>3. Amid(T, "includeSystemNotifications", <<w>>)
      BY <1>3 DEF w
    <2>4. readWord(T, "includeSystemNotifications", words) = {w}
      BY <1>5, <2>1, <2>3, WordRead
    <2>5. Given(readWord(T, "includeSystemNotifications", words), "true") = w
      BY <2>4, GivenIs
    <2>6. R.system = (Given(readWord(T, "includeSystemNotifications", words), "true") = "true")
      BY <1>7, Zenon DEF words
    <2> QED BY <2>2, <2>5, <2>6, Zenon
  <1>10. ASSUME isValid(f) PROVE R = f
    <2>1. /\ \A i \in DOMAIN f.jobIds : Len(f.jobIds[i]) = 1 /\ f.jobIds[i][1] \in idWords
          /\ \A i \in DOMAIN f.logLevels :
                Len(f.logLevels[i]) = 1
                /\ f.logLevels[i][1] \in {"DEBUG", "INFO", "WARN", "ERROR", "FATAL"}
      BY <1>10, Zenon DEF isValid, validateJobId, validateLogLevel
    <2>2. \A w \in idWords : w \notin Marks
      BY WordsAssumption
    <2>3. \A w \in {"DEBUG", "INFO", "WARN", "ERROR", "FATAL"} : w \notin Marks
      BY Zenon DEF Marks
    <2>4. ASSUME NEW list \in Seq(AnyText), NEW k \in {"jobIds", "logLevels"},
                 \A i \in DOMAIN list : Len(list[i]) = 1 /\ list[i][1] \notin Marks,
                 Amid(T, k, TextsOf(list))
          PROVE  Given(readList(T, k), <<>>) = list
      <3>1. \A i \in 1..Len(list) : Len(list[i]) = 1 /\ list[i][1] \notin Marks
        BY <2>4
      <3>2. Amid(T, k, JList([i \in DOMAIN list |-> JText(list[i])]))
        BY <2>4, Zenon DEF TextsOf
      <3>3. k \in Symbols /\ k \notin Marks
        BY <1>5
      <3>4. readList(T, k) = {list}
        BY <3>1, <3>2, <3>3, SinglesRead
      <3> QED BY <3>4, GivenIs
    <2>5. R.jobIds = f.jobIds
      <3>1. \A i \in DOMAIN f.jobIds : Len(f.jobIds[i]) = 1 /\ f.jobIds[i][1] \notin Marks
        BY <2>1, <2>2
      <3> QED BY <1>3, <1>4, <1>7, <2>4, <3>1
    <2>6. R.logLevels = f.logLevels
      <3>1. \A i \in DOMAIN f.logLevels : Len(f.logLevels[i]) = 1 /\ f.logLevels[i][1] \notin Marks
        BY <2>1, <2>3
      <3> QED BY <1>3, <1>4, <1>7, <2>4, <3>1
    <2>7. f = [jobIds |-> f.jobIds, logLevels |-> f.logLevels, messageTypes |-> f.messageTypes,
               system |-> f.system]
      BY DEF IsFilters
    <2> QED BY <1>7, <1>8, <1>9, <2>5, <2>6, <2>7
  <1>11. SameFilters(f, R)
    BY <1>8, <1>9, <1>10 DEF SameFilters
  <1> QED BY <1>11 DEF R, T

-----------------------------------------------------------------------------
(* A record of any kind is read as it was written.                          *)
LEMMA RecordIsRead ==
    ASSUME NEW kind, NEW v, IsRecord(kind, v)
    PROVE  ReadsBack(kind, v)
  <1>1. CASE kind = "metrics" /\ IsMetrics(v)
    <2>1. SameMetrics(v, metricsFromJson(metricsToJson(v)))
      BY <1>1, MetricsSame
    <2> QED BY <1>1, <2>1, Zenon DEF ReadsBack
  <1>2. CASE kind = "update" /\ IsUpdate(v)
    <2>1. SameUpdate(v, updateFromJson(updateToJson(v)))
      BY <1>2, UpdateSame
    <2> QED BY <1>2, <2>1, Zenon DEF ReadsBack
  <1>3. CASE kind = "data" /\ IsData(v)
    <2>1. SameData(v, dataFromJson(dataToJson(v)))
      BY <1>3, DataSame
    <2> QED BY <1>3, <2>1, Zenon DEF ReadsBack
  <1>4. CASE kind = "log" /\ IsLog(v)
    <2>1. SameLog(v, logFromJson(logToJson(v)))
      BY <1>4, LogSame
    <2> QED BY <1>4, <2>1, Zenon DEF ReadsBack
  <1>5. CASE kind = "message" /\ IsMessage(v)
    <2>1. SameMessage(v, wsMessageFromJson(wsMessageToJson(v)))
      BY <1>5, MessageSame
    <2> QED BY <1>5, <2>1, Zenon DEF ReadsBack
  <1>6. CASE kind = "filters" /\ IsFilters(v)
    <2>1. SameFilters(v, filtersFromJson(filtersToJson(v)))
      BY <1>6, FiltersSame
    <2> QED BY <1>6, <2>1, Zenon DEF ReadsBack
  <1> QED BY <1>1, <1>2, <1>3, <1>4, <1>5, <1>6, Zenon DEF IsRecord

(* The record that is written is one of the samples, and stays so.          *)
SampleInv == part = "records" => sample \in Samples

(* In every behaviour of the parts that handle requests, the record that is  *)
(* written as JSON is read back: plain texts, names, counts, metrics, and    *)
(* times to the millisecond, whatever the other texts of the record hold.    *)
THEOREM RecordsReadBack == Spec => []ReadBack
  <1>1. Init => SampleInv
    BY Zenon DEF Init, SampleInv
  <1>2. SampleInv /\ [Next]_requests => SampleInv'
    BY Zenon DEF Next, SampleInv, requests
  <1>3. SampleInv => ReadBack
    <2> SUFFICES ASSUME SampleInv, part = "records"
                 PROVE  ReadsBack(sample.kind, sample.value)
      BY Zenon DEF ReadBack
    <2>1. IsRecord(sample.kind, sample.value)
      BY SamplesAssumption, Zenon DEF SampleInv
    <2> QED BY <2>1, RecordIsRead, Zenon
  <1> QED BY <1>1, <1>2, <1>3, PTL DEF Spec
=============================================================================
