--------------------------- MODULE ModulesProofs ---------------------------
(***************************************************************************)
(* The init functions of the three modules, their goto ladders and their   *)
(* exit functions fit together, for every number of devices.               *)
(*                                                                         *)
(* Nothing here has a state: the lemmas are about the sequences of steps   *)
(* that module Modules builds.  Undoes(s, R) is what the kernel needs of a *)
(* sequence of releases; it holds of one step, of two sequences in a row,  *)
(* and so, device after device, of err_unwind.  Both device modules share  *)
(* one shape, Ladder: one step, then three steps per device.               *)
(***************************************************************************)
EXTENDS Modules, SequenceTheorems, TLAPS

-----------------------------------------------------------------------------
(* The operators *)

\* The two parts of a pair.
LEMMA PairIn ==
    ASSUME NEW A, NEW B, NEW r \in A \X B
    PROVE  \E a \in A, b \in B : r = <<a, b>>
  OBVIOUS

\* The places of a concatenation.
LEMMA ConcatIs ==
    ASSUME NEW S, NEW s \in Seq(S), NEW t \in Seq(S)
    PROVE  /\ s \o t \in Seq(S) /\ Len(s \o t) = Len(s) + Len(t)
           /\ \A i \in 1..Len(s) : (s \o t)[i] = s[i]
           /\ \A i \in 1..Len(t) : (s \o t)[Len(s) + i] = t[i]
  OBVIOUS

\* What each kind of resource hangs from.
LEMMA UnderKind ==
    ASSUME NEW o
    PROVE  /\ \A k \in {"root_attrs", "buses", "devices"} :
                 Under(<<k, o>>) = {<<"root", "core">>}
           /\ Under(<<"bus0", o>>) = {<<"buses", "core">>}
           /\ Under(<<"bus_attrs", o>>) = {<<"bus0", "core">>}
           /\ \A k \in {"bus", "root", "tty", "array"} : Under(<<k, o>>) = {}
           /\ Under(<<"dev", o>>) = {<<"bus", "core">>, <<"devices", "core">>}
           /\ \A k \in {"nb", "wire", "chip"} : Under(<<k, o>>) = {<<"dev", o>>}
           /\ Under(<<"tty_reg", o>>) =
                 {<<"tty", "uart">>} \cup {<<"dev", d>> : d \in SeqSet(Uarts)}
  BY DEF Under

\* A step releases one resource.
LEMMA UndoesOne ==
    ASSUME NEW k, NEW o
    PROVE  Undoes(<<Put(k, o)>>, {<<k, o>>})
  BY DEF Undoes, Put, Step

\* Nothing to release.
LEMMA UndoesNone == Undoes(<<>>, {})
  BY DEF Undoes

\* One sequence of releases after the other, if nothing of the second hangs
\* from what the first releases.
LEMMA UndoesBoth ==
    ASSUME NEW S, NEW s \in Seq(S), NEW t \in Seq(S), NEW Q, NEW R,
           Undoes(s, Q), Undoes(t, R), Q \cap R = {},
           \A q \in Q, r \in R : q \notin Under(r)
    PROVE  Undoes(s \o t, Q \cup R)
  <1> DEFINE u == s \o t
  <1>1. /\ u \in Seq(S) /\ Len(u) = Len(s) + Len(t)
        /\ \A i \in 1..Len(s) : u[i] = s[i]
        /\ \A i \in 1..Len(t) : u[Len(s) + i] = t[i]
    OBVIOUS
  <1>2. Len(s) \in Nat /\ Len(t) \in Nat
    OBVIOUS
  <1>3. \A i \in 1..Len(u) : \/ i \in 1..Len(s) /\ u[i] = s[i]
                             \/ i - Len(s) \in 1..Len(t) /\ u[i] = t[i - Len(s)]
    BY <1>1, <1>2
  <1> HIDE DEF u
  <1>4. \A i \in 1..Len(u) : u[i].act = "put" /\ u[i].res \in Q \cup R
    BY <1>3 DEF Undoes
  <1>5. \A r \in Q \cup R : \E i \in 1..Len(u) : u[i].res = r
    <2>1. ASSUME NEW r \in Q
          PROVE  \E i \in 1..Len(u) : u[i].res = r
      <3>1. PICK i \in 1..Len(s) : s[i].res = r
        BY DEF Undoes
      <3> QED
        BY <1>1, <1>2, <3>1
    <2>2. ASSUME NEW r \in R
          PROVE  \E i \in 1..Len(u) : u[i].res = r
      <3>1. PICK i \in 1..Len(t) : t[i].res = r
        BY DEF Undoes
      <3>2. Len(s) + i \in 1..Len(u)
        BY <1>1, <1>2
      <3> QED
        BY <1>1, <3>1, <3>2
    <2> QED
      BY <2>1, <2>2
  <1>6. ASSUME NEW i \in 1..Len(u), NEW j \in 1..Len(u), i < j
        PROVE  u[i].res # u[j].res /\ u[i].res \notin Under(u[j].res)
    <2>1. CASE i \in 1..Len(s) /\ j \in 1..Len(s)
      BY <1>1, <1>6, <2>1 DEF Undoes
    <2>2. CASE i \in 1..Len(s) /\ j - Len(s) \in 1..Len(t) /\ u[j] = t[j - Len(s)]
      <3>1. u[i].res \in Q /\ u[j].res \in R
        BY <1>1, <2>2 DEF Undoes
      <3> QED
        BY <3>1
    <2>3. CASE i - Len(s) \in 1..Len(t) /\ j - Len(s) \in 1..Len(t)
               /\ u[i] = t[i - Len(s)] /\ u[j] = t[j - Len(s)]
      <3>1. PICK p \in 1..Len(t), q \in 1..Len(t) : p = i - Len(s) /\ q = j - Len(s)
        BY <2>3
      <3>2. p < q
        BY <1>2, <1>6, <3>1
      <3>3. u[i] = t[p] /\ u[j] = t[q]
        BY <2>3, <3>1
      <3> QED
        BY <3>2, <3>3 DEF Undoes
    <2>4. ~(i - Len(s) \in 1..Len(t) /\ j \in 1..Len(s))
      BY <1>2, <1>6
    <2> QED
      BY <1>3, <2>1, <2>2, <2>3, <2>4
  <1> QED
    BY <1>4, <1>5, <1>6 DEF Undoes, u

\* The rest of a sequence of releases releases the rest.
LEMMA UndoesTail ==
    ASSUME NEW S, NEW s \in Seq(S), NEW R, Undoes(s, R), s # <<>>
    PROVE  /\ Head(s).act = "put" /\ Head(s).res \in R
           /\ Tail(s) \in Seq(S)
           /\ Undoes(Tail(s), R \ {Head(s).res})
           /\ \A r \in R : Head(s).res \notin Under(r) \/ r = Head(s).res
  <1>1. Len(s) \in Nat \ {0} /\ Head(s) = s[1] /\ Len(Tail(s)) = Len(s) - 1
        /\ \A i \in 1..Len(Tail(s)) : Tail(s)[i] = s[i + 1]
    OBVIOUS
  <1>2. Tail(s) \in Seq(S)
    OBVIOUS
  <1> DEFINE t == Tail(s)
  <1> HIDE DEF t
  <1>3. \A i \in 1..Len(t) : i + 1 \in 2..Len(s) /\ t[i] = s[i + 1]
    BY <1>1 DEF t
  <1>4. \A i \in 2..Len(s) : i - 1 \in 1..Len(t) /\ t[i - 1] = s[i]
    <2> TAKE i \in 2..Len(s)
    <2>1. i - 1 \in 1..Len(t) /\ (i - 1) + 1 = i
      BY <1>1 DEF t
    <2> QED
      BY <1>3, <2>1
  <1>5. \A i \in 2..Len(s) : s[1].res # s[i].res /\ s[1].res \notin Under(s[i].res)
    BY <1>1 DEF Undoes
  <1>6. s[1].act = "put" /\ s[1].res \in R
    BY <1>1 DEF Undoes
  <1>7. \A i \in 1..Len(t) : t[i].act = "put" /\ t[i].res \in R \ {s[1].res}
    BY <1>1, <1>3, <1>5 DEF Undoes
  <1>8. ASSUME NEW r \in R \ {s[1].res}
        PROVE  /\ \E i \in 1..Len(t) : t[i].res = r
               /\ s[1].res \notin Under(r)
    <2>1. PICK i \in 1..Len(s) : s[i].res = r
      BY DEF Undoes
    <2>2. i \in 2..Len(s)
      BY <1>1, <2>1
    <2> QED
      BY <1>4, <1>5, <2>1, <2>2
  <1>9. ASSUME NEW i \in 1..Len(t), NEW j \in 1..Len(t), i < j
        PROVE  t[i].res # t[j].res /\ t[i].res \notin Under(t[j].res)
    <2>1. i + 1 < j + 1 /\ i + 1 \in 1..Len(s) /\ j + 1 \in 1..Len(s)
      BY <1>1, <1>3, <1>9
    <2> QED
      BY <1>3, <2>1 DEF Undoes
  <1>10. Undoes(t, R \ {s[1].res})
    BY <1>7, <1>8, <1>9 DEF Undoes
  <1> QED
    BY <1>1, <1>2, <1>6, <1>8, <1>10 DEF t

\* The places 3i - 2, 3i - 1 and 3i of the device i in Each.
LEMMA Thirds ==
    ASSUME NEW n \in Nat
    PROVE  /\ \A i \in 1..n : \E k, l, m \in 1..(3 * n) :
                /\ k = 3 * i - 2 /\ ((k - 1) % 3) + 1 = 1 /\ ((k - 1) \div 3) + 1 = i
                /\ l = 3 * i - 1 /\ ((l - 1) % 3) + 1 = 2 /\ ((l - 1) \div 3) + 1 = i
                /\ m = 3 * i /\ ((m - 1) % 3) + 1 = 3 /\ ((m - 1) \div 3) + 1 = i
           /\ \A k \in 1..(3 * n) : \E i \in 1..n : k \in {3 * i - 2, 3 * i - 1, 3 * i}
  <1>1. ASSUME NEW i \in 1..n
        PROVE  \E k, l, m \in 1..(3 * n) :
                /\ k = 3 * i - 2 /\ ((k - 1) % 3) + 1 = 1 /\ ((k - 1) \div 3) + 1 = i
                /\ l = 3 * i - 1 /\ ((l - 1) % 3) + 1 = 2 /\ ((l - 1) \div 3) + 1 = i
                /\ m = 3 * i /\ ((m - 1) % 3) + 1 = 3 /\ ((m - 1) \div 3) + 1 = i
    <2>1. PICK k \in 1..(3 * n) : k = 3 * i - 2
      OBVIOUS
    <2>2. PICK l \in 1..(3 * n) : l = 3 * i - 1
      OBVIOUS
    <2>3. PICK m \in 1..(3 * n) : m = 3 * i
      OBVIOUS
    <2> WITNESS k \in 1..(3 * n), l \in 1..(3 * n), m \in 1..(3 * n)
    <2> QED
      BY <2>1, <2>2, <2>3
  <1>2. ASSUME NEW k \in 1..(3 * n)
        PROVE  \E i \in 1..n : k \in {3 * i - 2, 3 * i - 1, 3 * i}
    <2>1. PICK i \in 1..n : i = ((k - 1) \div 3) + 1
      OBVIOUS
    <2> QED
      BY <2>1
  <1> QED
    BY <1>1, <1>2

\* Where the steps of Each are.
LEMMA EachSteps ==
    ASSUME NEW act \in {"get", "put"}, NEW K \in Seq(Kinds), Len(K) = 3,
           NEW devs \in Seq(Devs)
    PROVE  /\ Each(act, K, devs) \in Seq(Steps)
           /\ Len(Each(act, K, devs)) = 3 * Len(devs)
           /\ \A i \in 1..Len(devs) :
                 /\ Each(act, K, devs)[3 * i - 2] = Step(act, K[1], devs[i])
                 /\ Each(act, K, devs)[3 * i - 1] = Step(act, K[2], devs[i])
                 /\ Each(act, K, devs)[3 * i] = Step(act, K[3], devs[i])
  <1>1. Len(devs) \in Nat
    OBVIOUS
  <1> DEFINE s == Each(act, K, devs)
  <1>2. s = [k \in 1..(3 * Len(devs)) |->
                Step(act, K[((k - 1) % 3) + 1], devs[((k - 1) \div 3) + 1])]
    BY DEF Each
  <1> HIDE DEF s
  <1>3. \A q \in 1..(3 * Len(devs)) :
           s[q] = Step(act, K[((q - 1) % 3) + 1], devs[((q - 1) \div 3) + 1])
    BY <1>2
  <1>4. ASSUME NEW q \in 1..(3 * Len(devs))
        PROVE  s[q] \in Steps
    <2>1. PICK u \in 1..3, v \in 1..Len(devs) :
                u = ((q - 1) % 3) + 1 /\ v = ((q - 1) \div 3) + 1
      BY <1>1
    <2>2. s[q] = Step(act, K[u], devs[v])
      BY <1>3, <2>1, Zenon
    <2>3. K[u] \in Kinds
      BY ElementOfSeq
    <2>4. devs[v] \in Devs
      BY ElementOfSeq
    <2> QED
      BY <2>2, <2>3, <2>4 DEF Step, Steps
  <1>5. s \in Seq(Steps) /\ Len(s) = 3 * Len(devs)
    <2>1. s \in [1..(3 * Len(devs)) -> Steps]
      BY <1>2, <1>4
    <2> QED
      BY <1>1, <2>1
  <1>6. ASSUME NEW i \in 1..Len(devs)
        PROVE  /\ s[3 * i - 2] = Step(act, K[1], devs[i])
               /\ s[3 * i - 1] = Step(act, K[2], devs[i])
               /\ s[3 * i] = Step(act, K[3], devs[i])
    <2>1. PICK k, l, m \in 1..(3 * Len(devs)) :
                /\ k = 3 * i - 2 /\ ((k - 1) % 3) + 1 = 1 /\ ((k - 1) \div 3) + 1 = i
                /\ l = 3 * i - 1 /\ ((l - 1) % 3) + 1 = 2 /\ ((l - 1) \div 3) + 1 = i
                /\ m = 3 * i /\ ((m - 1) % 3) + 1 = 3 /\ ((m - 1) \div 3) + 1 = i
      BY <1>1, Thirds
    <2> QED
      BY <1>3, <2>1, Zenon
  <1> QED
    BY <1>5, <1>6 DEF s

\* Taking the devices down: of each its two uses, then the device.
LEMMA EachUndoes ==
    ASSUME NEW K \in Seq(Kinds), Len(K) = 3, K[1] \in {"nb", "wire", "chip"},
           K[2] \in {"nb", "wire", "chip"}, K[1] # K[2], K[3] = "dev",
           NEW devs \in Seq(Devs), Distinct(devs)
    PROVE  /\ Each("put", K, devs) \in Seq(Steps)
           /\ Undoes(Each("put", K, devs), SeqSet(K) \X SeqSet(devs))
  <1> DEFINE n == Len(devs)
             s == Each("put", K, devs)
  <1>1. /\ n \in Nat /\ s \in Seq(Steps) /\ Len(s) = 3 * n
        /\ \A i \in 1..n : /\ s[3 * i - 2] = Step("put", K[1], devs[i])
                           /\ s[3 * i - 1] = Step("put", K[2], devs[i])
                           /\ s[3 * i] = Step("put", K[3], devs[i])
    BY EachSteps
  <1>2. \A i \in 1..n : devs[i] \in SeqSet(devs)
    BY DEF SeqSet
  <1>3. \A i, j \in 1..n : devs[i] = devs[j] => i = j
    BY DEF Distinct
  <1>4. SeqSet(K) = {K[1], K[2], K[3]}
    BY DEF SeqSet
  <1>5. \A x \in SeqSet(devs) : \E i \in 1..n : x = devs[i]
    BY DEF SeqSet
  <1> HIDE DEF s, n
  <1>6. Len(s) = 3 * n
    BY <1>1
  <1>7. ASSUME NEW i \in 1..n
        PROVE  \E u, v, w \in 1..Len(s) :
                  /\ u = 3 * i - 2 /\ s[u].act = "put" /\ s[u].res = <<K[1], devs[i]>>
                  /\ v = 3 * i - 1 /\ s[v].act = "put" /\ s[v].res = <<K[2], devs[i]>>
                  /\ w = 3 * i /\ s[w].act = "put" /\ s[w].res = <<K[3], devs[i]>>
    <2>1. n \in Nat
      BY <1>1
    <2>2. PICK u, v, w \in 1..Len(s) : u = 3 * i - 2 /\ v = 3 * i - 1 /\ w = 3 * i
      BY <1>6, <2>1
    <2>3. /\ s[u] = Step("put", K[1], devs[i]) /\ s[v] = Step("put", K[2], devs[i])
          /\ s[w] = Step("put", K[3], devs[i])
      BY <1>1, <2>2, Zenon
    <2>4. \A k : Step("put", k, devs[i]).act = "put"
                 /\ Step("put", k, devs[i]).res = <<k, devs[i]>>
      BY DEF Step
    <2> QED
      BY <2>2, <2>3, <2>4, ZenonT(30)
  <1>8. ASSUME NEW p \in 1..Len(s)
        PROVE  \E i \in 1..n :
                  /\ s[p].act = "put"
                  /\ \/ p = 3 * i - 2 /\ s[p].res = <<K[1], devs[i]>>
                     \/ p = 3 * i - 1 /\ s[p].res = <<K[2], devs[i]>>
                     \/ p = 3 * i /\ s[p].res = <<K[3], devs[i]>>
    <2>1. PICK i \in 1..n : p \in {3 * i - 2, 3 * i - 1, 3 * i}
      BY <1>1, Thirds
    <2>2. PICK u, v, w \in 1..Len(s) :
                  /\ u = 3 * i - 2 /\ s[u].act = "put" /\ s[u].res = <<K[1], devs[i]>>
                  /\ v = 3 * i - 1 /\ s[v].act = "put" /\ s[v].res = <<K[2], devs[i]>>
                  /\ w = 3 * i /\ s[w].act = "put" /\ s[w].res = <<K[3], devs[i]>>
      BY <1>7
    <2>3. p = u \/ p = v \/ p = w
      BY <2>1, <2>2
    <2> QED
      BY <2>2, <2>3, Zenon
  <1>9. ASSUME NEW p \in 1..Len(s)
        PROVE  s[p].act = "put" /\ s[p].res \in SeqSet(K) \X SeqSet(devs)
    <2>1. PICK i \in 1..n, k \in SeqSet(K) : s[p].act = "put" /\ s[p].res = <<k, devs[i]>>
      BY <1>4, <1>8
    <2> QED
      BY <1>2, <2>1
  <1>10. ASSUME NEW r \in SeqSet(K) \X SeqSet(devs)
         PROVE  \E p \in 1..Len(s) : s[p].res = r
    <2>1. PICK k \in SeqSet(K), i \in 1..n : r = <<k, devs[i]>>
      BY <1>5
    <2> QED
      BY <1>4, <1>7, <2>1
  <1>11. ASSUME NEW p \in 1..Len(s), NEW q \in 1..Len(s), p < q
         PROVE  s[p].res # s[q].res /\ s[p].res \notin Under(s[q].res)
    <2>1. PICK i \in 1..n : \/ p = 3 * i - 2 /\ s[p].res = <<K[1], devs[i]>>
                            \/ p = 3 * i - 1 /\ s[p].res = <<K[2], devs[i]>>
                            \/ p = 3 * i /\ s[p].res = <<K[3], devs[i]>>
      BY <1>8
    <2>2. PICK j \in 1..n : \/ q = 3 * j - 2 /\ s[q].res = <<K[1], devs[j]>>
                            \/ q = 3 * j - 1 /\ s[q].res = <<K[2], devs[j]>>
                            \/ q = 3 * j /\ s[q].res = <<K[3], devs[j]>>
      BY <1>8
    <2>3. i \in Nat /\ j \in Nat
      BY <1>1
    <2>4. s[p].res # s[q].res
      <3> SUFFICES ASSUME s[p].res = s[q].res PROVE FALSE
        OBVIOUS
      <3>1. devs[i] = devs[j]
        BY <2>1, <2>2
      <3>2. i = j
        BY <1>3, <3>1
      <3>3. K[1] # K[3] /\ K[2] # K[3]
        OBVIOUS
      <3>4. \/ p = 3 * i - 2 /\ q = 3 * i - 2
            \/ p = 3 * i - 1 /\ q = 3 * i - 1
            \/ p = 3 * i /\ q = 3 * i
        BY <2>1, <2>2, <3>2, <3>3
      <3> QED
        BY <1>11, <2>3, <3>4
    <2>5. \/ Under(s[q].res) = {<<"dev", devs[j]>>} /\ q \in {3 * j - 2, 3 * j - 1}
          \/ Under(s[q].res) = {<<"bus", "core">>, <<"devices", "core">>}
      <3>1. /\ \A k \in {"nb", "wire", "chip"} : Under(<<k, devs[j]>>) = {<<"dev", devs[j]>>}
            /\ Under(<<"dev", devs[j]>>) = {<<"bus", "core">>, <<"devices", "core">>}
        BY UnderKind
      <3> QED
        BY <2>2, <3>1, Zenon
    <2>6. s[p].res \notin {<<"bus", "core">>, <<"devices", "core">>}
      BY <2>1
    <2>7. s[p].res # <<"dev", devs[j]>> \/ p = 3 * j
      BY <1>3, <2>1
    <2>8. ~(q \in {3 * j - 2, 3 * j - 1} /\ p = 3 * j)
      BY <1>11, <2>3
    <2> QED
      BY <2>4, <2>5, <2>6, <2>7, <2>8
  <1> QED
    BY <1>1, <1>9, <1>10, <1>11 DEF Undoes, s

\* The same from the last device back to the first.
LEMMA BackUndoes ==
    ASSUME NEW K \in Seq(Kinds), Len(K) = 3, K[1] \in {"nb", "wire", "chip"},
           K[2] \in {"nb", "wire", "chip"}, K[1] # K[2], K[3] = "dev",
           NEW devs \in Seq(Devs), Distinct(devs)
    PROVE  /\ Backwards("put", K, devs) \in Seq(Steps)
           /\ Undoes(Backwards("put", K, devs), SeqSet(K) \X SeqSet(devs))
  <1> DEFINE n == Len(devs)
             r == [i \in 1..n |-> devs[n + 1 - i]]
             s == Each("put", K, r)
  <1>1. n \in Nat
    OBVIOUS
  <1>2. r \in Seq(Devs) /\ Len(r) = n
    OBVIOUS
  <1>3. \A i \in 1..n : n + 1 - i \in 1..n /\ r[i] = devs[n + 1 - i]
    OBVIOUS
  <1> HIDE DEF r, n
  <1>4. \A i, j \in 1..n : devs[i] = devs[j] => i = j
    BY DEF Distinct, n
  <1>5. Distinct(r)
    <2> SUFFICES ASSUME NEW i \in 1..n, NEW j \in 1..n, r[i] = r[j]
                 PROVE  i = j
      BY <1>2 DEF Distinct
    <2>1. PICK u \in 1..n, v \in 1..n : u = n + 1 - i /\ v = n + 1 - j
      BY <1>1
    <2>2. devs[u] = devs[v]
      BY <1>3, <2>1
    <2>3. u = v
      BY <1>4, <2>2
    <2> QED
      BY <1>1, <2>1, <2>3
  <1>6. SeqSet(r) = SeqSet(devs)
    <2>1. ASSUME NEW i \in 1..n
          PROVE  \E j \in 1..n : r[j] = devs[i]
      <3>1. PICK j \in 1..n : j = n + 1 - i
        BY <1>1
      <3>2. n + 1 - j = i
        BY <1>1, <3>1
      <3> QED
        BY <1>3, <3>2
    <2>2. SeqSet(r) = {r[i] : i \in 1..n}
      BY <1>2 DEF SeqSet
    <2>3. SeqSet(devs) = {devs[i] : i \in 1..n}
      BY DEF SeqSet, n
    <2>4. \A i \in 1..n : \E j \in 1..n : r[i] = devs[j]
      BY <1>3
    <2>5. \A x \in SeqSet(r) : x \in SeqSet(devs)
      BY <2>2, <2>3, <2>4
    <2>6. \A x \in SeqSet(devs) : x \in SeqSet(r)
      BY <2>1, <2>2, <2>3
    <2> QED
      BY <2>5, <2>6
  <1>7. s \in Seq(Steps) /\ Undoes(s, SeqSet(K) \X SeqSet(r))
    BY <1>2, <1>5, EachUndoes
  <1>8. Backwards("put", K, devs) = s
    BY DEF Backwards, r, n
  <1> HIDE DEF s
  <1> QED
    BY <1>6, <1>7, <1>8, Zenon

\* The first n devices.
LEMMA Prefix ==
    ASSUME NEW devs \in Seq(Devs), Distinct(devs), NEW n \in 0..Len(devs)
    PROVE  /\ SubSeq(devs, 1, n) \in Seq(Devs) /\ Distinct(SubSeq(devs, 1, n))
           /\ SeqSet(SubSeq(devs, 1, n)) = {devs[i] : i \in 1..n}
           /\ n = Len(devs) => SubSeq(devs, 1, n) = devs
  <1> DEFINE t == SubSeq(devs, 1, n)
  <1>1. t \in Seq(Devs) /\ Len(t) = n /\ \A i \in 1..n : t[i] = devs[i]
    BY SubSeqProperties
  <1>2. n = Len(devs) => t = devs
    BY SubSeqProperties
  <1> HIDE DEF t
  <1>3. Distinct(t)
    BY <1>1 DEF Distinct
  <1>4. SeqSet(t) = {devs[i] : i \in 1..n}
    BY <1>1 DEF SeqSet
  <1> QED
    BY <1>1, <1>2, <1>3, <1>4 DEF t

\* The error path of a module: the devices, then what the module had first.
LEMMA UnwindUndoes ==
    ASSUME NEW K \in Seq(Kinds), Len(K) = 3, K[1] \in {"nb", "wire", "chip"},
           K[2] \in {"nb", "wire", "chip"}, K[1] # K[2], K[3] = "dev",
           NEW devs \in Seq(Devs), Distinct(devs),
           NEW t \in {"tty", "array"}, NEW m \in Mods
    PROVE  /\ Backwards("put", K, devs) \o <<Put(t, m)>> \in Seq(Steps)
           /\ Undoes(Backwards("put", K, devs) \o <<Put(t, m)>>,
                     (SeqSet(K) \X SeqSet(devs)) \cup {<<t, m>>})
  <1> DEFINE s == Backwards("put", K, devs)
             Q == SeqSet(K) \X SeqSet(devs)
  <1>1. s \in Seq(Steps) /\ Undoes(s, Q)
    BY BackUndoes
  <1>2. <<Put(t, m)>> \in Seq(Steps)
    BY DEF Put, Step, Steps, Kinds
  <1>3. Undoes(<<Put(t, m)>>, {<<t, m>>})
    BY UndoesOne
  <1>4. t \notin SeqSet(K)
    BY DEF SeqSet
  <1>5. Q \cap {<<t, m>>} = {}
    BY <1>4
  <1>6. \A q \in Q, r \in {<<t, m>>} : q \notin Under(r)
    BY UnderKind
  <1> HIDE DEF s, Q
  <1>7. Undoes(s \o <<Put(t, m)>>, Q \cup {<<t, m>>})
    BY <1>1, <1>2, <1>3, <1>5, <1>6, UndoesBoth
  <1>8. s \o <<Put(t, m)>> \in Seq(Steps)
    BY <1>1, <1>2, ConcatProperties
  <1> QED
    BY <1>7, <1>8 DEF s, Q

\* What a failing step of a device undoes itself.
LEMMA UndoUndoes ==
    ASSUME NEW d \in Devs, NEW x \in {"nb", "chip"}
    PROVE  /\ All("put", <<>>, d) \in Seq(Steps) /\ Undoes(All("put", <<>>, d), {})
           /\ All("put", <<"dev">>, d) \in Seq(Steps)
           /\ Undoes(All("put", <<"dev">>, d), {<<"dev", d>>})
           /\ All("put", <<x, "dev">>, d) \in Seq(Steps)
           /\ Undoes(All("put", <<x, "dev">>, d), {<<x, d>>, <<"dev", d>>})
  <1>1. All("put", <<>>, d) = <<>>
    BY DEF All
  <1>2. All("put", <<"dev">>, d) = <<Put("dev", d)>>
    BY DEF All, Put
  <1>3. All("put", <<x, "dev">>, d) = <<Put(x, d)>> \o <<Put("dev", d)>>
    BY DEF All, Put
  <1>4. <<Put(x, d)>> \in Seq(Steps) /\ <<Put("dev", d)>> \in Seq(Steps) /\ <<>> \in Seq(Steps)
    BY DEF Put, Step, Steps, Kinds
  <1>5. Undoes(<<Put(x, d)>>, {<<x, d>>}) /\ Undoes(<<Put("dev", d)>>, {<<"dev", d>>})
    BY UndoesOne
  <1>6. \A q \in {<<x, d>>}, r \in {<<"dev", d>>} : q # r /\ q \notin Under(r)
    <2>1. Under(<<"dev", d>>) = {<<"bus", "core">>, <<"devices", "core">>}
      BY UnderKind
    <2> QED
      BY <2>1
  <1>7. Undoes(<<Put(x, d)>> \o <<Put("dev", d)>>, {<<x, d>>} \cup {<<"dev", d>>})
    BY <1>4, <1>5, <1>6, UndoesBoth
  <1>8. {<<x, d>>} \cup {<<"dev", d>>} = {<<x, d>>, <<"dev", d>>}
    OBVIOUS
  <1>9. <<Put(x, d)>> \o <<Put("dev", d)>> \in Seq(Steps)
    BY <1>4, ConcatProperties
  <1> QED
    BY <1>1, <1>2, <1>3, <1>4, <1>5, <1>7, <1>8, <1>9, UndoesNone

\* Nothing of one device hangs from another's.
LEMMA Apart ==
    ASSUME NEW a \in {"nb", "wire", "chip", "dev"}, NEW d, NEW t \in {"tty", "array"}, NEW m,
           NEW b \in {"nb", "wire", "chip", "dev"}, NEW e, d # e
    PROVE  /\ <<a, d>> # <<b, e>> /\ <<a, d>> \notin Under(<<b, e>>)
           /\ <<a, d>> # <<t, m>> /\ <<a, d>> \notin Under(<<t, m>>)
  <1>1. /\ \A k \in {"nb", "wire", "chip"} : Under(<<k, e>>) = {<<"dev", e>>}
        /\ Under(<<"dev", e>>) = {<<"bus", "core">>, <<"devices", "core">>}
    BY UnderKind
  <1>2. Under(<<t, m>>) = {}
    BY UnderKind
  <1> QED
    BY <1>1, <1>2

-----------------------------------------------------------------------------
(* The init functions *)

\* L acquires t for the module m, then the kinds of K for each device of devs.
Ladder(L, t, m, K, devs) ==
    /\ L \in Seq(Steps) /\ 3 * Len(devs) + 1 <= Len(L)
    /\ L[1] = Get(t, m)
    /\ \A i \in 1..Len(devs) : /\ L[3 * i - 1] = Get(K[1], devs[i])
                               /\ L[3 * i] = Get(K[2], devs[i])
                               /\ L[3 * i + 1] = Get(K[3], devs[i])

\* What the first k steps of L have acquired; the kinds of K for the devices
\* before device i.
Got(L, k) == {L[j].res : j \in 1..k}
Below(K, devs, i) == SeqSet(K) \X {devs[j] : j \in 1..(i - 1)}

\* Step k is one of device i, and finds acquired all of the devices before it,
\* and its own steps before this one.
Rung(L, t, m, K, devs, k, i) ==
    \/ /\ k = 3 * i - 1 /\ L[k] = Get(K[1], devs[i])
       /\ Got(L, k - 1) = Below(K, devs, i) \cup {<<t, m>>}
    \/ /\ k = 3 * i /\ L[k] = Get(K[2], devs[i])
       /\ Got(L, k - 1) = (Below(K, devs, i) \cup {<<t, m>>}) \cup {<<K[1], devs[i]>>}
    \/ /\ k = 3 * i + 1 /\ L[k] = Get(K[3], devs[i])
       /\ Got(L, k - 1) = (Below(K, devs, i) \cup {<<t, m>>})
                              \cup {<<K[1], devs[i]>>, <<K[2], devs[i]>>}

\* How the init functions of the two device modules begin.
LEMMA LadderIs ==
    ASSUME NEW t \in Kinds, NEW m \in Mods, NEW K \in Seq(Kinds), Len(K) = 3,
           NEW devs \in Seq(Devs), NEW e \in Seq(Steps)
    PROVE  LET L == <<Get(t, m)>> \o Each("get", K, devs) \o e IN
           /\ Ladder(L, t, m, K, devs) /\ Len(L) = 3 * Len(devs) + 1 + Len(e)
           /\ \A i \in 1..Len(e) : L[3 * Len(devs) + 1 + i] = e[i]
  <1> DEFINE g == <<Get(t, m)>>
             s == Each("get", K, devs)
             L == g \o s \o e
             n == Len(devs)
  <1>1. /\ s \in Seq(Steps) /\ Len(s) = 3 * n
        /\ \A i \in 1..n : /\ s[3 * i - 2] = Step("get", K[1], devs[i])
                           /\ s[3 * i - 1] = Step("get", K[2], devs[i])
                           /\ s[3 * i] = Step("get", K[3], devs[i])
    BY EachSteps
  <1>2. g \in Seq(Steps) /\ Len(g) = 1 /\ g[1] = Get(t, m)
    BY DEF Get, Step, Steps
  <1>3. n \in Nat /\ Len(e) \in Nat
    OBVIOUS
  <1> HIDE DEF s, g, n
  <1>4. PICK gs \in Seq(Steps) : gs = g \o s
    BY <1>1, <1>2, ConcatProperties
  <1>5. /\ Len(gs) = 3 * n + 1 /\ gs[1] = Get(t, m)
        /\ \A i \in 1..(3 * n) : gs[i + 1] = s[i]
    <2>1. Len(s) = 3 * n /\ s \in Seq(Steps)
      BY <1>1
    <2>2. /\ Len(gs) = Len(g) + Len(s)
          /\ \A i \in 1..Len(g) : gs[i] = g[i]
          /\ \A i \in 1..Len(s) : gs[Len(g) + i] = s[i]
      <3>1. g \in Seq(Steps) /\ s \in Seq(Steps)
        BY <1>2, <2>1
      <3>2. /\ Len(g \o s) = Len(g) + Len(s)
            /\ \A i \in 1..Len(g) : (g \o s)[i] = g[i]
            /\ \A i \in 1..Len(s) : (g \o s)[Len(g) + i] = s[i]
        BY <3>1, ConcatIs
      <3> QED
        BY <1>4, <3>2, Zenon
    <2> QED
      BY <1>2, <1>3, <2>1, <2>2
  <1>6. /\ L \in Seq(Steps) /\ Len(L) = 3 * n + 1 + Len(e)
        /\ \A i \in 1..(3 * n + 1) : L[i] = gs[i]
        /\ \A i \in 1..Len(e) : L[3 * n + 1 + i] = e[i]
    <2>1. L = gs \o e
      BY <1>4
    <2>2. Len(gs) = 3 * n + 1
      BY <1>5
    <2> HIDE DEF L
    <2>3. /\ L \in Seq(Steps) /\ Len(L) = Len(gs) + Len(e)
          /\ \A i \in 1..Len(gs) : L[i] = gs[i]
          /\ \A i \in 1..Len(e) : L[Len(gs) + i] = e[i]
      BY <2>1
    <2> QED
      BY <2>2, <2>3
  <1> HIDE DEF L
  <1>7. L[1] = Get(t, m)
    BY <1>3, <1>5, <1>6
  <1>8. ASSUME NEW i \in 1..n
        PROVE  /\ L[3 * i - 1] = Get(K[1], devs[i]) /\ L[3 * i] = Get(K[2], devs[i])
               /\ L[3 * i + 1] = Get(K[3], devs[i])
    <2>1. PICK u, v, w \in 1..(3 * n) : u = 3 * i - 2 /\ v = 3 * i - 1 /\ w = 3 * i
      BY <1>3
    <2>2. /\ u + 1 = 3 * i - 1 /\ v + 1 = 3 * i /\ w + 1 = 3 * i + 1
          /\ u + 1 \in 1..(3 * n + 1) /\ v + 1 \in 1..(3 * n + 1) /\ w + 1 \in 1..(3 * n + 1)
      BY <1>3, <2>1
    <2>3. s[u] = Get(K[1], devs[i]) /\ s[v] = Get(K[2], devs[i]) /\ s[w] = Get(K[3], devs[i])
      BY <1>1, <2>1, Zenon DEF Get
    <2>4. L[u + 1] = s[u] /\ L[v + 1] = s[v] /\ L[w + 1] = s[w]
      BY <1>5, <1>6, <2>2
    <2> QED
      BY <2>2, <2>3, <2>4, Zenon
  <1>9. 3 * n + 1 <= Len(L)
    BY <1>3, <1>6
  <1>10. Ladder(L, t, m, K, devs)
    BY <1>6, <1>7, <1>8, <1>9 DEF Ladder, n
  <1> QED
    BY <1>6, <1>10 DEF L, s, g, n

\* The places of a ladder, apart from the first.
LEMMA LadderPlaces ==
    ASSUME NEW n \in Nat
    PROVE  /\ \A j \in 1..(3 * n + 1) :
                 j = 1 \/ \E i \in 1..n : j \in {3 * i - 1, 3 * i, 3 * i + 1}
           /\ \A i \in 1..n : {3 * i - 1, 3 * i, 3 * i + 1} \subseteq 2..(3 * n + 1)
  <1>1. ASSUME NEW j \in 1..(3 * n + 1), j # 1
        PROVE  \E i \in 1..n : j \in {3 * i - 1, 3 * i, 3 * i + 1}
    <2>1. PICK k \in 1..(3 * n) : k = j - 1
      BY <1>1
    <2>2. PICK i \in 1..n : k \in {3 * i - 2, 3 * i - 1, 3 * i}
      BY Thirds
    <2> QED
      BY <2>1, <2>2
  <1> QED
    BY <1>1

\* What the first steps of a ladder have acquired when device i is next.
LEMMA LadderGot ==
    ASSUME NEW L, NEW t, NEW m, NEW K \in Seq(Kinds), Len(K) = 3, NEW devs \in Seq(Devs),
           Ladder(L, t, m, K, devs), NEW i \in 1..(Len(devs) + 1)
    PROVE  Got(L, 3 * i - 2) = Below(K, devs, i) \cup {<<t, m>>}
  <1> DEFINE n == Len(devs)
             A == {L[j].res : j \in 1..(3 * i - 2)}
             B == (SeqSet(K) \X {devs[j] : j \in 1..(i - 1)}) \cup {<<t, m>>}
  <1>1. n \in Nat /\ i \in 1..(n + 1)
    OBVIOUS
  <1>2. SeqSet(K) = {K[1], K[2], K[3]}
    BY DEF SeqSet
  <1>3. \A k, o : Get(k, o).res = <<k, o>>
    BY DEF Get, Step
  <1>4. /\ L[1].res = <<t, m>>
        /\ \A j \in 1..n : /\ L[3 * j - 1].res = <<K[1], devs[j]>>
                           /\ L[3 * j].res = <<K[2], devs[j]>>
                           /\ L[3 * j + 1].res = <<K[3], devs[j]>>
    <2>1. /\ L[1] = Get(t, m)
          /\ \A j \in 1..n : /\ L[3 * j - 1] = Get(K[1], devs[j])
                             /\ L[3 * j] = Get(K[2], devs[j])
                             /\ L[3 * j + 1] = Get(K[3], devs[j])
      BY DEF Ladder
    <2>2. L[1].res = <<t, m>>
      BY <1>3, <2>1
    <2>3. ASSUME NEW j \in 1..n
          PROVE  /\ L[3 * j - 1].res = <<K[1], devs[j]>>
                 /\ L[3 * j].res = <<K[2], devs[j]>>
                 /\ L[3 * j + 1].res = <<K[3], devs[j]>>
      BY <1>3, <2>1
    <2> QED
      BY <2>2, <2>3
  <1> HIDE DEF n
  <1>5. ASSUME NEW j \in 1..(3 * i - 2)
        PROVE  L[j].res \in B
    <2>1. CASE j = 1
      BY <1>4, <2>1
    <2>2. CASE j # 1
      <3>1. i - 1 \in Nat /\ j \in 1..(3 * (i - 1) + 1)
        BY <1>1
      <3>2. PICK k \in 1..(i - 1) : j \in {3 * k - 1, 3 * k, 3 * k + 1}
        BY <2>2, <3>1, LadderPlaces
      <3>3. k \in 1..n
        BY <1>1
      <3>4. L[j].res \in {<<K[1], devs[k]>>, <<K[2], devs[k]>>, <<K[3], devs[k]>>}
        BY <1>4, <3>2, <3>3
      <3> QED
        BY <1>2, <3>4
    <2> QED
      BY <2>1, <2>2
  <1>6. ASSUME NEW r \in B
        PROVE  r \in A
    <2>1. CASE r = <<t, m>>
      BY <1>1, <1>4, <2>1
    <2>2. CASE r \in SeqSet(K) \X {devs[j] : j \in 1..(i - 1)}
      <3>1. PICK k \in 1..(i - 1) : r \in {<<K[1], devs[k]>>, <<K[2], devs[k]>>, <<K[3], devs[k]>>}
        BY <1>2, <2>2
      <3>2. k \in 1..n
        BY <1>1
      <3>3. PICK u, v, w \in 1..(3 * i - 2) : u = 3 * k - 1 /\ v = 3 * k /\ w = 3 * k + 1
        BY <1>1
      <3>4. /\ L[u].res = <<K[1], devs[k]>> /\ L[v].res = <<K[2], devs[k]>>
            /\ L[w].res = <<K[3], devs[k]>>
        BY <1>4, <3>2, <3>3, Zenon
      <3> QED
        BY <3>1, <3>4
    <2> QED
      BY <2>1, <2>2
  <1>7. A = B
    BY <1>5, <1>6
  <1> QED
    BY <1>7 DEF Got, Below

\* One step more.
LEMMA GotOne ==
    ASSUME NEW L, NEW k \in Nat \ {0}
    PROVE  Got(L, k) = Got(L, k - 1) \cup {L[k].res}
  <1>1. \A j \in 1..k : j \in 1..(k - 1) \/ j = k
    OBVIOUS
  <1>2. k \in 1..k /\ \A j \in 1..(k - 1) : j \in 1..k
    OBVIOUS
  <1> QED
    BY <1>1, <1>2 DEF Got

\* What each step of a ladder finds acquired.
LEMMA LadderStep ==
    ASSUME NEW L, NEW t, NEW m, NEW K \in Seq(Kinds), Len(K) = 3, NEW devs \in Seq(Devs),
           Ladder(L, t, m, K, devs), NEW k \in 2..(3 * Len(devs) + 1)
    PROVE  \E i \in 1..Len(devs) : Rung(L, t, m, K, devs, k, i)
  <1> DEFINE n == Len(devs)
  <1>1. n \in Nat
    OBVIOUS
  <1>2. \A j, o : Get(j, o).res = <<j, o>>
    BY DEF Get, Step
  <1>3. PICK i \in 1..n : k \in {3 * i - 1, 3 * i, 3 * i + 1}
    <2>1. k \in 1..(3 * n + 1) /\ k # 1
      BY <1>1
    <2> QED
      BY <1>1, <2>1, LadderPlaces
  <1>4. i \in 1..(n + 1) /\ i \in Nat \ {0}
    BY <1>1
  <1> DEFINE B == Below(K, devs, i) \cup {<<t, m>>}
  <1>5. /\ L[3 * i - 1] = Get(K[1], devs[i]) /\ L[3 * i] = Get(K[2], devs[i])
        /\ L[3 * i + 1] = Get(K[3], devs[i])
    BY DEF Ladder
  <1>6. Got(L, 3 * i - 2) = B
    BY <1>4, LadderGot
  <1>7. Got(L, 3 * i - 1) = Got(L, 3 * i - 2) \cup {L[3 * i - 1].res}
    <2>1. PICK q \in Nat \ {0} : q = 3 * i - 1
      BY <1>4
    <2>2. q - 1 = 3 * i - 2
      BY <1>4, <2>1
    <2> QED
      BY <2>1, <2>2, GotOne
  <1>8. Got(L, 3 * i) = Got(L, 3 * i - 1) \cup {L[3 * i].res}
    <2>1. PICK q \in Nat \ {0} : q = 3 * i
      BY <1>4
    <2>2. q - 1 = 3 * i - 1
      BY <1>4, <2>1
    <2> QED
      BY <2>1, <2>2, GotOne
  <1> HIDE DEF B, n
  <1>9. /\ Got(L, 3 * i - 1) = B \cup {<<K[1], devs[i]>>}
        /\ Got(L, 3 * i) = B \cup {<<K[1], devs[i]>>, <<K[2], devs[i]>>}
    <2>1. L[3 * i - 1].res = <<K[1], devs[i]>> /\ L[3 * i].res = <<K[2], devs[i]>>
      BY <1>2, <1>5
    <2> QED
      BY <1>6, <1>7, <1>8, <2>1
  <1>10. CASE k = 3 * i - 1
    <2>1. k - 1 = 3 * i - 2
      BY <1>4, <1>10
    <2> QED
      BY <1>5, <1>6, <1>10, <2>1 DEF B, n, Rung
  <1>11. CASE k = 3 * i
    <2>1. k - 1 = 3 * i - 1
      BY <1>4, <1>11
    <2> QED
      BY <1>5, <1>9, <1>11, <2>1 DEF B, n, Rung
  <1>12. CASE k = 3 * i + 1
    <2>1. k - 1 = 3 * i
      BY <1>4, <1>12
    <2> QED
      BY <1>5, <1>9, <1>12, <2>1 DEF B, n, Rung
  <1> QED
    BY <1>3, <1>10, <1>11, <1>12

\* A ladder acquires nothing before what it hangs from, and nothing twice.
LEMMA LadderOrder ==
    ASSUME NEW L, NEW t \in {"tty", "array"}, NEW m,
           NEW K \in Seq(Kinds), Len(K) = 3, K[1] = "dev",
           K[2] \in {"nb", "wire", "chip"}, K[3] \in {"nb", "wire", "chip"}, K[2] # K[3],
           NEW devs \in Seq(Devs), Distinct(devs), Ladder(L, t, m, K, devs),
           NEW k \in 1..(3 * Len(devs) + 1)
    PROVE  /\ L[k].act = "get"
           /\ Under(L[k].res) \subseteq
                  Got(L, k - 1) \cup {<<"bus", "core">>, <<"devices", "core">>}
           /\ \A j \in 1..(3 * Len(devs) + 1) : L[j].res = L[k].res => j = k
  <1>1. \A j, o : Get(j, o).res = <<j, o>> /\ Get(j, o).act = "get"
    BY DEF Get, Step
  <1>2. Len(devs) \in Nat
    OBVIOUS
  <1>3. t # K[1] /\ t # K[2] /\ t # K[3] /\ K[1] # K[2] /\ K[1] # K[3]
    OBVIOUS
  <1>4. L[1].res = <<t, m>> /\ L[1].act = "get"
    BY <1>1 DEF Ladder
  <1>5. ASSUME NEW j \in 2..(3 * Len(devs) + 1)
        PROVE  \E i \in 1..Len(devs) :
                  /\ L[j].act = "get"
                  /\ \/ j = 3 * i - 1 /\ L[j].res = <<K[1], devs[i]>>
                     \/ /\ j = 3 * i /\ L[j].res = <<K[2], devs[i]>>
                        /\ <<K[1], devs[i]>> \in Got(L, j - 1)
                     \/ /\ j = 3 * i + 1 /\ L[j].res = <<K[3], devs[i]>>
                        /\ <<K[1], devs[i]>> \in Got(L, j - 1)
    <2>1. PICK i \in 1..Len(devs) : Rung(L, t, m, K, devs, j, i)
      BY LadderStep
    <2> QED
      BY <1>1, <2>1, SMTT(30) DEF Rung
  <1>6. L[k].act = "get"
    <2>1. k = 1 \/ k \in 2..(3 * Len(devs) + 1)
      BY <1>2
    <2> QED
      BY <1>4, <1>5, <2>1
  <1>7. Under(L[k].res) \subseteq
            Got(L, k - 1) \cup {<<"bus", "core">>, <<"devices", "core">>}
    <2>1. CASE k = 1
      BY <1>4, <2>1, UnderKind
    <2>2. CASE k \in 2..(3 * Len(devs) + 1)
      <3>1. PICK i \in 1..Len(devs) :
                     \/ L[k].res = <<"dev", devs[i]>>
                     \/ /\ L[k].res \in {<<K[2], devs[i]>>, <<K[3], devs[i]>>}
                        /\ <<"dev", devs[i]>> \in Got(L, k - 1)
        BY <1>5, <2>2
      <3>2. /\ \A j \in {"nb", "wire", "chip"} : Under(<<j, devs[i]>>) = {<<"dev", devs[i]>>}
            /\ Under(<<"dev", devs[i]>>) = {<<"bus", "core">>, <<"devices", "core">>}
        BY UnderKind
      <3>3. \/ Under(L[k].res) = {<<"bus", "core">>, <<"devices", "core">>}
            \/ Under(L[k].res) = {<<"dev", devs[i]>>} /\ <<"dev", devs[i]>> \in Got(L, k - 1)
        BY <3>1, <3>2
      <3> QED
        BY <3>3
    <2>3. k = 1 \/ k \in 2..(3 * Len(devs) + 1)
      BY <1>2
    <2> QED
      BY <2>1, <2>2, <2>3
  <1>8. ASSUME NEW a \in 2..(3 * Len(devs) + 1), NEW b \in 2..(3 * Len(devs) + 1),
               L[a].res = L[b].res
        PROVE  a = b
    <2>1. PICK i \in 1..Len(devs) : \/ a = 3 * i - 1 /\ L[a].res = <<K[1], devs[i]>>
                                    \/ a = 3 * i /\ L[a].res = <<K[2], devs[i]>>
                                    \/ a = 3 * i + 1 /\ L[a].res = <<K[3], devs[i]>>
      BY <1>5
    <2>2. PICK j \in 1..Len(devs) : \/ b = 3 * j - 1 /\ L[b].res = <<K[1], devs[j]>>
                                    \/ b = 3 * j /\ L[b].res = <<K[2], devs[j]>>
                                    \/ b = 3 * j + 1 /\ L[b].res = <<K[3], devs[j]>>
      BY <1>5
    <2>3. devs[i] = devs[j]
      BY <1>8, <2>1, <2>2
    <2>4. i = j
      BY <2>3 DEF Distinct
    <2> QED
      BY <1>3, <1>8, <2>1, <2>2, <2>4
  <1>9. \A a \in 2..(3 * Len(devs) + 1) : L[a].res # L[1].res
    <2> TAKE a \in 2..(3 * Len(devs) + 1)
    <2>1. PICK i \in 1..Len(devs) :
                L[a].res \in {<<K[1], devs[i]>>, <<K[2], devs[i]>>, <<K[3], devs[i]>>}
      BY <1>5
    <2> QED
      BY <1>3, <1>4, <2>1
  <1>10. ASSUME NEW j \in 1..(3 * Len(devs) + 1), L[j].res = L[k].res
         PROVE  j = k
    <2>1. /\ k = 1 \/ k \in 2..(3 * Len(devs) + 1)
          /\ j = 1 \/ j \in 2..(3 * Len(devs) + 1)
      BY <1>2
    <2> QED
      BY <1>8, <1>9, <1>10, <2>1
  <1> QED
    BY <1>6, <1>7, <1>10

\* The error path of step k, one of device i, releases what step k finds.
LEMMA RungUndoes ==
    ASSUME NEW L, NEW t \in {"tty", "array"}, NEW m \in Mods,
           NEW K \in Seq(Kinds), Len(K) = 3, K[1] = "dev",
           K[2] \in {"nb", "chip"}, K[3] \in {"nb", "wire", "chip"}, K[2] # K[3],
           NEW R \in Seq(Kinds), Len(R) = 3, R[1] = K[3], R[2] = K[2], R[3] = K[1],
           NEW devs \in Seq(Devs), Distinct(devs),
           NEW k, NEW i \in 1..Len(devs), Rung(L, t, m, K, devs, k, i),
           NEW w, w = Backwards("put", R, SubSeq(devs, 1, i - 1)) \o <<Put(t, m)>>,
           NEW u, \/ L[k].res[1] = K[1] /\ u = All("put", <<>>, devs[i])
                  \/ L[k].res[1] = K[2] /\ u = All("put", <<"dev">>, devs[i])
                  \/ L[k].res[1] = K[3] /\ u = All("put", <<K[2], "dev">>, devs[i])
    PROVE  u \o w \in Seq(Steps) /\ Undoes(u \o w, Got(L, k - 1))
  <1> DEFINE D == {devs[j] : j \in 1..(i - 1)}
             B == (SeqSet(K) \X D) \cup {<<t, m>>}
  <1>1. i - 1 \in 0..Len(devs) /\ devs[i] \in Devs
    OBVIOUS
  <1>2. /\ SubSeq(devs, 1, i - 1) \in Seq(Devs) /\ Distinct(SubSeq(devs, 1, i - 1))
        /\ SeqSet(SubSeq(devs, 1, i - 1)) = D
    BY <1>1, Prefix
  <1>3. SeqSet(R) = SeqSet(K) /\ SeqSet(K) \subseteq {"nb", "wire", "chip", "dev"}
    BY DEF SeqSet
  <1>4. devs[i] \notin D
    <2> SUFFICES ASSUME NEW j \in 1..(i - 1), devs[j] = devs[i] PROVE FALSE
      OBVIOUS
    <2>1. j \in 1..Len(devs) /\ j # i
      OBVIOUS
    <2> QED
      BY <2>1 DEF Distinct
  <1>5. Below(K, devs, i) \cup {<<t, m>>} = B
    BY DEF Below
  <1> HIDE DEF D
  <1>6. w \in Seq(Steps) /\ Undoes(w, B)
    <2>1. /\ R[1] \in {"nb", "wire", "chip"} /\ R[2] \in {"nb", "wire", "chip"}
          /\ R[1] # R[2] /\ R[3] = "dev"
      OBVIOUS
    <2>2. /\ w \in Seq(Steps)
          /\ Undoes(w, (SeqSet(R) \X SeqSet(SubSeq(devs, 1, i - 1))) \cup {<<t, m>>})
      BY <1>2, <2>1, UnwindUndoes
    <2> QED
      BY <1>2, <1>3, <2>2
  <1>7. \A j, o : Get(j, o).res = <<j, o>> /\ Get(j, o).res[1] = j
    BY DEF Get, Step
  <1>8. ASSUME NEW Q, Q \subseteq {"nb", "chip", "dev"} \X {devs[i]}, u \in Seq(Steps),
               Undoes(u, Q), Got(L, k - 1) = B \cup Q
        PROVE  u \o w \in Seq(Steps) /\ Undoes(u \o w, Got(L, k - 1))
    <2>1. \A q \in Q : \E a \in {"nb", "wire", "chip", "dev"} : q = <<a, devs[i]>>
      BY <1>8
    <2>2. \A r \in B : r = <<t, m>> \/ \E b \in {"nb", "wire", "chip", "dev"}, e \in D :
                                          r = <<b, e>>
      BY <1>3
    <2> HIDE DEF B
    <2>3. \A q \in Q, r \in B : q # r /\ q \notin Under(r)
      <3> TAKE q \in Q, r \in B
      <3>1. PICK a \in {"nb", "wire", "chip", "dev"} : q = <<a, devs[i]>>
        BY <2>1
      <3>2. CASE r = <<t, m>>
        <4>1. PICK e : e # devs[i]
          OBVIOUS
        <4> QED
          BY <3>1, <3>2, <4>1, Apart, ZenonT(30)
      <3>3. CASE \E b \in {"nb", "wire", "chip", "dev"}, e \in D : r = <<b, e>>
        <4>1. PICK b \in {"nb", "wire", "chip", "dev"}, e \in D : r = <<b, e>>
          BY <3>3
        <4>2. e # devs[i]
          BY <1>4
        <4> QED
          BY <3>1, <4>1, <4>2, Apart
      <3> QED
        BY <2>2, <3>2, <3>3
    <2>4. u \in Seq(Steps) /\ Undoes(u, Q) /\ w \in Seq(Steps) /\ Undoes(w, B)
      BY <1>6, <1>8 DEF B
    <2>5. Undoes(u \o w, Q \cup B)
      BY <2>3, <2>4, UndoesBoth
    <2>6. u \o w \in Seq(Steps)
      BY <2>4, ConcatIs
    <2>7. Q \cup B = B \cup Q
      OBVIOUS
    <2> QED
      BY <1>8, <2>5, <2>6, <2>7 DEF B
  <1> HIDE DEF B
  <1>9. /\ All("put", <<>>, devs[i]) \in Seq(Steps) /\ Undoes(All("put", <<>>, devs[i]), {})
        /\ All("put", <<"dev">>, devs[i]) \in Seq(Steps)
        /\ Undoes(All("put", <<"dev">>, devs[i]), {<<"dev", devs[i]>>})
        /\ All("put", <<K[2], "dev">>, devs[i]) \in Seq(Steps)
        /\ Undoes(All("put", <<K[2], "dev">>, devs[i]), {<<K[2], devs[i]>>, <<"dev", devs[i]>>})
    BY <1>1, UndoUndoes
  <1>10. CASE L[k].res[1] = K[1]
    <2>1. u = All("put", <<>>, devs[i])
      BY <1>10
    <2>2. Got(L, k - 1) = B
      <3>1. K[1] # K[2] /\ K[1] # K[3]
        OBVIOUS
      <3>2. L[k] # Get(K[2], devs[i]) /\ L[k] # Get(K[3], devs[i])
        BY <1>7, <1>10, <3>1
      <3>3. Got(L, k - 1) = Below(K, devs, i) \cup {<<t, m>>}
        BY <3>2 DEF Rung
      <3> QED
        BY <1>5, <3>3
    <2>3. B = B \cup {}
      OBVIOUS
    <2> QED
      BY <1>8, <1>9, <2>1, <2>2, <2>3
  <1>11. CASE L[k].res[1] = K[2]
    <2>1. u = All("put", <<"dev">>, devs[i])
      BY <1>11
    <2>2. Got(L, k - 1) = B \cup {<<"dev", devs[i]>>}
      BY <1>5, <1>7, <1>11 DEF Rung
    <2>3. {<<"dev", devs[i]>>} \subseteq {"nb", "chip", "dev"} \X {devs[i]}
      OBVIOUS
    <2> QED
      BY <1>8, <1>9, <2>1, <2>2, <2>3, Zenon
  <1>12. CASE L[k].res[1] = K[3]
    <2>1. u = All("put", <<K[2], "dev">>, devs[i])
      BY <1>12
    <2>2. Got(L, k - 1) = B \cup {<<K[2], devs[i]>>, <<"dev", devs[i]>>}
      BY <1>5, <1>7, <1>12 DEF Rung
    <2>3. {<<K[2], devs[i]>>, <<"dev", devs[i]>>} \subseteq {"nb", "chip", "dev"} \X {devs[i]}
      OBVIOUS
    <2> QED
      BY <1>8, <1>9, <2>1, <2>2, <2>3, Zenon
  <1> QED
    BY <1>10, <1>11, <1>12

-----------------------------------------------------------------------------
(* virtrtlab_core *)

\* virtrtlab_core_init() step by step.
LEMMA CoreLoadIs ==
    /\ CoreLoad \in Seq(Steps) /\ Len(CoreLoad) = 7
    /\ \A j \in 1..7 : CoreLoad[j] = Get(CoreKinds[j], "core")
    /\ CoreKinds \in Seq(Kinds) /\ Len(CoreKinds) = 7
    /\ \A j, k \in 1..7 : CoreKinds[j] = CoreKinds[k] => j = k
  <1>1. CoreKinds \in Seq(Kinds) /\ Len(CoreKinds) = 7
    BY DEF CoreKinds, Kinds
  <1>2. \A j, k \in 1..7 : CoreKinds[j] = CoreKinds[k] => j = k
    BY DEF CoreKinds
  <1>3. CoreLoad = [j \in 1..7 |-> Step("get", CoreKinds[j], "core")]
    BY <1>1 DEF CoreLoad, All
  <1>4. \A j \in 1..7 : Step("get", CoreKinds[j], "core") \in Steps
    BY <1>1, SMTT(30) DEF Step, Steps, Mods
  <1>5. CoreLoad \in [1..7 -> Steps]
    BY <1>3, <1>4
  <1>6. CoreLoad \in Seq(Steps) /\ Len(CoreLoad) = 7
    <2>1. PICK n \in Nat : n = 7
      OBVIOUS
    <2>2. CoreLoad \in [1..n -> Steps]
      BY <1>5, <2>1
    <2>3. CoreLoad \in Seq(Steps) /\ Len(CoreLoad) = n
      BY <2>2
    <2> QED
      BY <2>1, <2>3
  <1>7. \A j \in 1..7 : CoreLoad[j] = Get(CoreKinds[j], "core")
    BY <1>3 DEF Get
  <1> QED
    BY <1>1, <1>2, <1>6, <1>7

\* What a resource of the core hangs from comes before it.
LEMMA CoreUnder ==
    ASSUME NEW j \in 1..7
    PROVE  Under(<<CoreKinds[j], "core">>) \subseteq Got(CoreLoad, j - 1)
  <1>1. \A l \in 1..7 : CoreLoad[l].res = <<CoreKinds[l], "core">>
    BY CoreLoadIs DEF Get, Step
  <1>2. \A l \in 1..7 : l < j => <<CoreKinds[l], "core">> \in Got(CoreLoad, j - 1)
    BY <1>1 DEF Got
  <1>3. /\ CoreKinds[1] = "bus" /\ CoreKinds[2] = "root" /\ CoreKinds[3] = "root_attrs"
        /\ CoreKinds[4] = "buses" /\ CoreKinds[5] = "bus0" /\ CoreKinds[6] = "bus_attrs"
        /\ CoreKinds[7] = "devices"
    BY DEF CoreKinds
  <1>4. /\ Under(<<"bus", "core">>) = {} /\ Under(<<"root", "core">>) = {}
        /\ Under(<<"root_attrs", "core">>) = {<<"root", "core">>}
        /\ Under(<<"buses", "core">>) = {<<"root", "core">>}
        /\ Under(<<"bus0", "core">>) = {<<"buses", "core">>}
        /\ Under(<<"bus_attrs", "core">>) = {<<"bus0", "core">>}
        /\ Under(<<"devices", "core">>) = {<<"root", "core">>}
    BY UnderKind
  <1>5. j = 1 \/ j = 2 \/ j = 3 \/ j = 4 \/ j = 5 \/ j = 6 \/ j = 7
    OBVIOUS
  <1>6. CASE j = 1 \/ j = 2
    BY <1>3, <1>4, <1>6
  <1>7. CASE j = 3 \/ j = 4 \/ j = 7
    BY <1>2, <1>3, <1>4, <1>7
  <1>8. CASE j = 5
    BY <1>2, <1>3, <1>4, <1>8
  <1>9. CASE j = 6
    BY <1>2, <1>3, <1>4, <1>9
  <1> QED
    BY <1>5, <1>6, <1>7, <1>8, <1>9

\* Releasing the first n resources of the core in the opposite order.
LEMMA CoreUndoes ==
    ASSUME NEW n \in 0..7, NEW s \in Seq(Steps), Len(s) = n,
           \A p \in 1..n : s[p] = Put(CoreKinds[n + 1 - p], "core")
    PROVE  Undoes(s, Got(CoreLoad, n))
  <1>1. \A l \in 1..7 : CoreLoad[l].res = <<CoreKinds[l], "core">>
    BY CoreLoadIs DEF Get, Step
  <1>2. \A p \in 1..n : /\ s[p].act = "put" /\ s[p].res = <<CoreKinds[n + 1 - p], "core">>
                        /\ n + 1 - p \in 1..n
    BY DEF Put, Step
  <1>3. \A l \in 1..n : <<CoreKinds[l], "core">> \in Got(CoreLoad, n)
    BY <1>1, SMTT(30) DEF Got
  <1>4. ASSUME NEW r \in Got(CoreLoad, n)
        PROVE  \E p \in 1..n : s[p].res = r
    <2>1. PICK l \in 1..n : r = CoreLoad[l].res
      BY DEF Got
    <2>2. r = <<CoreKinds[l], "core">>
      <3>1. l \in 1..7
        OBVIOUS
      <3>2. CoreLoad[l].res = <<CoreKinds[l], "core">>
        BY <1>1, <3>1
      <3> QED
        BY <2>1, <3>2
    <2>3. PICK p \in 1..n : p = n + 1 - l
      OBVIOUS
    <2>4. n + 1 - p = l
      BY <2>3
    <2> QED
      BY <1>2, <2>2, <2>4
  <1>5. ASSUME NEW p \in 1..n, NEW q \in 1..n, p < q
        PROVE  s[p].res # s[q].res /\ s[p].res \notin Under(s[q].res)
    <2>1. PICK a \in 1..n, b \in 1..n : a = n + 1 - p /\ b = n + 1 - q
      OBVIOUS
    <2>2. a \in 1..7 /\ b \in 1..7 /\ b < a
      BY <1>5, <2>1
    <2>3. s[p].res = <<CoreKinds[a], "core">> /\ s[q].res = <<CoreKinds[b], "core">>
      BY <1>2, <2>1
    <2>4. CoreKinds[a] # CoreKinds[b]
      BY <2>2, CoreLoadIs
    <2>5. ASSUME NEW l \in 1..(b - 1)
          PROVE  CoreLoad[l].res # <<CoreKinds[a], "core">>
      <3>1. l \in 1..7 /\ l # a
        BY <2>2
      <3>2. CoreKinds[l] # CoreKinds[a]
        BY <2>2, <3>1, CoreLoadIs
      <3>3. CoreLoad[l].res = <<CoreKinds[l], "core">>
        BY <1>1, <3>1
      <3> QED
        BY <3>2, <3>3
    <2>6. <<CoreKinds[a], "core">> \notin Got(CoreLoad, b - 1)
      BY <2>5 DEF Got
    <2>7. Under(<<CoreKinds[b], "core">>) \subseteq Got(CoreLoad, b - 1)
      BY <2>2, CoreUnder
    <2>8. s[p].res \notin Under(s[q].res)
      BY <2>3, <2>6, <2>7
    <2> QED
      BY <2>3, <2>4, <2>8
  <1>6. \A p \in 1..n : s[p].act = "put" /\ s[p].res \in Got(CoreLoad, n)
    <2> TAKE p \in 1..n
    <2>1. PICK l \in 1..n : l = n + 1 - p
      OBVIOUS
    <2> QED
      BY <1>2, <1>3, <2>1
  <1> QED
    BY <1>4, <1>5, <1>6 DEF Undoes

\* What a module owns is what its init function acquires.
LEMMA OwnedIs ==
    ASSUME NEW m
    PROVE  /\ Owned(m) = Got(LoadOf(m), Len(LoadOf(m)))
           /\ \A k : Acquired(m, k) = Got(LoadOf(m), k)
  <1>1. Owned(m) = {s.res : s \in {LoadOf(m)[i] : i \in 1..Len(LoadOf(m))}}
    BY DEF Owned, SeqSet
  <1>2. Owned(m) = {LoadOf(m)[i].res : i \in 1..Len(LoadOf(m))}
    BY <1>1
  <1> QED
    BY <1>2 DEF Got, Acquired

\* The functions of virtrtlab_core fit together.
LEMMA CoreOrderly == Orderly("core")
  <1>1. LoadOf("core") = CoreLoad /\ UnloadOf("core") = CoreUnload
    BY DEF LoadOf, UnloadOf
  <1>2. Owned("core") = Got(CoreLoad, 7) /\ \A k : Acquired("core", k) = Got(CoreLoad, k)
    BY <1>1, OwnedIs, CoreLoadIs
  <1>3. \A j \in 1..7 : CoreLoad[j].act = "get" /\ CoreLoad[j].res = <<CoreKinds[j], "core">>
    BY CoreLoadIs DEF Get, Step
  <1>4. \A j, k \in 1..7 : CoreLoad[j].res = CoreLoad[k].res => j = k
    BY <1>3, CoreLoadIs
  <1>5. CoreLadder \in Seq(Kinds) /\ Len(CoreLadder) = 6
        /\ \A p \in 1..6 : CoreLadder[p] = CoreKinds[7 - p]
    BY DEF CoreLadder, CoreKinds, Kinds
  <1>6. \A k \in 1..7 : CoreLabel[CoreKinds[k]] = 8 - k
    BY DEF CoreLabel, CoreKinds
  <1>7. ASSUME NEW k \in 1..7
        PROVE  /\ FailOf("core", CoreLoad[k].res) \in Seq(Steps)
               /\ Undoes(FailOf("core", CoreLoad[k].res), Got(CoreLoad, k - 1))
    <2>1. CoreLoad[k].res[1] = CoreKinds[k]
      BY <1>3
    <2> DEFINE t == SubSeq(CoreLadder, 8 - k, 6)
               s == All("put", t, "core")
    <2>2. FailOf("core", CoreLoad[k].res) = s
      BY <1>5, <1>6, <2>1 DEF FailOf, CoreFail
    <2>3. /\ t \in Seq(Kinds) /\ Len(t) = k - 1
          /\ \A p \in 1..(k - 1) : t[p] = CoreLadder[7 - k + p]
      <3>1. PICK l \in 1..7 : l = 8 - k
        OBVIOUS
      <3>2. /\ SubSeq(CoreLadder, l, 6) \in Seq(Kinds)
            /\ Len(SubSeq(CoreLadder, l, 6)) = IF l <= 6 THEN 6 - l + 1 ELSE 0
            /\ \A p \in 1..(6 - l + 1) : SubSeq(CoreLadder, l, 6)[p] = CoreLadder[l + p - 1]
        <4>1. \A p \in l..6 : CoreLadder[p] \in Kinds
          <5> TAKE p \in l..6
          <5>1. CoreLadder \in Seq(Kinds) /\ Len(CoreLadder) = 6
            BY <1>5
          <5>2. p \in 1..Len(CoreLadder)
            BY <5>1
          <5> QED
            BY <5>1, <5>2, ElementOfSeq
        <4>2. l \in Int /\ 6 \in Int
          OBVIOUS
        <4> HIDE DEF t
        <4> QED
          BY <4>1, <4>2, SubSeqProperties
      <3>3. 6 - l + 1 = k - 1 /\ \A p \in 1..(k - 1) : l + p - 1 = 7 - k + p
        BY <3>1
      <3>4. Len(SubSeq(CoreLadder, l, 6)) = k - 1
        BY <3>1, <3>2
      <3> QED
        BY <3>1, <3>2, <3>3, <3>4
    <2> HIDE DEF t
    <2>4. \A p \in 1..(k - 1) : t[p] = CoreKinds[(k - 1) + 1 - p]
      <3> TAKE p \in 1..(k - 1)
      <3>1. PICK q \in 1..6 : q = 7 - k + p
        OBVIOUS
      <3>2. 7 - q = (k - 1) + 1 - p
        BY <3>1
      <3> QED
        BY <1>5, <2>3, <3>1, <3>2
    <2>5. k - 1 \in Nat /\ s = [p \in 1..(k - 1) |-> Put(t[p], "core")]
      BY <2>3 DEF All, Put
    <2>6. \A p \in 1..(k - 1) : Put(t[p], "core") \in Steps
      BY <2>3, ElementOfSeq DEF Put, Step, Steps, Mods
    <2>7. s \in Seq(Steps) /\ Len(s) = k - 1
      BY <2>5, <2>6
    <2>8. \A p \in 1..(k - 1) : s[p] = Put(CoreKinds[(k - 1) + 1 - p], "core")
      BY <2>4, <2>5
    <2> HIDE DEF s
    <2>9. Undoes(s, Got(CoreLoad, k - 1))
      <3>1. PICK n \in 0..7 : n = k - 1
        OBVIOUS
      <3> QED
        BY <2>7, <2>8, <3>1, CoreUndoes
    <2> QED
      BY <2>2, <2>7, <2>9
  <1>8. CoreUnload \in Seq(Steps) /\ Undoes(CoreUnload, Got(CoreLoad, 7))
    <2> DEFINE t == <<"devices">> \o CoreLadder
    <2>1. t \in Seq(Kinds) /\ Len(t) = 7 /\ \A p \in 1..7 : t[p] = CoreKinds[8 - p]
      BY DEF CoreLadder, CoreKinds, Kinds
    <2> HIDE DEF t
    <2>2. CoreUnload = [p \in 1..7 |-> Put(t[p], "core")]
      BY <2>1 DEF All, Put, CoreUnload, t
    <2>3. \A p \in 1..7 : Put(t[p], "core") \in Steps
      BY <2>1, ElementOfSeq DEF Put, Step, Steps, Mods
    <2>4. PICK n \in Nat : n = 7
      OBVIOUS
    <2>5. CoreUnload \in [1..n -> Steps]
      BY <2>2, <2>3, <2>4
    <2>6. CoreUnload \in Seq(Steps) /\ Len(CoreUnload) = n
      BY <2>5
    <2>7. \A p \in 1..n : CoreUnload[p] = Put(CoreKinds[n + 1 - p], "core")
      BY <2>1, <2>2, <2>4
    <2> QED
      BY <2>4, <2>6, <2>7, CoreUndoes
  <1>9. \A k \in 1..7 : Under(CoreLoad[k].res) \subseteq Got(CoreLoad, k - 1) \cup {}
    BY <1>3, CoreUnder
  <1> QED
    <2>1. CoreLoad \in Seq(Steps) /\ Len(CoreLoad) = 7
      BY CoreLoadIs
    <2>2. ASSUME NEW k \in 1..7
          PROVE  /\ CoreLoad[k].act = "get"
                 /\ \A j \in 1..7 : CoreLoad[j].res = CoreLoad[k].res => j = k
                 /\ Under(CoreLoad[k].res) \subseteq Acquired("core", k - 1) \cup {}
                 /\ FailOf("core", CoreLoad[k].res) \in Seq(Steps)
                 /\ Undoes(FailOf("core", CoreLoad[k].res), Acquired("core", k - 1))
      BY <1>2, <1>3, <1>4, <1>7, <1>9
    <2>3. CoreUnload \in Seq(Steps) /\ Undoes(CoreUnload, Owned("core"))
      BY <1>2, <1>8
    <2> QED
      BY <1>1, <2>1, <2>2, <2>3 DEF Orderly

-----------------------------------------------------------------------------
(* The device modules *)

\* virtrtlab_core has what every device hangs from.
LEMMA CoreHas == {<<"bus", "core">>, <<"devices", "core">>} \subseteq Owned("core")
  <1>1. \A j \in 1..7 : CoreLoad[j].res = <<CoreKinds[j], "core">>
    BY CoreLoadIs DEF Get, Step
  <1>2. CoreKinds[1] = "bus" /\ CoreKinds[7] = "devices"
    BY DEF CoreKinds
  <1>3. <<"bus", "core">> \in Got(CoreLoad, 7) /\ <<"devices", "core">> \in Got(CoreLoad, 7)
    BY <1>1, <1>2 DEF Got
  <1>4. LoadOf("core") = CoreLoad
    BY DEF LoadOf
  <1>5. Owned("core") = Got(CoreLoad, 7)
    BY <1>4, OwnedIs, CoreLoadIs
  <1> QED
    BY <1>3, <1>5

\* All devices taken down after the last step of a ladder.
LEMMA LadderUndoes ==
    ASSUME NEW L, NEW t \in {"tty", "array"}, NEW m \in Mods,
           NEW K \in Seq(Kinds), Len(K) = 3, K[1] = "dev",
           K[2] \in {"nb", "chip"}, K[3] \in {"nb", "wire", "chip"}, K[2] # K[3],
           NEW R \in Seq(Kinds), Len(R) = 3, R[1] = K[3], R[2] = K[2], R[3] = K[1],
           NEW devs \in Seq(Devs), Distinct(devs), Ladder(L, t, m, K, devs),
           NEW w, w = Backwards("put", R, SubSeq(devs, 1, Len(devs))) \o <<Put(t, m)>>
    PROVE  w \in Seq(Steps) /\ Undoes(w, Got(L, 3 * Len(devs) + 1))
  <1> DEFINE n == Len(devs)
  <1>1. n \in Nat /\ n \in 0..n /\ n + 1 \in 1..(n + 1) /\ 3 * (n + 1) - 2 = 3 * n + 1
        /\ (n + 1) - 1 = n
    OBVIOUS
  <1>2. Got(L, 3 * n + 1) = Below(K, devs, n + 1) \cup {<<t, m>>}
    <2>1. PICK i \in 1..(Len(devs) + 1) : i = n + 1 /\ 3 * i - 2 = 3 * n + 1
      BY <1>1
    <2>2. Got(L, 3 * i - 2) = Below(K, devs, i) \cup {<<t, m>>}
      BY LadderGot
    <2> HIDE DEF n
    <2> QED
      BY <2>1, <2>2
  <1>3. SubSeq(devs, 1, n) = devs
    BY <1>1, Prefix
  <1>4. SeqSet(R) = SeqSet(K)
    BY DEF SeqSet
  <1>5. Below(K, devs, n + 1) = SeqSet(K) \X SeqSet(devs)
    BY <1>1 DEF Below, SeqSet
  <1>6. /\ R[1] \in {"nb", "wire", "chip"} /\ R[2] \in {"nb", "wire", "chip"}
        /\ R[1] # R[2] /\ R[3] = "dev"
    OBVIOUS
  <1>7. w = Backwards("put", R, devs) \o <<Put(t, m)>>
    BY <1>3
  <1> HIDE DEF n
  <1>8. w \in Seq(Steps) /\ Undoes(w, (SeqSet(R) \X SeqSet(devs)) \cup {<<t, m>>})
    BY <1>6, <1>7, UnwindUndoes
  <1>9. Undoes(w, Got(L, 3 * n + 1))
    BY <1>2, <1>4, <1>5, <1>8
  <1> QED
    BY <1>8, <1>9 DEF n

\* How the init function of virtrtlab_uart goes.
LEMMA UartLadder ==
    /\ Ladder(UartLoad, "tty", "uart", UartKinds, Uarts)
    /\ Len(UartLoad) = 3 * Len(Uarts) + 2
    /\ UartLoad[3 * Len(Uarts) + 2] = Get("tty_reg", "uart")
  <1> DEFINE e == <<Get("tty_reg", "uart")>>
  <1>1. Uarts \in Seq(Devs) /\ Len(Uarts) \in Nat
    BY DevAssumption
  <1>2. UartKinds \in Seq(Kinds) /\ Len(UartKinds) = 3
    BY DEF UartKinds, Kinds
  <1>3. e \in Seq(Steps) /\ Len(e) = 1 /\ e[1] = Get("tty_reg", "uart")
    BY DEF Get, Step, Steps, Kinds, Mods
  <1>4. "tty" \in Kinds /\ "uart" \in Mods
    BY DEF Kinds, Mods
  <1>5. UartLoad = <<Get("tty", "uart")>> \o Each("get", UartKinds, Uarts) \o e
    BY DEF UartLoad
  <1> HIDE DEF e
  <1>6. /\ Ladder(UartLoad, "tty", "uart", UartKinds, Uarts)
        /\ Len(UartLoad) = 3 * Len(Uarts) + 1 + Len(e)
        /\ \A i \in 1..Len(e) : UartLoad[3 * Len(Uarts) + 1 + i] = e[i]
    BY <1>1, <1>2, <1>3, <1>4, <1>5, LadderIs
  <1> QED
    BY <1>1, <1>3, <1>6

\* The error path of each step up to the last device's misc_register() releases
\* what the steps before it acquired.
LEMMA UartFails ==
    ASSUME NEW k \in 1..(3 * Len(Uarts) + 1)
    PROVE  /\ FailOf("uart", UartLoad[k].res) \in Seq(Steps)
           /\ Undoes(FailOf("uart", UartLoad[k].res), Got(UartLoad, k - 1))
  <1> DEFINE R == <<"wire", "nb", "dev">>
  <1>1. Uarts \in Seq(Devs) /\ Len(Uarts) \in Nat /\ Distinct(Uarts)
    BY DevAssumption
  <1>2. /\ UartKinds \in Seq(Kinds) /\ Len(UartKinds) = 3
        /\ UartKinds[1] = "dev" /\ UartKinds[2] = "nb" /\ UartKinds[3] = "wire"
    BY DEF UartKinds, Kinds
  <1>3. /\ R \in Seq(Kinds) /\ Len(R) = 3 /\ R[1] = UartKinds[3] /\ R[2] = UartKinds[2]
        /\ R[3] = UartKinds[1]
    BY DEF UartKinds, Kinds
  <1>4. Ladder(UartLoad, "tty", "uart", UartKinds, Uarts)
    BY UartLadder
  <1>5. \A j, d : Get(j, d).res = <<j, d>>
    BY DEF Get, Step
  <1>6. CASE k = 1
    <2>1. UartLoad[1].res = <<"tty", "uart">>
      BY <1>4, <1>5 DEF Ladder
    <2>2. FailOf("uart", UartLoad[1].res) = <<>>
      BY <2>1 DEF FailOf, UartFail
    <2>3. Got(UartLoad, 0) = {}
      BY DEF Got
    <2>4. k - 1 = 0
      BY <1>6
    <2>5. FailOf("uart", UartLoad[k].res) = <<>> /\ Got(UartLoad, k - 1) = {}
      BY <1>6, <2>2, <2>3, <2>4, Zenon
    <2>6. <<>> \in Seq(Steps)
      OBVIOUS
    <2> QED
      BY <2>5, <2>6, UndoesNone, Zenon
  <1>7. CASE k \in 2..(3 * Len(Uarts) + 1)
    <2>1. PICK i \in 1..Len(Uarts) : Rung(UartLoad, "tty", "uart", UartKinds, Uarts, k, i)
      BY <1>1, <1>2, <1>4, <1>7, LadderStep
    <2> DEFINE w == Backwards("put", R, SubSeq(Uarts, 1, i - 1)) \o <<Put("tty", "uart")>>
               kind == UartLoad[k].res[1]
               u == All("put", UartUndo[kind], Uarts[i])
    <2>2. UartLoad[k].res = <<kind, Uarts[i]>> /\ kind \in {"dev", "nb", "wire"}
      BY <1>2, <1>5, <2>1 DEF Rung
    <2>3. UartUndo["dev"] = <<>> /\ UartUndo["nb"] = <<"dev">> /\ UartUndo["wire"] = <<"nb", "dev">>
      BY DEF UartUndo
    <2> HIDE DEF kind
    <2>4. i = CHOOSE j \in 1..Len(Uarts) : Uarts[j] = Uarts[i]
      BY <1>1 DEF Distinct
    <2>5. UartUnwind(i - 1) = w
      BY DEF UartUnwind
    <2>6. FailOf("uart", UartLoad[k].res) = u \o w
      <3>1. FailOf("uart", UartLoad[k].res) = UartFail(kind, Uarts[i])
        BY <2>2 DEF FailOf
      <3>2. UartFail(kind, Uarts[i])
                = LET j == CHOOSE j \in 1..Len(Uarts) : Uarts[j] = Uarts[i]
                  IN  All("put", UartUndo[kind], Uarts[i]) \o UartUnwind(j - 1)
        BY <2>2 DEF UartFail
      <3> QED
        BY <2>4, <2>5, <3>1, <3>2
    <2>7. \/ kind = "dev" /\ u = All("put", <<>>, Uarts[i])
          \/ kind = "nb" /\ u = All("put", <<"dev">>, Uarts[i])
          \/ kind = "wire" /\ u = All("put", <<"nb", "dev">>, Uarts[i])
      BY <2>2, <2>3
    <2> HIDE DEF u, w, R
    <2>8. \/ UartLoad[k].res[1] = UartKinds[1] /\ u = All("put", <<>>, Uarts[i])
          \/ UartLoad[k].res[1] = UartKinds[2] /\ u = All("put", <<"dev">>, Uarts[i])
          \/ UartLoad[k].res[1] = UartKinds[3] /\ u = All("put", <<UartKinds[2], "dev">>, Uarts[i])
      BY <1>2, <2>7 DEF kind
    <2>9. w = Backwards("put", R, SubSeq(Uarts, 1, i - 1)) \o <<Put("tty", "uart")>>
      BY DEF w
    <2>10. /\ "tty" \in {"tty", "array"} /\ "uart" \in Mods /\ UartKinds[1] = "dev"
           /\ UartKinds[2] \in {"nb", "chip"} /\ UartKinds[3] \in {"nb", "wire", "chip"}
           /\ UartKinds[2] # UartKinds[3]
      BY <1>2 DEF Mods
    <2>11. u \o w \in Seq(Steps) /\ Undoes(u \o w, Got(UartLoad, k - 1))
      BY <1>1, <1>2, <1>3, <2>1, <2>8, <2>9, <2>10, RungUndoes
    <2> QED
      BY <2>6, <2>11
  <1>8. k = 1 \/ k \in 2..(3 * Len(Uarts) + 1)
    BY <1>1
  <1> QED
    BY <1>6, <1>7, <1>8

\* How the init function of virtrtlab_gpio goes, and what its error paths release.
LEMMA GpioLadder ==
    /\ Ladder(GpioLoad, "array", "gpio", GpioKinds, Gpios)
    /\ Len(GpioLoad) = 3 * Len(Gpios) + 1
  <1> DEFINE e == <<>>
  <1>1. Gpios \in Seq(Devs) /\ Len(Gpios) \in Nat
    BY DevAssumption
  <1>2. GpioKinds \in Seq(Kinds) /\ Len(GpioKinds) = 3
    BY DEF GpioKinds, Kinds
  <1>3. e \in Seq(Steps) /\ Len(e) = 0
    BY DEF Get, Step, Steps, Kinds, Mods
  <1>4. "array" \in Kinds /\ "gpio" \in Mods
    BY DEF Kinds, Mods
  <1>5. GpioLoad = <<Get("array", "gpio")>> \o Each("get", GpioKinds, Gpios) \o e
    <2>1. Each("get", GpioKinds, Gpios) \in Seq(Steps)
      BY <1>1, <1>2, EachSteps
    <2>2. <<Get("array", "gpio")>> \in Seq(Steps)
      BY <1>4 DEF Get, Step, Steps
    <2>3. GpioLoad \in Seq(Steps)
      BY <2>1, <2>2, ConcatIs DEF GpioLoad
    <2>4. GpioLoad \o <<>> = GpioLoad
      BY <2>3, ConcatEmptySeq
    <2> QED
      BY <2>4 DEF GpioLoad
  <1> HIDE DEF e
  <1>6. /\ Ladder(GpioLoad, "array", "gpio", GpioKinds, Gpios)
        /\ Len(GpioLoad) = 3 * Len(Gpios) + 1 + Len(e)
        /\ \A i \in 1..Len(e) : GpioLoad[3 * Len(Gpios) + 1 + i] = e[i]
    BY <1>1, <1>2, <1>3, <1>4, <1>5, LadderIs
  <1> QED
    BY <1>1, <1>3, <1>6

\* The error path of each step of virtrtlab_gpio_init() releases what the steps
\* before it acquired.
LEMMA GpioFails ==
    ASSUME NEW k \in 1..(3 * Len(Gpios) + 1)
    PROVE  /\ FailOf("gpio", GpioLoad[k].res) \in Seq(Steps)
           /\ Undoes(FailOf("gpio", GpioLoad[k].res), Got(GpioLoad, k - 1))
  <1> DEFINE R == <<"nb", "chip", "dev">>
  <1>1. Gpios \in Seq(Devs) /\ Len(Gpios) \in Nat /\ Distinct(Gpios)
    BY DevAssumption
  <1>2. /\ GpioKinds \in Seq(Kinds) /\ Len(GpioKinds) = 3
        /\ GpioKinds[1] = "dev" /\ GpioKinds[2] = "chip" /\ GpioKinds[3] = "nb"
    BY DEF GpioKinds, Kinds
  <1>3. /\ R \in Seq(Kinds) /\ Len(R) = 3 /\ R[1] = GpioKinds[3] /\ R[2] = GpioKinds[2]
        /\ R[3] = GpioKinds[1]
    BY DEF GpioKinds, Kinds
  <1>4. Ladder(GpioLoad, "array", "gpio", GpioKinds, Gpios)
    BY GpioLadder
  <1>5. \A j, d : Get(j, d).res = <<j, d>>
    BY DEF Get, Step
  <1>6. CASE k = 1
    <2>1. GpioLoad[1].res = <<"array", "gpio">>
      BY <1>4, <1>5 DEF Ladder
    <2>2. FailOf("gpio", GpioLoad[1].res) = <<>>
      BY <2>1 DEF FailOf, GpioFail
    <2>3. Got(GpioLoad, 0) = {}
      BY DEF Got
    <2>4. k - 1 = 0
      BY <1>6
    <2>5. FailOf("gpio", GpioLoad[k].res) = <<>> /\ Got(GpioLoad, k - 1) = {}
      BY <1>6, <2>2, <2>3, <2>4, Zenon
    <2>6. <<>> \in Seq(Steps)
      OBVIOUS
    <2> QED
      BY <2>5, <2>6, UndoesNone, Zenon
  <1>7. CASE k \in 2..(3 * Len(Gpios) + 1)
    <2>1. PICK i \in 1..Len(Gpios) : Rung(GpioLoad, "array", "gpio", GpioKinds, Gpios, k, i)
      BY <1>1, <1>2, <1>4, <1>7, LadderStep
    <2> DEFINE w == Backwards("put", R, SubSeq(Gpios, 1, i - 1)) \o <<Put("array", "gpio")>>
               kind == GpioLoad[k].res[1]
               u == All("put", GpioUndo[kind], Gpios[i])
    <2>2. GpioLoad[k].res = <<kind, Gpios[i]>> /\ kind \in {"dev", "chip", "nb"}
      BY <1>2, <1>5, <2>1 DEF Rung
    <2>3. GpioUndo["dev"] = <<>> /\ GpioUndo["chip"] = <<"dev">> /\ GpioUndo["nb"] = <<"chip", "dev">>
      BY DEF GpioUndo
    <2> HIDE DEF kind
    <2>4. i = CHOOSE j \in 1..Len(Gpios) : Gpios[j] = Gpios[i]
      BY <1>1 DEF Distinct
    <2>5. GpioUnwind(i - 1) = w
      BY DEF GpioUnwind
    <2>6. FailOf("gpio", GpioLoad[k].res) = u \o w
      <3>1. FailOf("gpio", GpioLoad[k].res) = GpioFail(kind, Gpios[i])
        BY <2>2 DEF FailOf
      <3>2. GpioFail(kind, Gpios[i])
                = LET j == CHOOSE j \in 1..Len(Gpios) : Gpios[j] = Gpios[i]
                  IN  All("put", GpioUndo[kind], Gpios[i]) \o GpioUnwind(j - 1)
        BY <2>2 DEF GpioFail
      <3> QED
        BY <2>4, <2>5, <3>1, <3>2
    <2>7. \/ kind = "dev" /\ u = All("put", <<>>, Gpios[i])
          \/ kind = "chip" /\ u = All("put", <<"dev">>, Gpios[i])
          \/ kind = "nb" /\ u = All("put", <<"chip", "dev">>, Gpios[i])
      BY <2>2, <2>3
    <2> HIDE DEF u, w, R
    <2>8. \/ GpioLoad[k].res[1] = GpioKinds[1] /\ u = All("put", <<>>, Gpios[i])
          \/ GpioLoad[k].res[1] = GpioKinds[2] /\ u = All("put", <<"dev">>, Gpios[i])
          \/ GpioLoad[k].res[1] = GpioKinds[3] /\ u = All("put", <<GpioKinds[2], "dev">>, Gpios[i])
      BY <1>2, <2>7 DEF kind
    <2>9. w = Backwards("put", R, SubSeq(Gpios, 1, i - 1)) \o <<Put("array", "gpio")>>
      BY DEF w
    <2>10. /\ "array" \in {"tty", "array"} /\ "gpio" \in Mods /\ GpioKinds[1] = "dev"
           /\ GpioKinds[2] \in {"nb", "chip"} /\ GpioKinds[3] \in {"nb", "wire", "chip"}
           /\ GpioKinds[2] # GpioKinds[3]
      BY <1>2 DEF Mods
    <2>11. u \o w \in Seq(Steps) /\ Undoes(u \o w, Got(GpioLoad, k - 1))
      BY <1>1, <1>2, <1>3, <2>1, <2>8, <2>9, <2>10, RungUndoes
    <2> QED
      BY <2>6, <2>11
  <1>8. k = 1 \/ k \in 2..(3 * Len(Gpios) + 1)
    BY <1>1
  <1> QED
    BY <1>6, <1>7, <1>8

\* The functions of virtrtlab_gpio fit together.
LEMMA GpioOrderly == Orderly("gpio")
  <1>1. Gpios \in Seq(Devs) /\ Len(Gpios) \in Nat /\ Distinct(Gpios)
    BY DevAssumption
  <1>2. /\ GpioKinds \in Seq(Kinds) /\ Len(GpioKinds) = 3
        /\ GpioKinds[1] = "dev" /\ GpioKinds[2] = "chip" /\ GpioKinds[3] = "nb"
    BY DEF GpioKinds, Kinds
  <1>3. Ladder(GpioLoad, "array", "gpio", GpioKinds, Gpios) /\ GpioLoad \in Seq(Steps)
    BY GpioLadder DEF Ladder
  <1>4. LoadOf("gpio") = GpioLoad /\ UnloadOf("gpio") = GpioUnload
    BY DEF LoadOf, UnloadOf
  <1>5. /\ Owned("gpio") = Got(GpioLoad, Len(GpioLoad))
        /\ \A k : Acquired("gpio", k) = Got(GpioLoad, k)
    BY <1>4, OwnedIs
  <1>6. /\ "array" \in {"tty", "array"} /\ "gpio" \in Mods /\ GpioKinds[1] = "dev"
        /\ GpioKinds[2] \in {"nb", "chip"} /\ GpioKinds[3] \in {"nb", "wire", "chip"}
        /\ GpioKinds[2] \in {"nb", "wire", "chip"} /\ GpioKinds[2] # GpioKinds[3]
    BY <1>2 DEF Mods
  <1>7. GpioUnwind(Len(Gpios)) \in Seq(Steps)
        /\ Undoes(GpioUnwind(Len(Gpios)), Got(GpioLoad, 3 * Len(Gpios) + 1))
    <2> DEFINE R == <<"nb", "chip", "dev">>
    <2>1. /\ R \in Seq(Kinds) /\ Len(R) = 3 /\ R[1] = GpioKinds[3] /\ R[2] = GpioKinds[2]
          /\ R[3] = GpioKinds[1]
      BY DEF GpioKinds, Kinds
    <2>2. GpioUnwind(Len(Gpios))
             = Backwards("put", R, SubSeq(Gpios, 1, Len(Gpios))) \o <<Put("array", "gpio")>>
      BY DEF GpioUnwind
    <2> HIDE DEF R
    <2> QED
      BY <1>1, <1>2, <1>3, <1>6, <2>1, <2>2, LadderUndoes
  <1>8. ASSUME NEW k \in 1..(3 * Len(Gpios) + 1)
        PROVE  /\ GpioLoad[k].act = "get"
               /\ Under(GpioLoad[k].res) \subseteq Acquired("gpio", k - 1) \cup Owned("core")
               /\ \A j \in 1..(3 * Len(Gpios) + 1) : GpioLoad[j].res = GpioLoad[k].res => j = k
               /\ FailOf("gpio", GpioLoad[k].res) \in Seq(Steps)
               /\ Undoes(FailOf("gpio", GpioLoad[k].res), Acquired("gpio", k - 1))
    <2>1. /\ GpioLoad[k].act = "get"
          /\ Under(GpioLoad[k].res) \subseteq
                 Got(GpioLoad, k - 1) \cup {<<"bus", "core">>, <<"devices", "core">>}
          /\ \A j \in 1..(3 * Len(Gpios) + 1) : GpioLoad[j].res = GpioLoad[k].res => j = k
      BY <1>1, <1>2, <1>3, <1>6, LadderOrder
    <2>2. /\ FailOf("gpio", GpioLoad[k].res) \in Seq(Steps)
          /\ Undoes(FailOf("gpio", GpioLoad[k].res), Got(GpioLoad, k - 1))
      BY GpioFails
    <2>3. Acquired("gpio", k - 1) = Got(GpioLoad, k - 1)
      BY <1>5
    <2> QED
      BY <2>1, <2>2, <2>3, CoreHas
  <1>9. Len(GpioLoad) = 3 * Len(Gpios) + 1
    BY GpioLadder
  <1>10. GpioUnload \in Seq(Steps) /\ Undoes(GpioUnload, Owned("gpio"))
    BY <1>5, <1>7, <1>9 DEF GpioUnload
  <1> QED
    BY <1>3, <1>4, <1>8, <1>9, <1>10 DEF Orderly

\* The functions of virtrtlab_uart fit together.
LEMMA UartOrderly == Orderly("uart")
  <1>1. Uarts \in Seq(Devs) /\ Len(Uarts) \in Nat /\ Distinct(Uarts)
    BY DevAssumption
  <1>2. /\ UartKinds \in Seq(Kinds) /\ Len(UartKinds) = 3
        /\ UartKinds[1] = "dev" /\ UartKinds[2] = "nb" /\ UartKinds[3] = "wire"
    BY DEF UartKinds, Kinds
  <1>3. Ladder(UartLoad, "tty", "uart", UartKinds, Uarts) /\ UartLoad \in Seq(Steps)
    BY UartLadder DEF Ladder
  <1>4. LoadOf("uart") = UartLoad /\ UnloadOf("uart") = UartUnload
    BY DEF LoadOf, UnloadOf
  <1>5. /\ Owned("uart") = Got(UartLoad, Len(UartLoad))
        /\ \A k : Acquired("uart", k) = Got(UartLoad, k)
    BY <1>4, OwnedIs
  <1>6. /\ "tty" \in {"tty", "array"} /\ "uart" \in Mods /\ UartKinds[1] = "dev"
        /\ UartKinds[2] \in {"nb", "chip"} /\ UartKinds[3] \in {"nb", "wire", "chip"}
        /\ UartKinds[2] \in {"nb", "wire", "chip"} /\ UartKinds[2] # UartKinds[3]
    BY <1>2 DEF Mods
  <1>7. UartUnwind(Len(Uarts)) \in Seq(Steps)
        /\ Undoes(UartUnwind(Len(Uarts)), Got(UartLoad, 3 * Len(Uarts) + 1))
    <2> DEFINE R == <<"wire", "nb", "dev">>
    <2>1. /\ R \in Seq(Kinds) /\ Len(R) = 3 /\ R[1] = UartKinds[3] /\ R[2] = UartKinds[2]
          /\ R[3] = UartKinds[1]
      BY DEF UartKinds, Kinds
    <2>2. UartUnwind(Len(Uarts))
             = Backwards("put", R, SubSeq(Uarts, 1, Len(Uarts))) \o <<Put("tty", "uart")>>
      BY DEF UartUnwind
    <2> HIDE DEF R
    <2> QED
      BY <1>1, <1>2, <1>3, <1>6, <2>1, <2>2, LadderUndoes
  <1>8. ASSUME NEW k \in 1..(3 * Len(Uarts) + 1)
        PROVE  /\ UartLoad[k].act = "get"
               /\ Under(UartLoad[k].res) \subseteq Acquired("uart", k - 1) \cup Owned("core")
               /\ \A j \in 1..(3 * Len(Uarts) + 1) : UartLoad[j].res = UartLoad[k].res => j = k
               /\ FailOf("uart", UartLoad[k].res) \in Seq(Steps)
               /\ Undoes(FailOf("uart", UartLoad[k].res), Acquired("uart", k - 1))
    <2>1. /\ UartLoad[k].act = "get"
          /\ Under(UartLoad[k].res) \subseteq
                 Got(UartLoad, k - 1) \cup {<<"bus", "core">>, <<"devices", "core">>}
          /\ \A j \in 1..(3 * Len(Uarts) + 1) : UartLoad[j].res = UartLoad[k].res => j = k
      BY <1>1, <1>2, <1>3, <1>6, LadderOrder
    <2>2. /\ FailOf("uart", UartLoad[k].res) \in Seq(Steps)
          /\ Undoes(FailOf("uart", UartLoad[k].res), Got(UartLoad, k - 1))
      BY UartFails
    <2>3. Acquired("uart", k - 1) = Got(UartLoad, k - 1)
      BY <1>5
    <2> QED
      BY <2>1, <2>2, <2>3, CoreHas
  <1> DEFINE n == 3 * Len(Uarts) + 1
  <1>9. n \in Nat /\ Len(UartLoad) = n + 1 /\ UartLoad[n + 1] = Get("tty_reg", "uart")
        /\ (n + 1) - 1 = n
    BY <1>1, UartLadder
  <1>10. Got(UartLoad, n) = (SeqSet(UartKinds) \X SeqSet(Uarts)) \cup {<<"tty", "uart">>}
    <2>1. PICK i \in 1..(Len(Uarts) + 1) : i = Len(Uarts) + 1 /\ 3 * i - 2 = n /\ i - 1 = Len(Uarts)
      BY <1>1
    <2>2. Got(UartLoad, 3 * i - 2) = Below(UartKinds, Uarts, i) \cup {<<"tty", "uart">>}
      BY <1>1, <1>2, <1>3, LadderGot
    <2>3. Below(UartKinds, Uarts, i) = SeqSet(UartKinds) \X SeqSet(Uarts)
      BY <2>1 DEF Below, SeqSet
    <2> HIDE DEF n
    <2> QED
      BY <2>1, <2>2, <2>3
  <1> HIDE DEF n
  <1>11. SeqSet(UartKinds) = {"dev", "nb", "wire"}
    BY <1>2 DEF SeqSet
  <1>12. UartLoad[n + 1].act = "get" /\ UartLoad[n + 1].res = <<"tty_reg", "uart">>
    BY <1>9 DEF Get, Step
  <1>13. Owned("uart") = Got(UartLoad, n) \cup {<<"tty_reg", "uart">>}
    <2>1. PICK k \in Nat \ {0} : k = n + 1 /\ k - 1 = n
      BY <1>9
    <2>2. Got(UartLoad, k) = Got(UartLoad, k - 1) \cup {UartLoad[k].res}
      BY GotOne
    <2> QED
      BY <1>5, <1>9, <1>12, <2>1, <2>2
  <1>14. Under(<<"tty_reg", "uart">>) \subseteq Got(UartLoad, n)
    <2>1. Under(<<"tty_reg", "uart">>)
             = {<<"tty", "uart">>} \cup {<<"dev", d>> : d \in SeqSet(Uarts)}
      BY UnderKind
    <2>2. \A d \in SeqSet(Uarts) : <<"dev", d>> \in Got(UartLoad, n)
      BY <1>10, <1>11
    <2>3. <<"tty", "uart">> \in Got(UartLoad, n)
      BY <1>10
    <2> QED
      BY <2>1, <2>2, <2>3
  <1>15. <<"tty_reg", "uart">> \notin Got(UartLoad, n)
    BY <1>10, <1>11
  <1>16. \A j \in 1..n : UartLoad[j].res # <<"tty_reg", "uart">>
    BY <1>15 DEF Got
  <1>17. FailOf("uart", <<"tty_reg", "uart">>) = UartUnwind(Len(Uarts))
    BY DEF FailOf, UartFail
  <1>18. UartUnload \in Seq(Steps) /\ Undoes(UartUnload, Owned("uart"))
    <2> DEFINE g == <<Put("tty_reg", "uart")>>
    <2>1. g \in Seq(Steps)
      BY DEF Put, Step, Steps, Kinds, Mods
    <2>2. Undoes(g, {<<"tty_reg", "uart">>})
      BY UndoesOne
    <2>3. \A q \in {<<"tty_reg", "uart">>}, r \in Got(UartLoad, n) : q \notin Under(r)
      <3> SUFFICES ASSUME NEW r \in Got(UartLoad, n)
                   PROVE  <<"tty_reg", "uart">> \notin Under(r)
        OBVIOUS
      <3>1. CASE r = <<"tty", "uart">>
        BY <3>1, UnderKind
      <3>2. CASE r \in SeqSet(UartKinds) \X SeqSet(Uarts)
        <4>1. PICK k \in {"dev", "nb", "wire"}, d \in SeqSet(Uarts) : r = <<k, d>>
          BY <1>11, <3>2
        <4>2. /\ \A j \in {"nb", "wire", "chip"} : Under(<<j, d>>) = {<<"dev", d>>}
              /\ Under(<<"dev", d>>) = {<<"bus", "core">>, <<"devices", "core">>}
          BY UnderKind
        <4> QED
          BY <4>1, <4>2
      <3> QED
        BY <1>10, <3>1, <3>2
    <2>4. UartUnload = g \o UartUnwind(Len(Uarts))
      BY DEF UartUnload
    <2> HIDE DEF g
    <2>5. {<<"tty_reg", "uart">>} \cap Got(UartLoad, n) = {}
      BY <1>15
    <2>6. UartUnwind(Len(Uarts)) \in Seq(Steps) /\ Undoes(UartUnwind(Len(Uarts)), Got(UartLoad, n))
      BY <1>7 DEF n
    <2>7. Undoes(UartUnload, {<<"tty_reg", "uart">>} \cup Got(UartLoad, n))
      BY <2>1, <2>2, <2>3, <2>4, <2>5, <2>6, UndoesBoth
    <2>8. UartUnload \in Seq(Steps)
      BY <2>1, <2>4, <2>6, ConcatIs
    <2>9. {<<"tty_reg", "uart">>} \cup Got(UartLoad, n) = Owned("uart")
      BY <1>13
    <2> QED
      BY <2>7, <2>8, <2>9
  <1>19. ASSUME NEW k \in 1..Len(UartLoad)
         PROVE  /\ UartLoad[k].act = "get"
                /\ \A j \in 1..Len(UartLoad) : UartLoad[j].res = UartLoad[k].res => j = k
                /\ Under(UartLoad[k].res) \subseteq Acquired("uart", k - 1) \cup Owned("core")
                /\ FailOf("uart", UartLoad[k].res) \in Seq(Steps)
                /\ Undoes(FailOf("uart", UartLoad[k].res), Acquired("uart", k - 1))
    <2>1. \A j \in 1..Len(UartLoad) : j \in 1..n \/ j = n + 1
      BY <1>9
    <2>2. CASE k \in 1..n
      <3>1. k # n + 1
        BY <1>9, <2>2
      <3>2. \A j \in 1..n : UartLoad[j].res = UartLoad[k].res => j = k
        BY <1>8, <2>2 DEF n
      <3>3. \A j \in 1..Len(UartLoad) : UartLoad[j].res = UartLoad[k].res => j = k
        BY <1>12, <1>16, <2>1, <2>2, <3>2
      <3> QED
        BY <1>8, <2>2, <3>3 DEF n
    <2>3. CASE k = n + 1
      <3>1. UartLoad[k].act = "get" /\ UartLoad[k].res = <<"tty_reg", "uart">> /\ k - 1 = n
        BY <1>9, <1>12, <2>3
      <3>2. \A j \in 1..Len(UartLoad) : UartLoad[j].res = UartLoad[k].res => j = k
        BY <1>16, <2>1, <2>3, <3>1
      <3>3. Acquired("uart", k - 1) = Got(UartLoad, n)
        BY <1>5, <3>1
      <3>4. /\ FailOf("uart", UartLoad[k].res) \in Seq(Steps)
            /\ Undoes(FailOf("uart", UartLoad[k].res), Got(UartLoad, n))
        BY <1>7, <1>17, <3>1 DEF n
      <3> QED
        BY <1>14, <3>1, <3>2, <3>3, <3>4
    <2> QED
      BY <2>1, <2>2, <2>3
  <1> QED
    BY <1>3, <1>4, <1>18, <1>19 DEF Orderly

-----------------------------------------------------------------------------
(* The three modules *)

\* What each module owns.
LEMMA OwnedSets ==
    /\ Owned("core") = SeqSet(CoreKinds) \X {"core"}
    /\ Owned("uart") = ({"dev", "nb", "wire"} \X SeqSet(Uarts))
                          \cup {<<"tty", "uart">>, <<"tty_reg", "uart">>}
    /\ Owned("gpio") = ({"dev", "chip", "nb"} \X SeqSet(Gpios)) \cup {<<"array", "gpio">>}
  <1>1. Owned("core") = SeqSet(CoreKinds) \X {"core"}
    <2>1. LoadOf("core") = CoreLoad
      BY DEF LoadOf
    <2>2. Owned("core") = Got(CoreLoad, 7)
      BY <2>1, OwnedIs, CoreLoadIs
    <2>3. \A j \in 1..7 : CoreLoad[j].res = <<CoreKinds[j], "core">>
      BY CoreLoadIs DEF Get, Step
    <2>4. Got(CoreLoad, 7) = {<<CoreKinds[j], "core">> : j \in 1..7}
      BY <2>3 DEF Got
    <2>5. SeqSet(CoreKinds) = {CoreKinds[j] : j \in 1..7}
      BY CoreLoadIs DEF SeqSet
    <2> QED
      BY <2>2, <2>4, <2>5
  <1>2. ASSUME NEW L, NEW t, NEW m, NEW K \in Seq(Kinds), Len(K) = 3, NEW devs \in Seq(Devs),
               Ladder(L, t, m, K, devs)
        PROVE  Got(L, 3 * Len(devs) + 1) = (SeqSet(K) \X SeqSet(devs)) \cup {<<t, m>>}
    <2>1. PICK i \in 1..(Len(devs) + 1) : /\ i = Len(devs) + 1 /\ i - 1 = Len(devs)
                                          /\ 3 * i - 2 = 3 * Len(devs) + 1
      OBVIOUS
    <2>2. Got(L, 3 * i - 2) = Below(K, devs, i) \cup {<<t, m>>}
      BY <1>2, LadderGot
    <2>3. Below(K, devs, i) = SeqSet(K) \X SeqSet(devs)
      BY <2>1 DEF Below, SeqSet
    <2> QED
      BY <2>1, <2>2, <2>3
  <1>3. Owned("gpio") = ({"dev", "chip", "nb"} \X SeqSet(Gpios)) \cup {<<"array", "gpio">>}
    <2>1. LoadOf("gpio") = GpioLoad
      BY DEF LoadOf
    <2>2. GpioKinds \in Seq(Kinds) /\ Len(GpioKinds) = 3 /\ SeqSet(GpioKinds) = {"dev", "chip", "nb"}
      BY DEF GpioKinds, Kinds, SeqSet
    <2>3. Gpios \in Seq(Devs)
      BY DevAssumption
    <2>4. Got(GpioLoad, 3 * Len(Gpios) + 1)
              = (SeqSet(GpioKinds) \X SeqSet(Gpios)) \cup {<<"array", "gpio">>}
      BY <1>2, <2>2, <2>3, GpioLadder
    <2>5. Owned("gpio") = Got(GpioLoad, 3 * Len(Gpios) + 1)
      BY <2>1, OwnedIs, GpioLadder
    <2> QED
      BY <2>2, <2>4, <2>5
  <1>4. Owned("uart") = ({"dev", "nb", "wire"} \X SeqSet(Uarts))
                           \cup {<<"tty", "uart">>, <<"tty_reg", "uart">>}
    <2>1. LoadOf("uart") = UartLoad
      BY DEF LoadOf
    <2>2. UartKinds \in Seq(Kinds) /\ Len(UartKinds) = 3 /\ SeqSet(UartKinds) = {"dev", "nb", "wire"}
      BY DEF UartKinds, Kinds, SeqSet
    <2>3. Uarts \in Seq(Devs) /\ Len(Uarts) \in Nat
      BY DevAssumption
    <2>4. Got(UartLoad, 3 * Len(Uarts) + 1)
              = (SeqSet(UartKinds) \X SeqSet(Uarts)) \cup {<<"tty", "uart">>}
      BY <1>2, <2>2, <2>3, UartLadder
    <2>5. PICK k \in Nat \ {0} : k = 3 * Len(Uarts) + 2 /\ k - 1 = 3 * Len(Uarts) + 1
      BY <2>3
    <2>6. Owned("uart") = Got(UartLoad, k - 1) \cup {UartLoad[k].res}
      BY <2>1, <2>5, OwnedIs, UartLadder, GotOne
    <2>7. UartLoad[k].res = <<"tty_reg", "uart">>
      BY <2>5, UartLadder DEF Get, Step
    <2> QED
      BY <2>2, <2>4, <2>5, <2>6, <2>7
  <1> QED
    BY <1>1, <1>3, <1>4

\* No two modules own the same thing; notifiers are devices', the attributes of
\* the bus the core's; and what a thing hangs from is of its module or the core.
LEMMA OwnedApart ==
    /\ \A m, n \in Mods : m # n => Owned(m) \cap Owned(n) = {}
    /\ \A m \in Mods : \A r \in Owned(m) : r[1] = "nb" => r[2] \in Devs /\ r = <<"nb", r[2]>>
    /\ \A m \in Mods : \A r \in Owned(m) :
          r[1] = "bus_attrs" => m = "core" /\ r = <<"bus_attrs", "core">>
    /\ <<"bus_attrs", "core">> \in Owned("core")
  <1>1. SeqSet(CoreKinds) = {"bus", "root", "root_attrs", "buses", "bus0", "bus_attrs", "devices"}
    BY DEF SeqSet, CoreKinds
  <1>2. SeqSet(Uarts) \subseteq Devs /\ SeqSet(Gpios) \subseteq Devs
        /\ SeqSet(Uarts) \cap SeqSet(Gpios) = {}
    BY DevAssumption
  <1>3. \A r \in Owned("core") : r[1] \in SeqSet(CoreKinds) /\ r = <<r[1], "core">>
    BY OwnedSets
  <1>4. \A r \in Owned("uart") :
           \/ r[1] \in {"dev", "nb", "wire"} /\ r[2] \in SeqSet(Uarts) /\ r = <<r[1], r[2]>>
           \/ r[1] \in {"tty", "tty_reg"}
    BY OwnedSets
  <1>5. \A r \in Owned("gpio") :
           \/ r[1] \in {"dev", "nb", "chip"} /\ r[2] \in SeqSet(Gpios) /\ r = <<r[1], r[2]>>
           \/ r[1] = "array"
    BY OwnedSets
  <1>6. Owned("core") \cap Owned("uart") = {} /\ Owned("core") \cap Owned("gpio") = {}
        /\ Owned("uart") \cap Owned("gpio") = {}
    BY <1>1, <1>2, <1>3, <1>4, <1>5
  <1>7. \A m, n \in Mods : m # n => Owned(m) \cap Owned(n) = {}
    BY <1>6 DEF Mods
  <1>8. ASSUME NEW m \in Mods, NEW r \in Owned(m), r[1] = "nb"
        PROVE  r[2] \in Devs /\ r = <<"nb", r[2]>>
    <2>1. m = "core" \/ m = "uart" \/ m = "gpio"
      BY DEF Mods
    <2>2. CASE m = "core"
      BY <1>1, <1>3, <1>8, <2>2
    <2>3. CASE m = "uart"
      BY <1>2, <1>4, <1>8, <2>3
    <2>4. CASE m = "gpio"
      BY <1>2, <1>5, <1>8, <2>4
    <2> QED
      BY <2>1, <2>2, <2>3, <2>4
  <1>9. ASSUME NEW m \in Mods, NEW r \in Owned(m), r[1] = "bus_attrs"
        PROVE  m = "core" /\ r = <<"bus_attrs", "core">>
    <2>1. m = "core" \/ m = "uart" \/ m = "gpio"
      BY DEF Mods
    <2>2. CASE m = "core"
      BY <1>3, <1>9, <2>2
    <2>3. CASE m = "uart"
      BY <1>4, <1>9, <2>3
    <2>4. CASE m = "gpio"
      BY <1>5, <1>9, <2>4
    <2> QED
      BY <2>1, <2>2, <2>3, <2>4
  <1>10. <<"bus_attrs", "core">> \in Owned("core")
    BY <1>1, OwnedSets
  <1> QED
    BY <1>7, <1>8, <1>9, <1>10

\* Whatever the number of devices, the init function of each module acquires
\* nothing before what it hangs from, the goto ladder entered at each of its
\* steps releases exactly what the steps before it acquired, users first, and the
\* exit function does so with all of it.
THEOREM LaddersUndo == \A m \in Mods : Orderly(m)
  BY CoreOrderly, UartOrderly, GpioOrderly DEF Mods

=============================================================================
