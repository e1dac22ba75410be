------------------------ MODULE Configuration_proofs ------------------------
(***************************************************************************)
(* What is proved of the configuration for programs of any number of units *)
(* and lines, on any machines.                                             *)
(***************************************************************************)
EXTENDS Configuration, TLAPS

LEMMA HeaderSet ==
  Header = {"platform", "configuration", "except", "exception", "assertion", "varient"}
  BY DEF Header, Includes

(* What #includes what                                                       *)
LEMMA IncludesFacts ==
  /\ Includes["platform"] = {} /\ Includes["configuration"] = {}
  /\ Includes["except"] = {"platform", "configuration"}
  /\ Includes["exception"] = {"except"}
  /\ Includes["assertion"] = {"except", "exception"}
  /\ Includes["varient"] = {"except", "assertion"}
  BY DEF Includes

(* Reads, header by header                                                   *)
LEMMA ReadsFacts ==
  /\ Reads["platform"] = {"platform"} /\ Reads["configuration"] = {"configuration"}
  /\ Reads["except"] = {"platform", "configuration", "except"}
  /\ Reads["exception"] = {"platform", "configuration", "except", "exception"}
  /\ Reads["assertion"] = {"platform", "configuration", "except", "exception", "assertion"}
  /\ Reads["varient"] = Header
<1> DEFINE Step(S) == S \cup UNION {Includes[g] : g \in S}
<1>1. \A h \in Header : Reads[h] = Step(Step(Step({h})))
  BY Zenon DEF Reads
<1>2. Step({"platform"}) = {"platform"} /\ Step({"configuration"}) = {"configuration"}
  BY IncludesFacts
<1>3. Step({"except"}) = {"platform", "configuration", "except"}
  BY IncludesFacts
<1>4. Step({"platform", "configuration", "except"}) = {"platform", "configuration", "except"}
  BY IncludesFacts
<1>5. Step({"exception"}) = {"except", "exception"}
  BY IncludesFacts
<1>6. Step({"except", "exception"}) = {"platform", "configuration", "except", "exception"}
  BY IncludesFacts
<1>7. Step({"platform", "configuration", "except", "exception"})
        = {"platform", "configuration", "except", "exception"}
  BY IncludesFacts
<1>8. Step({"assertion"}) = {"except", "exception", "assertion"}
  BY IncludesFacts
<1>9. Step({"except", "exception", "assertion"})
        = {"platform", "configuration", "except", "exception", "assertion"}
  BY IncludesFacts
<1>10. Step({"platform", "configuration", "except", "exception", "assertion"})
        = {"platform", "configuration", "except", "exception", "assertion"}
  BY IncludesFacts
<1>11. Step({"varient"}) = {"except", "assertion", "varient"}
  BY IncludesFacts
<1>12. Step({"except", "assertion", "varient"})
        = {"platform", "configuration", "except", "exception", "assertion", "varient"}
  BY IncludesFacts
<1>13. Step({"platform", "configuration", "except", "exception", "assertion", "varient"})
        = {"platform", "configuration", "except", "exception", "assertion", "varient"}
  BY IncludesFacts
<1> HIDE DEF Step
<1>14. Reads["platform"] = {"platform"} /\ Reads["configuration"] = {"configuration"}
  BY <1>1, <1>2, HeaderSet
<1>15. Reads["except"] = {"platform", "configuration", "except"}
  BY <1>1, <1>3, <1>4, HeaderSet
<1>16. Reads["exception"] = {"platform", "configuration", "except", "exception"}
  BY <1>1, <1>5, <1>6, <1>7, HeaderSet
<1>17. Reads["assertion"] = {"platform", "configuration", "except", "exception", "assertion"}
  BY <1>1, <1>8, <1>9, <1>10, HeaderSet
<1>18. Reads["varient"] = Header
  BY <1>1, <1>11, <1>12, <1>13, HeaderSet
<1> QED
  BY <1>14, <1>15, <1>16, <1>17, <1>18

(* What a header brings along                                                *)
LEMMA ReadsClosed ==
  \A h \in Header :
    /\ Reads[h] \subseteq Header
    /\ "except" \in Reads[h] => {"platform", "configuration"} \subseteq Reads[h]
    /\ "assertion" \in Reads[h] => "except" \in Reads[h]
    /\ "varient" \in Reads[h] => {"except", "assertion"} \subseteq Reads[h]
  BY ReadsFacts, HeaderSet

-----------------------------------------------------------------------------
Text      == Header \cup Defined
Macros(u) == {lines[u][i] : i \in DOMAIN lines[u]} \cap Defined

(* The invariant.  A unit's macros only grow, those of the client's lines    *)
(* are among them, and what except.hpp and assertion.hpp chose followed from *)
(* those at the time, which in an orderly unit are all that there will be.   *)
Shape(u) ==
  /\ lines[u] \in Seq(Text) /\ Macros(u) \subseteq defined[u]
  /\ "configuration" \in Read(u) => build.options \subseteq defined[u]
  /\ "except" \in Read(u) => {"platform", "configuration"} \subseteq Read(u)
  /\ "varient" \in Read(u) => {"except", "assertion"} \subseteq Read(u)
  /\ "assertion" \in Read(u) => "except" \in Read(u)
  /\ mode[u] \in {"none", "debug", "release"} /\ (mode[u] = "none" <=> "except" \notin Read(u))
  /\ checks[u] \in BOOLEAN
  /\ api[u] \in {"undefined", "nothing", "dllexport", "dllimport", "visible"}
  /\ mode[u] = "debug" => "METHAN_DEBUG" \in defined[u]
  /\ checks[u] => "assertion" \in Read(u)
  /\ mode[u] = "debug" /\ "assertion" \in Read(u) => checks[u]
  /\ varient[u] \subseteq {[named |-> mode[u] = "debug", checked |-> checks[u]]}
  /\ varient[u] = {} <=> "varient" \notin Read(u)
  /\ Orderly(u) /\ "except" \in Read(u) => ("METHAN_DEBUG" \in defined[u] <=> mode[u] = "debug")
  /\ Orderly(u) /\ "assertion" \in Read(u) =>
       (defined[u] \cap Defined # {} <=> checks[u])

(* The types of the functions                                                *)
Functions ==
  /\ DOMAIN lines = Unit /\ DOMAIN defined = Unit /\ DOMAIN mode = Unit
  /\ DOMAIN checks = Unit /\ DOMAIN api = Unit /\ DOMAIN varient = Unit

IInv == Functions /\ \A u \in Unit : Shape(u)

(* A new line at the end reads its header, or defines its macro, and what    *)
(* the lines before it were in order for stays so.                           *)
LEMMA NewLine ==
  ASSUME NEW u \in Unit, NEW l \in Text, lines[u] \in Seq(Text),
         DOMAIN lines = Unit, NextLine(u, l)
  PROVE  /\ lines'[u] = Append(lines[u], l) /\ lines'[u] \in Seq(Text)
         /\ l \in Header => Read(u)' = Read(u) \cup Reads[l] /\ Macros(u)' = Macros(u)
         /\ l \in Defined => Read(u)' = Read(u) /\ Macros(u)' = Macros(u) \cup {l}
         /\ Orderly(u)' => Orderly(u)
         /\ Orderly(u)' /\ l \in Defined /\ "except" \in Read(u) => l \in Macros(u)
<1> DEFINE n == Len(lines[u])
           old == lines[u]
           new == lines'[u]
<1>1. Header \cap Defined = {}
  BY HeaderSet DEF Defined
<1>2. new = Append(old, l)
  BY DEF NextLine
<1> HIDE DEF old, new
<1>3. /\ n \in Nat /\ DOMAIN old = 1 .. n /\ DOMAIN new = 1 .. n + 1 /\ new \in Seq(Text)
      /\ \A i \in 1 .. n : new[i] = old[i]
      /\ new[n + 1] = l
  <2>1. old \in Seq(Text) /\ n = Len(old)
    BY DEF old
  <2> HIDE DEF n
  <2> QED
    BY <1>2, <2>1
<1> HIDE DEF n
<1>4. Read(u) = UNION {Reads[old[i]] : i \in {j \in DOMAIN old : old[j] \in Header}}
  BY DEF Read, old
<1>5. Read(u)' = UNION {Reads[new[i]] : i \in {j \in DOMAIN new : new[j] \in Header}}
  BY DEF Read, new, Header, Reads, Includes
<1>6. Macros(u) = {old[i] : i \in DOMAIN old} \cap Defined
  BY DEF Macros, old
<1>7. Macros(u)' = {new[i] : i \in DOMAIN new} \cap Defined
  BY DEF Macros, new, Defined
<1>8. \A i \in 1 .. n + 1 : i \in 1 .. n \/ i = n + 1
  BY <1>3
<1>9. l \in Header => Read(u)' = Read(u) \cup Reads[l] /\ Macros(u)' = Macros(u)
  BY <1>1, <1>3, <1>4, <1>5, <1>6, <1>7, <1>8
<1>10. ASSUME l \in Defined PROVE Read(u)' = Read(u) /\ Macros(u)' = Macros(u) \cup {l}
  <2>1. l \notin Header
    BY <1>1, <1>10
  <2>2. {j \in DOMAIN new : new[j] \in Header} = {j \in DOMAIN old : old[j] \in Header}
    BY <1>3, <1>8, <2>1
  <2>3. \A i \in {j \in DOMAIN old : old[j] \in Header} : Reads[new[i]] = Reads[old[i]]
    BY <1>3
  <2>4. Read(u)' = Read(u)
    BY <1>4, <1>5, <2>2, <2>3
  <2>5. {new[i] : i \in DOMAIN new} = {old[i] : i \in DOMAIN old} \cup {l}
    BY <1>3, <1>8
  <2> QED
    BY <1>6, <1>7, <1>10, <2>4, <2>5
<1>11. Orderly(u) <=>
         \A i \in DOMAIN old : old[i] \in Defined =>
           \E k \in 1 .. i :
             /\ old[k] = old[i]
             /\ \A j \in 1 .. k - 1 : old[j] \in Header => "except" \notin Reads[old[j]]
  BY DEF Orderly, old
<1>12. Orderly(u)' <=>
         \A i \in DOMAIN new : new[i] \in Defined =>
           \E k \in 1 .. i :
             /\ new[k] = new[i]
             /\ \A j \in 1 .. k - 1 : new[j] \in Header => "except" \notin Reads[new[j]]
  BY DEF Orderly, new, Defined, Header, Reads, Includes
<1>13. ASSUME Orderly(u)' PROVE Orderly(u)
  <2> SUFFICES ASSUME NEW i \in 1 .. n, old[i] \in Defined
               PROVE  \E k \in 1 .. i :
                        /\ old[k] = old[i]
                        /\ \A j \in 1 .. k - 1 : old[j] \in Header => "except" \notin Reads[old[j]]
    BY <1>3, <1>11
  <2>1. i \in 1 .. n + 1 /\ new[i] = old[i]
    BY <1>3
  <2>2. PICK k \in 1 .. i :
          /\ new[k] = new[i]
          /\ \A j \in 1 .. k - 1 : new[j] \in Header => "except" \notin Reads[new[j]]
    BY <1>3, <1>12, <1>13, <2>1
  <2>3. k \in 1 .. n /\ \A j \in 1 .. k - 1 : j \in 1 .. n
    BY <1>3
  <2> QED
    BY <1>3, <2>1, <2>2, <2>3
<1>14. ASSUME Orderly(u)', l \in Defined, "except" \in Read(u)
       PROVE  l \in Macros(u)
  <2>1. PICK k \in 1 .. n + 1 :
          /\ new[k] = l
          /\ \A j \in 1 .. k - 1 : new[j] \in Header => "except" \notin Reads[new[j]]
    BY <1>3, <1>12, <1>14
  <2>2. PICK j \in 1 .. n : old[j] \in Header /\ "except" \in Reads[old[j]]
    BY <1>3, <1>4, <1>14
  <2>3. k # n + 1
    BY <1>3, <2>1, <2>2
  <2> QED
    BY <1>3, <1>6, <1>8, <1>14, <2>1, <2>3
<1> QED
  BY <1>2, <1>3, <1>9, <1>10, <1>13, <1>14 DEF old, new

(* A line of one unit is nothing to another.                                 *)
LEMMA OtherUnit ==
  ASSUME NEW w \in Unit, Shape(w), build' = build, lines'[w] = lines[w],
         defined'[w] = defined[w], mode'[w] = mode[w], checks'[w] = checks[w],
         api'[w] = api[w], varient'[w] = varient[w]
  PROVE  Shape(w)'
<1>1. Read(w)' = Read(w) /\ Macros(w)' = Macros(w)
  BY DEF Read, Macros, Header, Reads, Includes, Defined
<1>2. Orderly(w)' <=> Orderly(w)
  BY DEF Orderly, Header, Reads, Includes, Defined
<1> QED
  BY <1>1, <1>2 DEF Shape, Text, Header, Includes, Defined

LEMMA DefineStep ==
  ASSUME IInv, NEW u \in Unit, NEW m, Define(u, m)
  PROVE  IInv'
<1>1. m \in Defined /\ m \in Text /\ NextLine(u, m) /\ Shape(u)
  BY DEF Define, Text, IInv
<1>2. /\ build' = build /\ Functions'
      /\ defined'[u] = defined[u] \cup {m}
      /\ mode' = mode /\ checks' = checks /\ api' = api /\ varient' = varient
      /\ \A w \in Unit : w # u => lines'[w] = lines[w] /\ defined'[w] = defined[w]
  BY DEF Define, NextLine, IInv, Functions
<1>3. /\ lines'[u] \in Seq(Text)
      /\ Read(u)' = Read(u) /\ Macros(u)' = Macros(u) \cup {m}
      /\ Orderly(u)' => Orderly(u)
      /\ Orderly(u)' /\ "except" \in Read(u) => m \in Macros(u)
  BY <1>1, NewLine DEF Shape, IInv, Functions
<1>4. Orderly(u)' /\ "except" \in Read(u) => defined'[u] = defined[u]
  BY <1>1, <1>2, <1>3 DEF Shape
<1>5. Shape(u)'
  <2>1. (Text = Text') /\ (Defined = Defined')
    BY DEF Text, Header, Includes, Defined
  <2> QED
    BY <1>1, <1>2, <1>3, <1>4, <2>1 DEF Shape
<1> QED
  BY <1>2, <1>5, OtherUnit DEF IInv

LEMMA IncludeStep ==
  ASSUME IInv, NEW u \in Unit, NEW h, Include(u, h)
  PROVE  IInv'
<1> DEFINE new    == Reads[h] \ Read(u)
           d      == Configured(u, new)
           chosen == IF "except" \in new THEN ModeOf(u, d) ELSE mode[u]
           check  == IF "assertion" \in new THEN ChecksOf(d) ELSE checks[u]
<1>1. h \in Header /\ h \in Text /\ NextLine(u, h) /\ Shape(u)
  BY DEF Include, Text, IInv
<1>2. /\ build' = build /\ Functions'
      /\ defined'[u] = d /\ mode'[u] = chosen /\ checks'[u] = check
      /\ api'[u] = IF "except" \in new THEN Api(d) ELSE api[u]
      /\ varient'[u] = IF "varient" \in new
                       THEN {[named |-> chosen = "debug", checked |-> check]} ELSE varient[u]
      /\ \A w \in Unit : w # u =>
           /\ lines'[w] = lines[w] /\ defined'[w] = defined[w] /\ mode'[w] = mode[w]
           /\ checks'[w] = checks[w] /\ api'[w] = api[w] /\ varient'[w] = varient[w]
  BY DEF Include, NextLine, IInv, Functions
<1>3. /\ lines'[u] \in Seq(Text)
      /\ Read(u)' = Read(u) \cup Reads[h] /\ Macros(u)' = Macros(u)
      /\ Orderly(u)' => Orderly(u)
  BY <1>1, NewLine DEF Shape, IInv, Functions
<1>4. /\ defined[u] \subseteq d
      /\ "configuration" \in new => build.options \subseteq d
      /\ {"platform", "configuration"} \cap new = {} => d = defined[u]
  BY DEF Configured
<1>5. /\ "except" \in Reads[h] => {"platform", "configuration"} \subseteq Reads[h]
      /\ "assertion" \in Reads[h] => "except" \in Reads[h]
      /\ "varient" \in Reads[h] => {"except", "assertion"} \subseteq Reads[h]
  BY <1>1, ReadsClosed
<1>6. /\ chosen = IF "except" \in new
                  THEN (IF "METHAN_DEBUG" \in d THEN "debug" ELSE "release") ELSE mode[u]
      /\ check = IF "assertion" \in new THEN d \cap Defined # {} ELSE checks[u]
      /\ "METHAN_DEBUG" \in Defined
      /\ "except" \in new => Api(d) \in {"undefined", "nothing", "dllexport", "dllimport", "visible"}
  BY DEF ModeOf, ChecksOf, Defined, Api
<1>7. "except" \in Read(u) => d = defined[u]
  BY <1>1, <1>4 DEF Shape
<1>8. \A g : g \in Read(u)' <=> g \in Read(u) \/ g \in new
  BY <1>3
<1> HIDE DEF new, d, chosen, check
<1>9. Shape(u)'
  <2>1. (Text = Text') /\ (Defined = Defined')
    BY DEF Text, Header, Includes, Defined
  <2>2. new = Reads[h] \ Read(u)
    BY DEF new
  <2>3. /\ Macros(u)' \subseteq defined'[u]
        /\ "configuration" \in Read(u)' => build'.options \subseteq defined'[u]
    BY <1>1, <1>2, <1>3, <1>4, <1>8 DEF Shape
  <2>4. /\ "except" \in Read(u)' => {"platform", "configuration"} \subseteq Read(u)'
        /\ "varient" \in Read(u)' => {"except", "assertion"} \subseteq Read(u)'
        /\ "assertion" \in Read(u)' => "except" \in Read(u)'
    BY <1>1, <1>3, <1>5 DEF Shape
  <2>5. /\ mode'[u] \in {"none", "debug", "release"}
        /\ mode'[u] = "none" <=> "except" \notin Read(u)'
        /\ mode'[u] = "debug" => "METHAN_DEBUG" \in defined'[u]
    BY <1>1, <1>2, <1>4, <1>6, <1>8, <2>2 DEF Shape
  <2>6. /\ checks'[u] \in BOOLEAN
        /\ checks'[u] => "assertion" \in Read(u)'
        /\ mode'[u] = "debug" /\ "assertion" \in Read(u)' => checks'[u]
    <3>1. CASE "assertion" \in new
      BY <1>2, <1>6, <1>8, <2>5, <3>1
    <3>2. CASE "assertion" \notin new
      BY <1>1, <1>2, <1>6, <1>8, <2>2, <3>2 DEF Shape
    <3> QED
      BY <3>1, <3>2
  <2>7. api'[u] \in {"undefined", "nothing", "dllexport", "dllimport", "visible"}
    BY <1>1, <1>2, <1>6 DEF Shape
  <2>8. /\ varient'[u] \subseteq {[named |-> mode'[u] = "debug", checked |-> checks'[u]]}
        /\ varient'[u] = {} <=> "varient" \notin Read(u)'
    <3>1. CASE "varient" \in new
      BY <1>2, <1>8, <3>1
    <3>2. CASE "varient" \notin new /\ "varient" \in Read(u)
      <4>1. mode'[u] = mode[u] /\ checks'[u] = checks[u] /\ varient'[u] = varient[u]
        BY <1>1, <1>2, <1>6, <2>2, <3>2 DEF Shape
      <4> QED
        BY <1>1, <1>8, <3>2, <4>1 DEF Shape
    <3>3. CASE "varient" \notin new /\ "varient" \notin Read(u)
      BY <1>1, <1>2, <1>8, <3>3 DEF Shape
    <3> QED
      BY <3>1, <3>2, <3>3
  <2>9. Orderly(u)' /\ "except" \in Read(u)' =>
          ("METHAN_DEBUG" \in defined'[u] <=> mode'[u] = "debug")
    BY <1>1, <1>2, <1>3, <1>6, <1>7, <1>8, <2>2 DEF Shape
  <2>10. Orderly(u)' /\ "assertion" \in Read(u)' => (defined'[u] \cap Defined # {} <=> checks'[u])
    BY <1>1, <1>2, <1>3, <1>6, <1>7, <1>8, <2>2 DEF Shape
  <2> QED
    BY <1>2, <1>3, <2>1, <2>3, <2>4, <2>5, <2>6, <2>7, <2>8, <2>9, <2>10 DEF Shape
<1> QED
  BY <1>2, <1>9, OtherUnit DEF IInv

LEMMA Invariance == Spec => []IInv
<1>1. Init => IInv
  <2>0. Init => Functions
    BY DEF Init, Functions
  <2> SUFFICES ASSUME Init, NEW u \in Unit PROVE Shape(u)
    BY <2>0 DEF IInv
  <2>1. lines[u] = <<>> /\ Read(u) = {} /\ Macros(u) = {}
    BY DEF Init, Read, Macros
  <2>2. /\ mode[u] = "none" /\ checks[u] = FALSE /\ api[u] = "undefined" /\ varient[u] = {}
    BY DEF Init
  <2>3. lines[u] \in Seq(Text)
    BY <2>1
  <2> QED
    BY <2>1, <2>2, <2>3 DEF Shape
<1>2. IInv /\ [Next]_vars => IInv'
  <2>1. IInv /\ Next => IInv'
    BY DefineStep, IncludeStep DEF Next
  <2>2. IInv /\ UNCHANGED vars => IInv'
    <3>1. IInv /\ UNCHANGED vars => Functions'
      BY DEF vars, IInv, Functions
    <3> SUFFICES ASSUME IInv, UNCHANGED vars, NEW w \in Unit PROVE Shape(w)'
      BY <3>1 DEF IInv
    <3>2. Shape(w)
      BY DEF IInv
    <3> QED
      BY <3>2, OtherUnit DEF vars
  <2> QED
    BY <2>1, <2>2
<1> QED
  BY <1>1, <1>2, PTL DEF Spec

(* Each macro has a value of its kind in each unit, from except.hpp on.      *)
THEOREM ConfigurationTypes == Spec => []TypeOK
<1>1. ASSUME IInv PROVE TypeOK
  <2> SUFFICES ASSUME NEW u \in Unit
               PROVE  /\ mode[u] \in {"none", "debug", "release"}
                      /\ mode[u] = "none" <=> "except" \notin Read(u)
                      /\ checks[u] \in BOOLEAN
                      /\ api[u] \in {"undefined", "nothing", "dllexport", "dllimport", "visible"}
                      /\ varient[u] \subseteq [named : BOOLEAN, checked : BOOLEAN]
                      /\ varient[u] = {} <=> "varient" \notin Read(u)
    BY DEF TypeOK
  <2>1. Shape(u)
    BY <1>1 DEF IInv
  <2>2. checks[u] \in BOOLEAN /\ (mode[u] = "debug") \in BOOLEAN
    BY <2>1 DEF Shape
  <2>3. varient[u] \subseteq [named : BOOLEAN, checked : BOOLEAN]
    <3>1. \A a, b \in BOOLEAN :
            [named |-> a, checked |-> b] \in [named : BOOLEAN, checked : BOOLEAN]
      OBVIOUS
    <3>2. [named |-> mode[u] = "debug", checked |-> checks[u]] \in [named : BOOLEAN, checked : BOOLEAN]
      BY <2>2, <3>1
    <3> QED
      BY <2>1, <3>2 DEF Shape
  <2> QED
    BY <2>1, <2>3 DEF Shape
<1> QED
  BY <1>1, Invariance, PTL

(* Units that define the same macros before they read except.hpp have the    *)
(* same Varient, whatever headers they read and in which order.              *)
THEOREM VarientIsOne == Spec => []OneVarient
<1>1. ASSUME IInv PROVE OneVarient
  <2>1. ASSUME NEW u \in Unit, Orderly(u), NEW x \in varient[u]
        PROVE  x = [named |-> "METHAN_DEBUG" \in defined[u] \cap Defined,
                    checked |-> defined[u] \cap Defined # {}]
    <3>1. /\ "METHAN_DEBUG" \in defined[u] <=> mode[u] = "debug"
          /\ defined[u] \cap Defined # {} <=> checks[u]
          /\ x = [named |-> mode[u] = "debug", checked |-> checks[u]]
          /\ checks[u] \in BOOLEAN
      BY <1>1, <2>1 DEF IInv, Shape
    <3> QED
      BY <3>1 DEF Defined
  <2>2. ASSUME NEW u \in Unit, NEW x \in varient[u]
        PROVE  x.named => x.checked
    BY <1>1, <2>2 DEF IInv, Shape
  <2>3. ASSUME NEW u \in Unit, NEW x \in varient[u], Orderly(u), x.checked
        PROVE  x.named \/ "METHAN_FORCE_ASSERTION" \in defined[u]
    BY <2>1, <2>3 DEF Defined
  <2> QED
    BY <2>1, <2>2, <2>3 DEF OneVarient
<1> QED
  BY <1>1, Invariance, PTL

-----------------------------------------------------------------------------
(* METHAN_API.  What it is follows from the compiler, which platform.hpp     *)
(* finds in what the compiler predefines, and from two macros of the build.  *)
Predefined == {"__clang__", "_MSC_VER", "__llvm__", "__MINGW32__", "__GNUC__"}
Switches   == {"METHAN_BUILD_SHARED", "METHAN_EXPORT"}
Looked     == Predefined \cup Compilers \cup Switches

(* A cascade defines what some branch of it defines, and which is decided by *)
(* the conditions alone.                                                     *)
LEMMA CascadeFacts ==
  ASSUME NEW branches, NEW n \in Nat, DOMAIN branches = 1 .. n, NEW d
  PROVE  \A x \in Cascade(branches, d) : \E i \in 1 .. n :
           /\ x \in branches[i][2] /\ Holds(branches[i], d)
           /\ \A j \in 1 .. i - 1 : ~Holds(branches[j], d)
  BY DEF Cascade

LEMMA CascadeSame ==
  ASSUME NEW branches, NEW n \in Nat, DOMAIN branches = 1 .. n, NEW d, NEW e,
         \A i \in 1 .. n : Holds(branches[i], d) <=> Holds(branches[i], e)
  PROVE  Cascade(branches, d) = Cascade(branches, e)
<1>1. \A i \in 1 .. n : \A j \in 1 .. i - 1 : j \in 1 .. n
  OBVIOUS
<1>2. {i \in 1 .. n : Holds(branches[i], d) /\ \A j \in 1 .. i - 1 : ~Holds(branches[j], d)}
        = {i \in 1 .. n : Holds(branches[i], e) /\ \A j \in 1 .. i - 1 : ~Holds(branches[j], e)}
  BY <1>1
<1> QED
  BY <1>2 DEF Cascade

LEMMA CompilerFacts ==
  ASSUME NEW d
  PROVE  /\ Compiler(d) \subseteq
              {"METHAN_COMPILER_CLANG", "METHAN_COMPILER_MSC", "METHAN_COMPILER_LLVM",
               "METHAN_COMPILER_MINGW", "METHAN_COMPILER_GCC"}
         /\ \A e : d \cap Predefined = e \cap Predefined => Compiler(d) = Compiler(e)
         /\ "METHAN_COMPILER_MSC" \in Compiler(d) => "_MSC_VER" \in d
         /\ "METHAN_COMPILER_GCC" \in Compiler(d) => "_MSC_VER" \notin d
<1> DEFINE b == <<
      <<AnyOf({"__clang__"}),    {"METHAN_COMPILER_CLANG"}>>,
      <<AnyOf({"_MSC_VER"}),     {"METHAN_COMPILER_MSC"}>>,
      <<AnyOf({"__llvm__"}),     {"METHAN_COMPILER_LLVM"}>>,
      <<AnyOf({"__MINGW32__"}),  {"METHAN_COMPILER_MINGW", "METHAN_COMPILER_GCC"}>>,
      <<AnyOf({"__GNUC__"}),     {"METHAN_COMPILER_GCC"}>> >>
<1>1. \A e : Compiler(e) = Cascade(b, e)
  BY DEF Compiler
<1>2. /\ DOMAIN b = 1 .. 5
      /\ b[1] = <<AnyOf({"__clang__"}),    {"METHAN_COMPILER_CLANG"}>>
      /\ b[2] = <<AnyOf({"_MSC_VER"}),     {"METHAN_COMPILER_MSC"}>>
      /\ b[3] = <<AnyOf({"__llvm__"}),     {"METHAN_COMPILER_LLVM"}>>
      /\ b[4] = <<AnyOf({"__MINGW32__"}),  {"METHAN_COMPILER_MINGW", "METHAN_COMPILER_GCC"}>>
      /\ b[5] = <<AnyOf({"__GNUC__"}),     {"METHAN_COMPILER_GCC"}>>
  OBVIOUS
<1> HIDE DEF b
<1>3. \A i \in 1 .. 5 : i \in {1, 2, 3, 4, 5}
  OBVIOUS
<1>4. /\ b[1][2] = {"METHAN_COMPILER_CLANG"} /\ b[2][2] = {"METHAN_COMPILER_MSC"}
      /\ b[3][2] = {"METHAN_COMPILER_LLVM"}
      /\ b[4][2] = {"METHAN_COMPILER_MINGW", "METHAN_COMPILER_GCC"}
      /\ b[5][2] = {"METHAN_COMPILER_GCC"}
  BY <1>2
<1>5. Compiler(d) \subseteq
        {"METHAN_COMPILER_CLANG", "METHAN_COMPILER_MSC", "METHAN_COMPILER_LLVM",
         "METHAN_COMPILER_MINGW", "METHAN_COMPILER_GCC"}
  <2>1. \A x \in Cascade(b, d) : \E i \in 1 .. 5 : x \in b[i][2]
    BY <1>2, CascadeFacts
  <2> QED
    BY <1>1, <1>3, <1>4, <2>1
<1>6. \A e : /\ Holds(b[1], e) <=> "__clang__" \in e
             /\ Holds(b[2], e) <=> "_MSC_VER" \in e
             /\ Holds(b[3], e) <=> "__llvm__" \in e
             /\ Holds(b[4], e) <=> "__MINGW32__" \in e
             /\ Holds(b[5], e) <=> "__GNUC__" \in e
  <2>1. /\ b[1][1] = {{"__clang__"}} /\ b[2][1] = {{"_MSC_VER"}} /\ b[3][1] = {{"__llvm__"}}
        /\ b[4][1] = {{"__MINGW32__"}} /\ b[5][1] = {{"__GNUC__"}}
    BY <1>2 DEF AnyOf
  <2>2. ASSUME NEW i \in 1 .. 5, NEW x, NEW e, b[i][1] = {{x}}
        PROVE  Holds(b[i], e) <=> x \in e
    BY <2>2 DEF Holds
  <2>3. 1 \in 1 .. 5 /\ 2 \in 1 .. 5 /\ 3 \in 1 .. 5 /\ 4 \in 1 .. 5 /\ 5 \in 1 .. 5
    OBVIOUS
  <2>4. \A e : Holds(b[1], e) <=> "__clang__" \in e
    BY <2>1, <2>2, <2>3
  <2>5. \A e : Holds(b[2], e) <=> "_MSC_VER" \in e
    BY <2>1, <2>2, <2>3
  <2>6. \A e : Holds(b[3], e) <=> "__llvm__" \in e
    BY <2>1, <2>2, <2>3
  <2>7. \A e : Holds(b[4], e) <=> "__MINGW32__" \in e
    BY <2>1, <2>2, <2>3
  <2>8. \A e : Holds(b[5], e) <=> "__GNUC__" \in e
    BY <2>1, <2>2, <2>3
  <2> QED
    BY <2>4, <2>5, <2>6, <2>7, <2>8
<1>7. ASSUME NEW e, d \cap Predefined = e \cap Predefined
      PROVE  Compiler(d) = Compiler(e)
  <2>1. \A x \in Predefined : x \in d <=> x \in e
    BY <1>7
  <2>2. \A i \in 1 .. 5 : Holds(b[i], d) <=> Holds(b[i], e)
    BY <1>3, <1>6, <2>1 DEF Predefined
  <2>3. Cascade(b, d) = Cascade(b, e)
    <3>1. DOMAIN b = 1 .. 5 /\ 5 \in Nat
      BY <1>2
    <3> QED
      BY <2>2, <3>1, CascadeSame, Zenon
  <2> QED
    BY <1>1, <2>3
<1>8. ASSUME NEW x \in {"METHAN_COMPILER_MSC", "METHAN_COMPILER_GCC"}, x \in Compiler(d)
      PROVE  "_MSC_VER" \in d <=> x = "METHAN_COMPILER_MSC"
  <2>1. PICK i \in 1 .. 5 : /\ x \in b[i][2] /\ Holds(b[i], d)
                            /\ \A j \in 1 .. i - 1 : ~Holds(b[j], d)
    BY <1>1, <1>2, <1>8, CascadeFacts
  <2>2. CASE i = 2
    BY <1>4, <1>6, <2>1, <2>2
  <2>3. CASE i \in {4, 5}
    <3>1. 2 \in 1 .. i - 1
      BY <2>3
    <3> QED
      BY <1>4, <1>6, <2>1, <2>3, <3>1
  <2> QED
    BY <1>3, <1>4, <2>1, <2>2, <2>3
<1> QED
  BY <1>5, <1>7, <1>8

OsNames  == {"METHAN_OS_WINDOWS", "METHAN_OS_MACOS", "METHAN_OS_LINUX",
             "METHAN_OS_UNIX", "METHAN_OS_UNIX_LIKE"}
SetNames == {"SSE2", "SSE3", "SSSE3", "SSE41", "SSE42", "SSSE41", "SSSE42",
             "AVX", "AVX2", "AVX512F", "AVX_F16C", "AVX_FMA"}

(* The system and the instruction sets have names of their own.              *)
LEMMA OtherNames ==
  ASSUME NEW d
  PROVE  /\ Os(d) \subseteq OsNames /\ Support(d) \subseteq SetNames
         /\ Os(d) \cap Looked = {} /\ Support(d) \cap Looked = {}
<1>1. Os(d) \subseteq OsNames
  <2> DEFINE b == <<
        <<AnyOf({"_WIN32", "_WIN64", "__WIN32__", "__TOS_WIN__", "__WINDOWS__"}),
          {"METHAN_OS_WINDOWS"}>>,
        <<AnyOf({"macintosh", "Macintosh"}) \cup {{"__APPLE__", "__MACH__"}},
          {"METHAN_OS_MACOS", "METHAN_OS_UNIX_LIKE"}>>,
        <<AnyOf({"linux", "__linux"}),
          {"METHAN_OS_LINUX", "METHAN_OS_UNIX_LIKE"}>>,
        <<AnyOf({"unix", "__unix", "_XOPEN_SOURCE", "_POSIX_SOURCE"}),
          {"METHAN_OS_UNIX", "METHAN_OS_UNIX_LIKE"}>> >>
  <2>1. Os(d) = Cascade(b, d)
    BY DEF Os
  <2>2. /\ DOMAIN b = 1 .. 4
        /\ b[1][2] = {"METHAN_OS_WINDOWS"}
        /\ b[2][2] = {"METHAN_OS_MACOS", "METHAN_OS_UNIX_LIKE"}
        /\ b[3][2] = {"METHAN_OS_LINUX", "METHAN_OS_UNIX_LIKE"}
        /\ b[4][2] = {"METHAN_OS_UNIX", "METHAN_OS_UNIX_LIKE"}
    OBVIOUS
  <2> HIDE DEF b
  <2>3. \A x \in Cascade(b, d) : \E i \in 1 .. 4 : x \in b[i][2]
    BY <2>2, CascadeFacts
  <2>4. \A i \in 1 .. 4 : i \in {1, 2, 3, 4}
    OBVIOUS
  <2> QED
    BY <2>1, <2>2, <2>3, <2>4 DEF OsNames
<1>2. Support(d) \subseteq SetNames
  <2>1. \A entry \in SupportOfGcc : entry[2] \in SetNames
    BY DEF SupportOfGcc, SetNames
  <2>2. \A entry \in SupportOfMsc : entry[2] \in SetNames
    BY DEF SupportOfMsc, SetNames
  <2> QED
    BY <2>1, <2>2 DEF Support
<1>3. OsNames \cap Looked = {} /\ SetNames \cap Looked = {}
  BY DEF OsNames, SetNames, Looked, Predefined, Compilers, Switches
<1> QED
  BY <1>1, <1>2, <1>3

(* The invariant: the macros that METHAN_API depends on are the same in all  *)
(* units from except.hpp on, but for METHAN_EXPORT, and stay what they were  *)
(* when METHAN_API was defined.                                              *)
Exports(u) ==
  /\ defined[u] \cap Predefined = build.machine \cap Predefined
  /\ defined[u] \cap Compilers =
       IF "platform" \in Read(u) THEN Compiler(build.machine) \cap Compilers ELSE {}
  /\ "METHAN_EXPORT" \in defined[u] <=> u \in Library
  /\ "METHAN_BUILD_SHARED" \in defined[u] <=>
       "configuration" \in Read(u) /\ "METHAN_BUILD_SHARED" \in build.options
  /\ "except" \in Read(u) => api[u] = Api(defined[u])

LInv ==
  /\ build.machine \in Machine /\ build.options \in Options
  /\ \A u \in Unit : Exports(u)

(* Api looks at nothing else.                                                *)
LEMMA ApiFacts ==
  ASSUME NEW d, NEW e, d \cap Compilers = e \cap Compilers,
         d \cap Switches = e \cap Switches
  PROVE  Api(d) = Api(e)
<1>1. \A x \in Compilers \cup Switches : x \in d <=> x \in e
  OBVIOUS
<1>2. /\ "METHAN_BUILD_SHARED" \in d <=> "METHAN_BUILD_SHARED" \in e
      /\ "METHAN_EXPORT" \in d <=> "METHAN_EXPORT" \in e
      /\ "METHAN_COMPILER_MSC" \in d <=> "METHAN_COMPILER_MSC" \in e
      /\ "METHAN_COMPILER_GCC" \in d <=> "METHAN_COMPILER_GCC" \in e
      /\ "METHAN_COMPILER_CLANG" \in d <=> "METHAN_COMPILER_CLANG" \in e
  BY <1>1 DEF Compilers, Switches
<1>3. d \cap {"METHAN_COMPILER_GCC", "METHAN_COMPILER_CLANG"} # {}
        <=> e \cap {"METHAN_COMPILER_GCC", "METHAN_COMPILER_CLANG"} # {}
  BY <1>2
<1> QED
  BY <1>2, <1>3 DEF Api

LEMMA ExportsStep ==
  ASSUME IInv, LInv, NEW u \in Unit, NEW l, Define(u, l) \/ Include(u, l)
  PROVE  Exports(u)'
<1>0. Exports(u) /\ Shape(u) /\ build.options \subseteq Defined \cup {"METHAN_BUILD_SHARED"}
  BY MachineAssumption DEF LInv, IInv
<1>1. /\ l \in Text /\ NextLine(u, l) /\ build' = build
      /\ DOMAIN defined = Unit /\ DOMAIN api = Unit
  BY DEF Define, Include, NextLine, Text, IInv, Functions
<1>2. /\ l \in Header => Read(u)' = Read(u) \cup Reads[l]
      /\ l \in Defined => Read(u)' = Read(u)
  BY <1>0, <1>1, NewLine DEF Shape, IInv, Functions
<1>3. Defined \cap Looked = {}
  BY DEF Defined, Looked, Predefined, Compilers, Switches
<1>4. /\ (Predefined = Predefined') /\ (Compilers = Compilers')
  BY DEF Predefined, Compilers
<1>5. /\ Predefined \cap Compilers = {} /\ Predefined \cap Switches = {}
      /\ Compilers \cap Switches = {}
      /\ Predefined \subseteq Looked /\ Compilers \subseteq Looked
      /\ "METHAN_EXPORT" \in Looked /\ "METHAN_BUILD_SHARED" \in Looked
      /\ "METHAN_EXPORT" \in Switches /\ "METHAN_BUILD_SHARED" \in Switches
      /\ Switches = {"METHAN_EXPORT", "METHAN_BUILD_SHARED"}
      /\ Predefined \cap {"#error"} = {} /\ Looked \cap {"#error"} = {}
  BY DEF Predefined, Compilers, Switches, Looked
<1>6. CASE Define(u, l)
  <2>1. /\ defined'[u] = defined[u] \cup {l} /\ api'[u] = api[u] /\ l \in Defined
    BY <1>1, <1>6 DEF Define
  <2>2. \A x \in Looked : x \in defined'[u] <=> x \in defined[u]
    BY <1>3, <2>1
  <2>3. /\ defined'[u] \cap Predefined = defined[u] \cap Predefined
        /\ defined'[u] \cap Compilers = defined[u] \cap Compilers
        /\ defined'[u] \cap Switches = defined[u] \cap Switches
    BY <1>5, <2>2
  <2>4. Api(defined'[u]) = Api(defined[u])
    BY <2>3, ApiFacts
  <2>5. Api(defined[u])' = Api(defined'[u]) /\ Compiler(build.machine)' = Compiler(build.machine)
    BY <1>1 DEF Api, Compiler, Cascade, Holds, AnyOf
  <2> QED
    BY <1>0, <1>1, <1>2, <1>4, <1>5, <2>1, <2>2, <2>3, <2>4, <2>5 DEF Exports
<1>7. CASE Include(u, l)
  <2> DEFINE new == Reads[l] \ Read(u)
             d   == Configured(u, new)
             c   == Compiler(defined[u])
  <2>1. /\ l \in Header
        /\ defined'[u] = d
        /\ api'[u] = IF "except" \in new THEN Api(d) ELSE api[u]
    BY <1>1, <1>7 DEF Include
  <2>2. c = Compiler(build.machine)
    BY <1>0, CompilerFacts DEF Exports
  <2>3. c \cap Predefined = {} /\ c \cap Switches = {}
    BY CompilerFacts DEF Predefined, Switches
  <2>4. \A x \in Looked :
          x \in d <=> \/ x \in defined[u]
                      \/ "platform" \in new /\ x \in c
                      \/ "configuration" \in new /\ x \in build.options
    <3>1. Os(defined[u]) \cap Looked = {} /\ Support(defined[u]) \cap Looked = {}
      BY OtherNames
    <3> QED
      BY <1>5, <3>1 DEF Configured
  <2>5. \A g : g \in Read(u)' <=> g \in Read(u) \/ g \in new
    BY <1>2, <2>1
  <2>6. \A x \in Looked : x \in build.options => x = "METHAN_BUILD_SHARED"
    BY <1>0, <1>3
  <2>7. /\ "except" \in Read(u) => {"platform", "configuration"} \cap new = {}
        /\ "except" \in new => {"platform", "configuration"} \subseteq Read(u)'
    <3>1. "except" \in Reads[l] => {"platform", "configuration"} \subseteq Reads[l]
      BY <2>1, ReadsClosed
    <3> QED
      BY <1>0, <1>2, <2>1, <3>1 DEF Shape
  <2> HIDE DEF new, d, c
  <2>8. d \cap Predefined = defined[u] \cap Predefined
    BY <1>5, <2>3, <2>4, <2>6
  <2>9. "METHAN_EXPORT" \in d <=> "METHAN_EXPORT" \in defined[u]
    BY <1>5, <2>3, <2>4, <2>6
  <2>10. "METHAN_BUILD_SHARED" \in d <=>
           "configuration" \in Read(u)' /\ "METHAN_BUILD_SHARED" \in build.options
    BY <1>0, <1>5, <2>3, <2>4, <2>5 DEF Exports
  <2>11. d \cap Compilers = IF "platform" \in Read(u)' THEN c \cap Compilers ELSE {}
    <3>1. \A x \in Compilers : x \in d <=> x \in defined[u] \/ ("platform" \in new /\ x \in c)
      BY <1>5, <2>4, <2>6
    <3>2. defined[u] \cap Compilers = IF "platform" \in Read(u) THEN c \cap Compilers ELSE {}
      BY <1>0, <2>2 DEF Exports
    <3> QED
      BY <2>5, <3>1, <3>2
  <2>12. "except" \in Read(u)' => api'[u] = Api(d)
    <3>1. CASE "except" \in new
      BY <2>1, <3>1
    <3>2. CASE "except" \notin new /\ "except" \in Read(u)
      <4>1. "platform" \notin new /\ "configuration" \notin new
        BY <2>7, <3>2
      <4>2. \A x \in Looked : x \in d <=> x \in defined[u]
        BY <2>4, <4>1
      <4>3. d \cap Compilers = defined[u] \cap Compilers /\ d \cap Switches = defined[u] \cap Switches
        BY <1>5, <4>2
      <4> QED
        BY <1>0, <2>1, <3>2, <4>3, ApiFacts DEF Exports
    <3> QED
      BY <2>5, <3>1, <3>2
  <2>13. Api(defined[u])' = Api(defined'[u]) /\ Compiler(build.machine)' = Compiler(build.machine)
    BY <1>1 DEF Api, Compiler, Cascade, Holds, AnyOf
  <2> QED
    BY <1>0, <1>1, <1>4, <2>1, <2>2, <2>8, <2>9, <2>10, <2>11, <2>12, <2>13 DEF Exports
<1> QED
  BY <1>6, <1>7

LEMMA ExportsStay ==
  ASSUME NEW w \in Unit, Exports(w), build' = build, lines'[w] = lines[w],
         defined'[w] = defined[w], api'[w] = api[w]
  PROVE  Exports(w)'
<1>1. Read(w)' = Read(w)
  BY DEF Read, Header, Reads, Includes
<1>2. Api(defined[w])' = Api(defined[w]) /\ Compiler(build.machine)' = Compiler(build.machine)
  BY DEF Api, Compiler, Cascade, Holds, AnyOf
<1> QED
  BY <1>1, <1>2 DEF Exports, Predefined, Compilers

LEMMA LInvariance == Spec => []LInv
<1>1. Init => LInv
  <2>0. Init => build.machine \in Machine /\ build.options \in Options
    BY DEF Init
  <2> SUFFICES ASSUME Init, NEW u \in Unit PROVE Exports(u)
    BY <2>0 DEF LInv
  <2>1. Read(u) = {}
    BY DEF Init, Read
  <2>2. defined[u] = build.machine \cup IF u \in Library THEN {"METHAN_EXPORT"} ELSE {}
    BY DEF Init
  <2>3. build.machine \cap {"METHAN_BUILD_SHARED", "METHAN_EXPORT", "METHAN_COMPILER_CLANG",
                            "METHAN_COMPILER_MSC", "METHAN_COMPILER_GCC"} = {}
    BY <2>0, MachineAssumption
  <2> QED
    BY <2>1, <2>2, <2>3 DEF Exports, Predefined, Compilers
<1>2. IInv /\ LInv /\ [Next]_vars => LInv'
  <2>1. ASSUME IInv, LInv, NEW u \in Unit, NEW l \in Line, Define(u, l) \/ Include(u, l)
        PROVE  LInv'
    <3>1. build' = build
      BY <2>1 DEF Define, Include, NextLine
    <3>2. \A w \in Unit : w # u =>
            lines'[w] = lines[w] /\ defined'[w] = defined[w] /\ api'[w] = api[w]
      BY <2>1 DEF Define, Include, NextLine, IInv, Functions
    <3>3. \A w \in Unit : w # u => Exports(w)'
      BY <2>1, <3>1, <3>2, ExportsStay DEF LInv
    <3>4. Exports(u)'
      BY <2>1, ExportsStep
    <3> QED
      BY <2>1, <3>1, <3>3, <3>4 DEF LInv
  <2>2. LInv /\ UNCHANGED vars => LInv'
    <3> SUFFICES ASSUME LInv, UNCHANGED vars PROVE LInv'
      OBVIOUS
    <3>1. \A w \in Unit : Exports(w)'
      BY ExportsStay DEF LInv, vars
    <3> QED
      BY <3>1 DEF LInv, vars
  <2> QED
    BY <2>1, <2>2 DEF Next
<1> QED
  BY <1>1, <1>2, Invariance, PTL DEF Spec

(* METHAN_API is defined for the compilers that have a branch, and what the  *)
(* client's units import is what the library's export.                       *)
THEOREM ApiIsLinked == Spec => []Linked
<1>1. ASSUME IInv, LInv PROVE Linked
  <2>1. ASSUME NEW u \in Unit, "except" \in Read(u)
        PROVE  /\ api[u] = Api(defined[u])
               /\ defined[u] \cap Compilers = Compiler(build.machine) \cap Compilers
               /\ "METHAN_EXPORT" \in defined[u] <=> u \in Library
               /\ "METHAN_BUILD_SHARED" \in defined[u] <=> "METHAN_BUILD_SHARED" \in build.options
    BY <1>1, <2>1 DEF LInv, IInv, Shape, Exports
  <2>2. ASSUME NEW u \in Unit, "except" \in Read(u), defined[u] \cap Compilers # {}
        PROVE  api[u] # "undefined"
    <3>1. "METHAN_COMPILER_MSC" \in defined[u] \/
            defined[u] \cap {"METHAN_COMPILER_GCC", "METHAN_COMPILER_CLANG"} # {}
      BY <2>2 DEF Compilers
    <3> QED
      BY <2>1, <2>2, <3>1 DEF Api
  <2>3. ASSUME NEW u \in Library, NEW w \in Unit \ Library, "except" \in Read(u) \cap Read(w)
        PROVE  /\ api[w] = "dllimport" <=> api[u] = "dllexport"
               /\ api[w] # "dllexport" /\ api[u] # "dllimport"
               /\ "METHAN_BUILD_SHARED" \notin defined[w] => api[u] = "nothing"
               /\ api[u] = "nothing" => api[w] = "nothing"
    <3>1. u \in Unit /\ w \in Unit
      BY UnitAssumption
    <3>2. /\ api[u] = Api(defined[u]) /\ api[w] = Api(defined[w])
          /\ \A x \in Compilers : x \in defined[u] <=> x \in defined[w]
          /\ "METHAN_EXPORT" \in defined[u] /\ "METHAN_EXPORT" \notin defined[w]
          /\ "METHAN_BUILD_SHARED" \in defined[u] <=> "METHAN_BUILD_SHARED" \in defined[w]
      BY <2>1, <2>3, <3>1
    <3>3. /\ "METHAN_COMPILER_MSC" \in defined[u] <=> "METHAN_COMPILER_MSC" \in defined[w]
          /\ defined[u] \cap {"METHAN_COMPILER_GCC", "METHAN_COMPILER_CLANG"} # {} <=>
               defined[w] \cap {"METHAN_COMPILER_GCC", "METHAN_COMPILER_CLANG"} # {}
      BY <3>2 DEF Compilers
    <3> QED
      BY <3>2, <3>3 DEF Api
  <2> QED
    BY <2>2, <2>3 DEF Linked
<1> QED
  BY <1>1, Invariance, LInvariance, PTL

-----------------------------------------------------------------------------
(* Instruction sets.  What is announced follows from what the compiler of    *)
(* the machine predefines, and is ascending where that is.                   *)
SetMacros == {"__SSE2__", "__SSE3__", "__SSSE3__", "__SSE4_1__", "__SSE4_2__",
              "__AVX__", "__AVX2__", "__AVX512F__", "__F16C__", "__FMA__",
              "_M_IX86_FP=2", "_M_AMD64", "_M_X64"}

LEMMA SupportFacts ==
  ASSUME NEW d
  PROVE  /\ "METHAN_COMPILER_GCC" \in Compiler(d) =>
              \A x : x \in Support(d) <=> \E e \in SupportOfGcc : e[1] \in d /\ e[2] = x
         /\ "METHAN_COMPILER_GCC" \notin Compiler(d) /\ "METHAN_COMPILER_MSC" \in Compiler(d) =>
              \A x : x \in Support(d) <=> \E e \in SupportOfMsc : e[1] \in d /\ e[2] = x
         /\ {"METHAN_COMPILER_GCC", "METHAN_COMPILER_MSC"} \cap Compiler(d) = {} =>
              Support(d) = {}
<1> DEFINE table == CASE "METHAN_COMPILER_GCC" \in Compiler(d) -> SupportOfGcc
                      [] "METHAN_COMPILER_MSC" \in Compiler(d) -> SupportOfMsc
                      [] OTHER -> {}
<1>1. Support(d) = {e[2] : e \in {e \in table : e[1] \in d}}
  BY DEF Support
<1>2. "METHAN_COMPILER_GCC" \in Compiler(d) => table = SupportOfGcc
  <2> SUFFICES ASSUME "METHAN_COMPILER_GCC" \in Compiler(d), "METHAN_COMPILER_MSC" \notin Compiler(d)
               PROVE  table = SupportOfGcc
    BY CompilerFacts
  <2> QED
    OBVIOUS
<1>3. "METHAN_COMPILER_GCC" \notin Compiler(d) =>
        /\ "METHAN_COMPILER_MSC" \in Compiler(d) => table = SupportOfMsc
        /\ "METHAN_COMPILER_MSC" \notin Compiler(d) => table = {}
  OBVIOUS
<1> HIDE DEF table
<1>4. \A x : x \in Support(d) <=> \E e \in table : e[1] \in d /\ e[2] = x
  BY <1>1
<1> QED
  BY <1>2, <1>3, <1>4

LEMMA SupportSame ==
  ASSUME NEW d, NEW e, d \cap Predefined = e \cap Predefined,
         d \cap SetMacros = e \cap SetMacros
  PROVE  Support(d) = Support(e)
<1>1. Compiler(d) = Compiler(e)
  BY CompilerFacts
<1>2. \A t \in SupportOfGcc \cup SupportOfMsc : t[1] \in d <=> t[1] \in e
  <2>1. \A t \in SupportOfGcc \cup SupportOfMsc : t[1] \in SetMacros
    BY DEF SupportOfGcc, SupportOfMsc, SetMacros
  <2> QED
    BY <2>1
<1>3. /\ {t \in SupportOfGcc : t[1] \in d} = {t \in SupportOfGcc : t[1] \in e}
      /\ {t \in SupportOfMsc : t[1] \in d} = {t \in SupportOfMsc : t[1] \in e}
  BY <1>2
<1> QED
  BY <1>1, <1>3 DEF Support

LEMMA LadderFacts ==
  /\ DOMAIN Ladder = 1 .. 8 /\ DOMAIN GccLadder = 1 .. 8 /\ DOMAIN MscLadder = 1 .. 4
  /\ Ladder[1] = {"SSE2"} /\ Ladder[2] = {"SSE3"} /\ Ladder[3] = {"SSSE3"}
  /\ Ladder[4] = {"SSE41", "SSSE41"} /\ Ladder[5] = {"SSE42", "SSSE42"}
  /\ Ladder[6] = {"AVX"} /\ Ladder[7] = {"AVX2", "AVX_F16C", "AVX_FMA"}
  /\ Ladder[8] = {"AVX512F"}
  /\ GccLadder[1] = {"__SSE2__"} /\ GccLadder[2] = {"__SSE3__"}
  /\ GccLadder[3] = {"__SSSE3__"} /\ GccLadder[4] = {"__SSE4_1__"}
  /\ GccLadder[5] = {"__SSE4_2__"} /\ GccLadder[6] = {"__AVX__"}
  /\ GccLadder[7] = {"__AVX2__", "__F16C__", "__FMA__"} /\ GccLadder[8] = {"__AVX512F__"}
  /\ MscLadder[1] = {"_M_IX86_FP=2", "_M_AMD64", "_M_X64"}
  /\ MscLadder[2] = {"__AVX__"} /\ MscLadder[3] = {"__AVX2__"} /\ MscLadder[4] = {"__AVX512F__"}
  BY DEF Ladder, GccLadder, MscLadder

(* The table for gcc takes each rung of its ladder to the same rung, that    *)
(* for MSVC all of SSE3 to AVX from AVX.                                     *)
LEMMA GccAscends ==
  ASSUME NEW m, Ascending(GccLadder, m),
         NEW S, \A x : x \in S <=> \E e \in SupportOfGcc : e[1] \in m /\ e[2] = x
  PROVE  Ascending(Ladder, S)
<1>1. /\ "SSE2" \in S <=> "__SSE2__" \in m
      /\ "SSE3" \in S <=> "__SSE3__" \in m
      /\ "SSSE3" \in S <=> "__SSSE3__" \in m
      /\ "SSSE41" \in S <=> "__SSE4_1__" \in m
      /\ "SSSE42" \in S <=> "__SSE4_2__" \in m
      /\ "AVX" \in S <=> "__AVX__" \in m
      /\ "AVX2" \in S <=> "__AVX2__" \in m
      /\ "AVX_F16C" \in S <=> "__F16C__" \in m
      /\ "AVX_FMA" \in S <=> "__FMA__" \in m
      /\ "AVX512F" \in S <=> "__AVX512F__" \in m
      /\ "SSE41" \notin S /\ "SSE42" \notin S
  BY DEF SupportOfGcc
<1>2. \A i \in 1 .. 8 : i \in {1, 2, 3, 4, 5, 6, 7, 8}
  OBVIOUS
<1>3. \A i \in 1 .. 8 : Ladder[i] \cap S # {} <=> GccLadder[i] \cap m # {}
  BY <1>1, <1>2, LadderFacts
<1>4. \A i \in 1 .. 8 : \A j \in 1 .. i - 1 : j \in 1 .. 8
  OBVIOUS
<1> QED
  BY <1>3, <1>4, LadderFacts DEF Ascending

LEMMA MscAscends ==
  ASSUME NEW m, Ascending(MscLadder, m),
         NEW S, \A x : x \in S <=> \E e \in SupportOfMsc : e[1] \in m /\ e[2] = x
  PROVE  Ascending(Ladder, S)
<1>1. /\ "SSE2" \in S <=> {"_M_IX86_FP=2", "_M_AMD64", "_M_X64"} \cap m # {}
      /\ "SSE3" \in S <=> "__AVX__" \in m
      /\ "SSSE3" \in S <=> "__AVX__" \in m
      /\ "SSE41" \in S <=> "__AVX__" \in m
      /\ "SSE42" \in S <=> "__AVX__" \in m
      /\ "AVX" \in S <=> "__AVX__" \in m
      /\ "AVX2" \in S <=> "__AVX2__" \in m
      /\ "AVX_F16C" \in S <=> "__AVX2__" \in m
      /\ "AVX_FMA" \in S <=> "__AVX2__" \in m
      /\ "AVX512F" \in S <=> "__AVX512F__" \in m
      /\ "SSSE41" \notin S /\ "SSSE42" \notin S
  BY DEF SupportOfMsc
<1> DEFINE rung(i) == CASE i = 1 -> 1 [] i \in 2 .. 6 -> 2 [] i = 7 -> 3 [] i = 8 -> 4
<1>2. /\ rung(1) = 1 /\ rung(2) = 2 /\ rung(3) = 2 /\ rung(4) = 2 /\ rung(5) = 2
      /\ rung(6) = 2 /\ rung(7) = 3 /\ rung(8) = 4
  OBVIOUS
<1> HIDE DEF rung
<1>3. \A i \in 1 .. 8 : i \in {1, 2, 3, 4, 5, 6, 7, 8}
  OBVIOUS
<1>4. \A i \in 1 .. 8 : Ladder[i] \cap S # {} <=> MscLadder[rung(i)] \cap m # {}
  BY <1>1, <1>2, <1>3, LadderFacts
<1>5. \A i \in 1 .. 8 : \A j \in 1 .. i - 1 :
        j \in 1 .. 8 /\ (rung(j) = rung(i) \/ rung(j) \in 1 .. rung(i) - 1) /\ rung(i) \in 1 .. 4
  BY <1>2, <1>3
<1> SUFFICES ASSUME NEW i \in 1 .. 8, Ladder[i] \cap S # {}, NEW j \in 1 .. i - 1
             PROVE  Ladder[j] \cap S # {}
  BY LadderFacts DEF Ascending
<1>6. MscLadder[rung(i)] \cap m # {} /\ rung(i) \in DOMAIN MscLadder
  BY <1>4, <1>5, LadderFacts
<1>7. MscLadder[rung(j)] \cap m # {}
  BY <1>5, <1>6 DEF Ascending
<1> QED
  BY <1>4, <1>5, <1>7

(* Which of the two ladders a machine climbs is what Compiler tells apart.   *)
LEMMA MachineAscends ==
  ASSUME NEW m \in Machine
  PROVE  Ascending(Ladder, Support(m))
<1>1. Ascending(IF "_MSC_VER" \in m THEN MscLadder ELSE GccLadder, m)
  BY CompilersAscend
<1>2. CASE "METHAN_COMPILER_GCC" \in Compiler(m)
  BY <1>1, <1>2, CompilerFacts, SupportFacts, GccAscends
<1>3. CASE "METHAN_COMPILER_GCC" \notin Compiler(m) /\ "METHAN_COMPILER_MSC" \in Compiler(m)
  BY <1>1, <1>3, CompilerFacts, SupportFacts, MscAscends
<1>4. CASE {"METHAN_COMPILER_GCC", "METHAN_COMPILER_MSC"} \cap Compiler(m) = {}
  <2>1. Support(m) = {}
    BY <1>4, SupportFacts
  <2> QED
    BY <2>1 DEF Ascending
<1> QED
  BY <1>2, <1>3, <1>4

(* The invariant: what the compiler predefines is there in every unit, and   *)
(* from platform.hpp on, and only then, what that announces.                 *)
Announces(u) ==
  /\ defined[u] \cap SetMacros = build.machine \cap SetMacros
  /\ defined[u] \cap SetNames =
       IF "platform" \in Read(u) THEN Support(build.machine) ELSE {}

AInv == \A u \in Unit : Announces(u)

LEMMA AnnouncesStep ==
  ASSUME IInv, LInv, AInv, NEW u \in Unit, NEW l, Define(u, l) \/ Include(u, l)
  PROVE  Announces(u)'
<1>0. Announces(u) /\ Exports(u) /\ Shape(u)
      /\ build.options \subseteq Defined \cup {"METHAN_BUILD_SHARED"}
  BY MachineAssumption DEF LInv, AInv, IInv
<1>1. l \in Text /\ NextLine(u, l) /\ build' = build /\ DOMAIN defined = Unit
  BY DEF Define, Include, NextLine, Text, IInv, Functions
<1>2. /\ l \in Header => Read(u)' = Read(u) \cup Reads[l]
      /\ l \in Defined => Read(u)' = Read(u)
  BY <1>0, <1>1, NewLine DEF Shape, IInv, Functions
<1>3. /\ (Defined \cup {"METHAN_BUILD_SHARED", "#error"}) \cap (SetMacros \cup SetNames) = {}
      /\ OsNames \cap (SetMacros \cup SetNames) = {} /\ SetMacros \cap SetNames = {}
  BY DEF Defined, SetMacros, SetNames, OsNames
<1>4. Support(build.machine)' = Support(build.machine) /\ (SetMacros = SetMacros') /\ (SetNames = SetNames')
  BY <1>1 DEF Support, Compiler, Cascade, Holds, AnyOf, SupportOfGcc, SupportOfMsc, SetMacros, SetNames
<1>5. CASE Define(u, l)
  <2>1. defined'[u] = defined[u] \cup {l} /\ l \in Defined
    BY <1>1, <1>5 DEF Define
  <2> QED
    BY <1>0, <1>1, <1>2, <1>3, <1>4, <2>1 DEF Announces
<1>6. CASE Include(u, l)
  <2> DEFINE new == Reads[l] \ Read(u)
             d   == Configured(u, new)
             c   == Compiler(defined[u])
             s   == Support(defined[u])
  <2>1. l \in Header /\ defined'[u] = d
    BY <1>1, <1>6 DEF Include
  <2>2. s = Support(build.machine) /\ s \subseteq SetNames
    BY <1>0, SupportSame, OtherNames DEF Announces, Exports
  <2>3. c \cap (SetMacros \cup SetNames) = {}
    BY CompilerFacts DEF SetMacros, SetNames
  <2>4. Os(defined[u]) \subseteq OsNames
    BY OtherNames
  <2>5. \A x \in SetMacros \cup SetNames :
          x \in d <=> x \in defined[u] \/ ("platform" \in new /\ x \in s)
    BY <1>0, <1>3, <2>3, <2>4 DEF Configured
  <2>6. "platform" \in Read(u)' <=> "platform" \in Read(u) \/ "platform" \in new
    BY <1>2, <2>1
  <2> HIDE DEF new, d, c, s
  <2>7. d \cap SetMacros = defined[u] \cap SetMacros
    BY <1>3, <2>2, <2>5
  <2>8. d \cap SetNames = IF "platform" \in Read(u)' THEN s ELSE {}
    <3>1. defined[u] \cap SetNames = IF "platform" \in Read(u) THEN s ELSE {}
      BY <1>0, <2>2 DEF Announces
    <3> QED
      BY <2>2, <2>5, <2>6, <3>1
  <2> QED
    BY <1>0, <1>1, <1>4, <2>1, <2>2, <2>7, <2>8 DEF Announces
<1> QED
  BY <1>5, <1>6

LEMMA AnnouncesStay ==
  ASSUME NEW w \in Unit, Announces(w), build' = build, lines'[w] = lines[w],
         defined'[w] = defined[w]
  PROVE  Announces(w)'
<1>1. Read(w)' = Read(w)
  BY DEF Read, Header, Reads, Includes
<1>2. Support(build.machine)' = Support(build.machine)
  BY DEF Support, Compiler, Cascade, Holds, AnyOf, SupportOfGcc, SupportOfMsc
<1> QED
  BY <1>1, <1>2 DEF Announces, SetMacros, SetNames

(* Wherever an instruction set is announced, so are those that it extends:   *)
(* the three tables of platform.hpp keep the order in which the compilers    *)
(* announce theirs, and no line of a unit comes in between.                  *)
THEOREM SetsAscend == Spec => []Graded
<1>1. \A i \in DOMAIN Ladder : Ladder[i] \subseteq SetNames
  <2>1. \A i \in 1 .. 8 : i \in {1, 2, 3, 4, 5, 6, 7, 8}
    OBVIOUS
  <2> QED
    BY <2>1, LadderFacts DEF SetNames
<1>2. SetNames = UNION {Ladder[i] : i \in DOMAIN Ladder}
  <2>1. \A x \in SetNames : \E i \in 1 .. 8 : x \in Ladder[i]
    <3>1. {1, 2, 3, 4, 5, 6, 7, 8} \subseteq 1 .. 8
      OBVIOUS
    <3>2. /\ \A x \in {"SSE2"} : x \in Ladder[1]
          /\ \A x \in {"SSE3"} : x \in Ladder[2]
          /\ \A x \in {"SSSE3"} : x \in Ladder[3]
          /\ \A x \in {"SSE41", "SSSE41"} : x \in Ladder[4]
          /\ \A x \in {"SSE42", "SSSE42"} : x \in Ladder[5]
          /\ \A x \in {"AVX"} : x \in Ladder[6]
          /\ \A x \in {"AVX2", "AVX_F16C", "AVX_FMA"} : x \in Ladder[7]
          /\ \A x \in {"AVX512F"} : x \in Ladder[8]
      BY LadderFacts
    <3> QED
      BY <3>1, <3>2 DEF SetNames
  <2> QED
    BY <1>1, <2>1, LadderFacts
<1>3. Init => AInv
  <2> SUFFICES ASSUME Init, NEW u \in Unit PROVE Announces(u)
    BY DEF AInv
  <2>1. Read(u) = {}
    BY DEF Init, Read
  <2>2. /\ build.machine \in Machine
        /\ defined[u] = build.machine \cup IF u \in Library THEN {"METHAN_EXPORT"} ELSE {}
    BY DEF Init
  <2>3. build.machine \cap SetNames = {}
    BY <1>2, <2>2, CompilersAscend
  <2>4. "METHAN_EXPORT" \notin SetMacros \cup SetNames
    BY DEF SetMacros, SetNames
  <2> QED
    BY <2>1, <2>2, <2>3, <2>4 DEF Announces
<1>4. IInv /\ LInv /\ AInv /\ [Next]_vars => AInv'
  <2>1. ASSUME IInv, LInv, AInv, NEW u \in Unit, NEW l \in Line, Define(u, l) \/ Include(u, l)
        PROVE  AInv'
    <3>1. build' = build
      BY <2>1 DEF Define, Include, NextLine
    <3>2. \A w \in Unit : w # u => lines'[w] = lines[w] /\ defined'[w] = defined[w]
      BY <2>1 DEF Define, Include, NextLine, IInv, Functions
    <3>3. \A w \in Unit : w # u => Announces(w)'
      BY <2>1, <3>1, <3>2, AnnouncesStay DEF AInv
    <3>4. Announces(u)'
      BY <2>1, AnnouncesStep
    <3> QED
      BY <3>3, <3>4 DEF AInv
  <2>2. AInv /\ UNCHANGED vars => AInv'
    BY AnnouncesStay DEF AInv, vars
  <2> QED
    BY <2>1, <2>2 DEF Next
<1>5. ASSUME LInv, AInv PROVE Graded
  <2> SUFFICES ASSUME NEW u \in Unit PROVE Ascending(Ladder, defined[u])
    BY DEF Graded
  <2>1. Announces(u) /\ build.machine \in Machine
    BY <1>5 DEF AInv, LInv
  <2>2. Ascending(Ladder, defined[u] \cap SetNames)
    <3>1. Ascending(Ladder, Support(build.machine))
      BY <2>1, MachineAscends
    <3>2. Ascending(Ladder, {})
      BY DEF Ascending
    <3> QED
      BY <2>1, <3>1, <3>2 DEF Announces
  <2>3. \A i \in DOMAIN Ladder : Ladder[i] \cap defined[u] = Ladder[i] \cap (defined[u] \cap SetNames)
    BY <1>1
  <2>4. \A i \in DOMAIN Ladder : \A j \in 1 .. i - 1 : j \in DOMAIN Ladder
    BY LadderFacts
  <2> QED
    BY <2>2, <2>3, <2>4 DEF Ascending
<1> QED
  BY <1>3, <1>4, <1>5, Invariance, LInvariance, PTL DEF Spec
=============================================================================
