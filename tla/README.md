# A TLA+ development for Methan

Methan is a header-mostly C++ library that is to carry computational graphs and
run them in parallel. At this commit it holds the foundations: a container for a
value of any type (`Varient`), macros that apply a macro to a list of arguments
(`METHAN_FOR_EACH_P<k>`), bit sets over enumerations (`EnumFlag`), assertions and
exceptions, and the macros that adapt all of it to a compiler. This directory
models that code in TLA+, model-checks it with TLC on small instances, and
proves what matters most with TLAPS for every value of the constants.

Paths below are relative to the repository.

## 1. Inventory

| Component | Code | State | Operations |
|---|---|---|---|
| Varient, lifetime and ownership | `src/methan/utility/varient.hpp` | five members per Varient (`m_typeId`, `m_data`, `m_flag`, `m_destructor`, `m_copy`; a sixth, `m_dataName`, in debug builds) and the owned objects on the heap | five constructors, `operator=`, `~Varient`, mutable `get` |
| Varient, types | `src/methan/utility/varient.hpp`, `src/methan/utility/assertion.hpp` | none of its own: reads the members | `isEmpty`, `is<T>`, four overloads of `get<T>` |
| `METHAN_PP_NARGS`, `METHAN_FOR_EACH_P<k>` | `src/methan/utility/foreach.hpp`, `src/methan/core/except.hpp`, `src/methan/core/details/macro.hpp` | the text being rewritten | eight tables of 63 rows, the counter, `METHAN_EXPAND` |
| EnumFlag | `src/methan/utility/enum.hpp` | one integer per flag object | constructors, `\| & ^ ~` and their assignments, `== >= <=`, the free operators of `METHAN_ENUMSET_OPERATORS` |
| Assertion macros | `src/methan/utility/assertion.hpp` | none | throw or not, according to the build |
| Exception | `src/methan/utility/exception.hpp`, `.cpp` | message, file, line, type; never changes | construction, accessors |
| Configuration and export macros | `src/methan/core/except.hpp`, `src/methan/core/details/platform.hpp`, `src/cmake/configuration.hpp.in` | the set of macros defined in a translation unit | the `#if` cascades |
| `METHAN_OPAQUE_HANDLE`, `METHAN_DISABLE_COPY/MOVE` | `src/methan/core/except.hpp` | none | declarations |
| Private test header | `src/methan/private/test.hpp` | none | none |
| Build and packaging | the `CMakeLists.txt` and `cmake` directories | none at run time | file generation, installation |

**How they interact.** Varient uses the assertion macros in `get<T>()`, and these
throw an Exception unless the build compiles them out. It calls back into the
class it stores, through the lambdas `m_copy` and `m_destructor`: the copy
constructor and the destructor of that class are client code, run in the middle
of Varient's operations, may use other Varients and (the copy constructor) may
throw. The test suite's class `Foo` does call back into its client from both.
Varients share the heap with each other: `IsDataOwner` is the only record of who
deletes what. A stored object may have a Varient as a member, and then a copy or a
deletion calls Varient again from inside Varient. `METHAN_FOR_EACH_P<k>` and the
exceptions use the macros of `core/except.hpp`. Which members Varient has and whether its
assertions are there is decided per translation unit, by the macros that are defined
when the headers are read; units of one program share Varients nevertheless.

**What is hard.**

- *Varient.* `operator=` releases the old object, copies five members one by one
  and then calls `m_copy`; each of the points in between is visible to the code of
  the class, to other threads working on other Varients, and to the client when
  the copy throws. Correct means: each heap object is deleted once, by one
  Varient; nothing leaks, with exceptions or without; a copy reads an object that
  is alive, and gets its content; operations on one Varient do not change another.
- *Types.* Types are compared by `hash_code()`, which may collide, and pointers to
  const are told apart by a flag. Correct means: `is<T>()` says what was stored;
  a `get<T>()` that returns gives a live T; const is never cast away.
- *Macros.* The number of arguments chooses a row, and each row has to fit what
  the row above passes on; the end of the tables, parameters that expand to
  several arguments and texts with commas meet in `METHAN_EXPAND`. Correct means:
  WHAT is called once on each argument, in order, with the same parameters.
- *Trees of Varients.* Deleting or copying the outer object runs the whole operation
  on the inner one while the outer one is half way. Correct means: what a call has yet
  to read is still there; the copy is deep; nothing is cut off; recursion ends.
- *EnumFlag.* `~` masks with `fullValue`, no other operator and no constructor
  does; an enumerator may stand for several bits. Correct means: the values are sets of
  what the client means by a bit, and `>=`, `<=`, `==` and the conversion to bool answer
  for those sets.
- *Assertions.* A condition is evaluated once or never, according to the build, the
  message only when it fails, and an index twice. C++ converts the two sides of
  `index < upperBound` before it compares them. Correct means: the builds differ in
  nothing but what they throw; an index that passes is one; the exception says what
  happened.
- *Configuration.* The mode of `METHAN_DEBUG_ONLY` is fixed where `except.hpp` is first
  read, that of `METHAN_ASSERT` where `assertion.hpp` is. Correct means: units that
  define the same macros have the same Varient; `METHAN_API` is defined wherever it is
  used and fits on both sides of a shared library.

The hazards, each at its line and with the properties that cover it, are in
`PROJECT.json`.

## 2. Modules

| Module | What it is |
|---|---|
| `VarientTypes` | the members each constructor stores, `isEmpty`, `is`, the assertions of `get` |
| `Varient` | the state machine of a set of Varients on one heap; extends `VarientTypes` |
| `ValueBox` | the abstract specification: boxes that hold values |
| `VarientBox` | the refinement mapping from `Varient` to `ValueBox` |
| `MCVarient` | the instances of all the above for TLC |
| `VarientTree`, `MCVarientTree` | Varients inside stored objects, as a stack of calls; refines `Varient` |
| `ForEach`, `MCForEach` | the expansion of one `METHAN_FOR_EACH_P<k>`, and its calls for TLC |
| `EnumFlag`, `MCEnumFlag` | flag objects and every operator on them |
| `FlagSet` | the abstract specification: flags as sets |
| `IndexCheck` | what C++ makes of `index < upperBound` for two integer types |
| `Assertion`, `MCAssertion` | a program of assertions in two builds, and the exceptions; extends `IndexCheck` |
| `Platform` | the `#if` cascades of `platform.hpp`, and `METHAN_API` |
| `Configuration`, `MCConfiguration` | translation units reading the headers; extends `Platform` |
| `Varient_proofs` | proofs about `VarientTypes` and `Varient` |
| `VarientBox_proofs` | proof of the refinement of `ValueBox` |
| `VarientTree_proofs`, `VarientCopy_proofs` | proofs about `VarientTree`: ownership and the refinement of `Varient`; copies, and that calls end |
| `ForEach_proofs`, `EnumFlag_proofs`, `Assertion_proofs`, `Configuration_proofs` | proofs about the module of that name |

Operators whose comment starts with *A slip* (`TakeMembers_Shallow`, `Is_AnyPointee`,
...) are plausible mistakes in the code beside them. Nothing uses them; they are
there to show, by taking the place of the definition after them, that the
properties can fail.

### Varient

A Varient is a slot of storage, `v \in Slot`. Its variables are `member[v]` (the
members of the class: `m_typeId`, `m_data`, `m_flag`, and `cls`, the class that
`m_destructor` and `m_copy` were instantiated for), `pc[v]` (where it is in its
life), and two registers of the operation in progress: `from[v]`, the `other` of
`operator=` and of the copy constructor, and `fresh[v]`, what `new T(...)` is building.
The heap maps addresses to cells (free, building, live, dying, with a class and a
content). `living` is the counter the test suite keeps in `Foo`; `failed` counts
assignments left by an exception and is the bound `MaxThrows` of that behaviour.

| Code | Actions |
|---|---|
| `Varient(std::nullptr_t)` | `ConstructEmpty` |
| `Varient(T)` for a pointer, for a pointer to const | `ConstructFromPtr`, `ConstructFromConstPtr` |
| `Varient(const T&)` | `BeginCreate`, then `EndBuild` or `ThrowInConstructor` |
| `Varient(const Varient&)` | `BeginCopy`, then (for an owner) `EndBuild` or `ThrowInConstructor` |
| `operator=(const Varient&)` | `BeginRelease`, `EndRelease`, then `EndBuild` or `ThrowInAssign`; `AssignOverUnowned` when there is nothing to release |
| `~Varient` | `DestroyUnowned`; `BeginDestroy`, `EndDestroy` |
| `get<T>()` used as an lvalue | `SetContent` |

A step ends where code of the stored class begins or ends, since only there can
anything else happen: that code may use other Varients, and other threads run.
`varient = x` for an `x` that is no Varient is a temporary and an assignment, as in C++.

Choices a reader should know of:

- *The client's rule.* Varient takes no lock. As for any such class, no operation
  starts on a Varient that another is writing, and none writes one that another is
  reading (`CanRead`, `CanWrite`). Several copies of one source may overlap.
- *Throws.* A copy constructor may throw, and so may the allocation before it; a
  throw from either has the same effect on Varient. Destructors do not throw.
- *Undefined behaviour.* What a copy constructor finds at an address without a live
  object of its class is any content (`Found`).
- *Raw storage.* The bytes of a Varient that does not exist are of no consequence:
  they are put back to `Empty`.
- *The client's pointees* outlive the pointers stored; Varient never looks at them.
- *An object's address* is any free address; `Obj` may be of any size in the proofs,
  and in the instances it has at least as many addresses as there are Varients,
  so that allocation always succeeds.
- The debug-only `m_dataName` and the texts of messages are left out.

### ValueBox and VarientBox

`ValueBox` says what a client expects: a box holds a value or nothing; a copy, once
there, is the value that its source had when the copying started; no operation
changes another box. There are no addresses, owners or classes' code in it. In
`VarientBox` an owning, idle Varient is a box with its class and the content of its
heap object, any other idle Varient is a box with its members, and a Varient within an
operation is a box that holds nothing yet and wants the value being built.

### ForEach

`ForEach` is the preprocessor at work on one call. `Dispatch` is
`METHAN_FOR_EACH_P<k>` with `METHAN_PP_NARGS` and `METHAN_FOR_EACH_P<k>_`; `Invoke` is a
row, which emits one call of WHAT, opens one `METHAN_EXPAND` and leaves the row below
with the arguments left; `CloseExpand` closes them, innermost first. The ways for a
call to go wrong are actions as well: `WrongArity` (a row given a number of
arguments it does not take), `NoSuchRow` (the pasted name is not a macro),
`TextSplits` (the expanded text has a comma, and `__METHAN_EXPAND_DETAILS` has one
parameter). The eight tables differ in the number of parameters alone and are
one machine with `call.table` for k. Arguments are numbers, of which only
those up to 62 can be pasted to the name of a row; what the *count* turns out to be with 64
arguments or more is the text of the 64th. The behaviour was compared with that of gcc's
preprocessor on calls of every kind in the model.

### VarientTree

The stored class is `struct Node { Varient child; }`. The child of the Node at address
`o` is the Varient named `o`; the client's own Varients are `Root`. One thread runs, and
`stack` holds the calls of `m_copy` and `m_destructor` in progress, each with its
operation, its Varient, the source, and the Nodes it builds and reads.

| Code | Actions |
|---|---|
| constructors, `operator=`, `~Varient`, called by the client | `ConstructEmpty`, `Create`, `Copy`, `Assign`, `Destroy` (in `Start`) |
| `new T(...)` in `m_copy`: the copy constructor of Node, hence of `child` | `BuildChild`, `EndBuild` |
| `delete` in `m_destructor`: `~Node`, hence `~Varient` of `child` | `DestroyChild`, `EndDestroy` |
| the rest of `operator=` after `__destruct()` | `EndRelease` |

The Nodes of a tree (`Below`) are the least set that has the Node of the Varient
and the Node of the child of each of its Nodes.

There is no client's rule between the nested calls, as there is in `Varient`: that the
class's code keeps it is `LowerSpec`, the refinement of `Varient`. What is read from a
destroyed Varient is anything (`Found`). A copy begins only when there is memory for the
whole of it (`Fits`), since `bad_alloc` is `varient_throw`'s subject. `Related` allows
assignments between Varients of one tree: the code does not survive them
(`tree_related`), so the other run excludes them.

### EnumFlag and FlagSet

A value of `UnderlyingType` is the set of its bits that are 1, and what the client means
by a bit is an *atom*, with one or several bits of its own; an enumerator names some
atoms. Each action is one statement of the client: `Construct` (from a flag or an
enumerator), `Binary` (`|`, `&`, `^`; for an enumerator on the left the free operator of
`METHAN_ENUMSET_OPERATORS`, which swaps the operands and converts a second enumerator), `Complement` (`~`, within
`fullValue`), `Compound` (`|=`, `&=`, `^=`, which have code of their own). The
comparisons change nothing and are operators. `done` is the statement last executed;
`FlagSet` computes the same statements on sets of atoms.

### Assertion and IndexCheck

A program of assertions runs in two builds side by side, one where `METHAN_ASSERT` is
`METHAN_FORCE_ASSERT` and one where it is nothing, until a line throws. `thrown[b]` is
the exception of build b, `taken[b]` a counter of the client that an argument may
increment, `careful` whether the client refrains from that where a macro may be compiled
out. `Assert` is `METHAN_(FORCE_)ASSERT`, with the number of times that the condition and
the message take from the counter; the actions named for macros say what each passes to
it. `AssertIndex` is `METHAN_(FORCE_)ASSERT_INDEX`, which has its index twice: in
`ASSERT_INDEX` the index has no side effect and any value and type, in `ASSERT_INDEX_Taking`
it is `counter++`. `index` keeps what was asserted: the index as each build tested it,
how many times evaluating it increments it (`takes`), and `split`.
An exception is its type, its line, and of its text the name of the type, the index and
the line; file names and wording are left out.

`IndexCheck` has the usual arithmetic conversions: operands narrower than int become
int, and of a signed and an unsigned type the signed one wins only if it is wider. An
integer type is the number of its values and whether it is signed. The macro has no
parentheses around its arguments. `split` says that one of them has an operator that
binds less than `<` (`&`, `^`, `|`, `==`, `!=`, `&&`, `||`, `?:`, an assignment), as in
`METHAN_ASSERT_INDEX(i & 7, 8)`; what is tested is then another expression, and
`Tested` lets it come out either way. It was computed for small integers that every pair of an
index and a bound has expressions of `&`, `|` and `^` with that index or that bound which
pass, and some which do not.

### Configuration and Platform

A unit is read line by line; a line is an `#include` of a header or an `#ifndef`,
`#define`, `#endif` of a macro. `Include` adds all that the header reads for the first
time (`#pragma once`), and evaluates what `platform.hpp`, `configuration.hpp`,
`except.hpp`, `assertion.hpp` and `varient.hpp` decide from the macros defined by then:
`mode`, `checks`, `api`, and in `varient` whether the class has `m_dataName` and whether
`get` asserts. `Machine` has the sets of macros that compilers predefine. The library's
units define `METHAN_EXPORT`, as its build does, and are `exception.cpp`. The
cascades were compared with what gcc computes from the headers.

## 3. Runs

| Run | Module | Shows |
|---|---|---|
| `varient` | `MCVarient` | safety, the refinement of `ValueBox` and that operations return; 3 Varients, 2 classes, 3 addresses, 2 contents |
| `varient_throw` | `MCVarient` | ownership, no leak, the count and const, with one failed assignment, self assignment and hash codes that collide or are 0 |
| `varient_living` | `MCVarient` | violation: a failed assignment leads to a double deletion |
| `varient_self_content` | `MCVarient` | violation: self assignment loses the content |
| `tree` | `MCVarientTree` | nested Varients: 2 roots, 5 Nodes; the refinement of `Varient` and that calls shrink and return |
| `tree_related` | `MCVarientTree` | violation: `n = n.get<Node>().child` reads a destroyed Varient |
| `foreach` | `MCForEach` | calls within and beyond the tables |
| `foreach_63` | `MCForEach` | violation: 63 arguments are counted as 64 |
| `foreach_none` | `MCForEach` | violation: no argument calls WHAT once |
| `flags` | `MCEnumFlag` | all statements on two flags of three atoms, one of them outside `fullValue`, with two bits of no atom within |
| `assertion` | `MCAssertion` | programs of two assertions in two builds, four integer types at every value |
| `configuration` | `MCConfiguration` | the library and two client units of three lines, eleven machines, four sets of options |

**Properties.** *Varient.* `OwnedIsLive`: what an owner points to is live and of the
class its lambdas are for. `DisjointClaims`: no two Varients will delete one object.
`NoLeak`: every allocated object has a Varient that will delete it. `CopySource`:
while `m_copy` runs, its source is alive and has the content the copy gets.
`LivingCount`: constructors and destructors match, up to the failed assignments.
`TypedAccess`, `IsExact`, `ConstSafe`: what `get` and `is` answer. `OpsReturn`: every
operation returns. `BoxSpec`: the refinement. `LivingZero` is what the tests say.
*VarientTree.* `Rooted`: between calls, the allocated Nodes are those in the client's
trees. `SourceExists`: what a call has yet to read is there. `DeepCopy`: a copy is as
large as its source and shares no Node with it. `MemoryLasts`: a copy never finds
itself without memory for a Node that it still has to copy, which it would if it read
what it builds. `CallsShrink`: each step of a call lowers `Work`, what is left to do.
`CallsReturn`: every call returns. `LowerSpec`: the refinement of `Varient`.
*ForEach.* `EachOnce`: a call that expands without complaint calls WHAT once on each
argument in order. `Accepted`: no ordinary call is refused. `Counted`: the count and
the rows keep step with the arguments.
*EnumFlag.* `AlwaysWhole`: no atom is half set. `SetAnswers`: the comparisons
answer exactly for sets of atoms, with the stray bits (those of `fullValue` that no atom has,
by default all that no enumerator has) as one element more, since `~` sets them together and
no operator takes them apart. `ComplementFits`: `~` against `>=`, `|` and `&`. `SetSpec`: the refinement.
*Assertion.* `Agree`: compiling assertions out changes no data and hides no exception of
the release build, unless an argument has a side effect, and then only drops it.
`IndexInBounds`: an index below the bound passes, and where C++'s comparison is reliable no
other does, unless `<` takes the arguments apart. `Report`: type and line in the exception are
those of the assertion, and the index is the one tested, or with `counter++` the one after.
*Configuration.* `OneVarient`: units with the same macros have one Varient, and one with a
name is a checked one. `Linked`: `METHAN_API` on both sides of the library. `Graded`: an
announced instruction set comes with those it extends.

**Bounds.** Three Varients are one that is assigned, its source, and a third that
overlaps with both (copies the same source, or is destroyed meanwhile); no action
involves more than two. Two classes are enough to pair an object with the wrong
lambdas, one pointee to tell pointers from null, two contents to tell a copy from
another object, three addresses for three owners. One failed assignment already
makes two owners of one object, and the double deletion. Slots, addresses and contents
are interchangeable in every action, so `varient_throw` uses them as symmetry sets;
runs with temporal properties do not. Five Nodes are two trees of
two, one a copy of the other, or a tree of two and one of one that it is assigned over: a
nested copy after a release, which `Fits` admits when the whole copy has memory beside both.
A tree of three is built, from a tree of two that is assigned to the child of another,
but not copied; the theorems have trees of any depth. `foreach` takes the
calls at both ends of the tables (1, 2, 3, 61, 62 arguments, tables 0, 1 and 7), past it
(64, 65, 70, the 64th argument with the text of a low, a high, an absent row),
parameters that spill, and texts with commas; the theorems cover the sizes in between.
The flags have an atom of two bits, one of one, one outside `fullValue`, two bits of no
atom within it and one outside. int has 2 bits and size_t 3, and the client's types are one that is promoted to
int, `unsigned int`, and a signed and an unsigned type wider than int: every case of the
conversions, at all their values, and two assertions so that the builds can have
parted before the second. Three lines of a unit are a header, a macro defined too late,
and Varient; two units compare, and the library is the other side of `METHAN_API`. The
machines have each branch of each cascade that matters for the properties. The macro calls, the
assertions and the units come to an end, so those runs do not check for deadlock.

**Fairness.** `OpsReturn` assumes weak fairness of `Leave(v)` for each Varient: the
copy constructor or destructor in progress returns or throws, which is up to the class
and not to Varient. `CallsReturn` assumes weak fairness of `Return`: the thread goes on.
`CallsShrink` is the part of `CallsReturn` that needs no fairness, and is proved.
Neither assumes fairness of `Start`: no client has to call anything.

## 4. What is proved

Every theorem is about `Spec` for all constants that satisfy the named assumptions of
the module: any number of Varients, addresses, classes and contents, calls of any
length, enumerations and flags of any size, integer types of any width, programs of any
number of assertions, units and lines.

| Theorem | Statement | Further premise |
|---|---|---|
| `Varient_proofs!TypeCorrect` | `[]TypeOK` | |
| `NothingLeaks` | `[]NoLeak` | |
| `OwnedStaysLive`, `OwnershipIsExclusive` | `[]OwnedIsLive`, `[]DisjointClaims` | |
| `IsAnswersExactly`, `AccessIsTyped` | `[]IsExact`, `[]TypedAccess` | |
| `ConstIsKept` | `[]ConstSafe` | |
| `CopiesReadLiveObjects` | `[]CopySource` | no self assignment |
| `FailedAssignmentsAreCounted` | `[]LivingCount` | finitely many Varients |
| `VarientBox_proofs!VarientIsAValueBox` | `Spec => BoxSpec` | no self assignment, no failed assignment |
| `VarientTree_proofs!TreeTypes` | `[]TypeOK` | |
| `SourcesSurvive`, `NothingCutOff` | `[]SourceExists`, `[]Rooted` | no assignment within a tree |
| `TreesAreVarients` | `Spec => LowerSpec` | the same; finitely many addresses |
| `VarientCopy_proofs!CopiesAreDeep` | `Spec => DeepCopy` | no assignment within a tree; finitely many addresses |
| `CopiesFit` | `[]MemoryLasts` | the same |
| `CallsEnd` | `Spec => CallsShrink` | the same |
| `ForEach_proofs!TypeCorrect` | `[]TypeOK` | |
| `EachArgumentOnce` | `[]EachOnce` | each call has an argument |
| `CountIsExact` | `[]Counted` | no call has 63 arguments |
| `OrdinaryCallsExpand` | `[]Accepted` | |
| `EnumFlag_proofs!FlagTypes`, `FlagsWhole` | `[]TypeOK`, `[]AlwaysWhole` | |
| `AnswersAreOfSets`, `ComplementsFit` | `[]SetAnswers`, `[]ComplementFits` | |
| `FlagsAreSets` | `Spec => SetSpec` | |
| `Assertion_proofs!AssertionTypes` | `[]TypeOK` | |
| `IndexChecked`, `BuildsAgree`, `ReportsRight` | `[]IndexInBounds`, `[]Agree`, `[]Report` | |
| `Configuration_proofs!ConfigurationTypes` | `[]TypeOK` | |
| `VarientIsOne` | `[]OneVarient` | |
| `ApiIsLinked` | `[]Linked` | |
| `SetsAscend` | `[]Graded` | |

The premises are needed. Without them `varient_self_content` breaks `CopySource`,
`tree_related` breaks `SourceExists`, an assignment within a tree breaks `MemoryLasts`
(`tree.get<Node>().child = tree` copies what it builds until there is no memory),
`foreach_none` breaks `EachOnce` and `foreach_63` breaks `Counted`; a failed assignment
leaves two owners of one object (`varient_living`), so that a change of one box changes
the other. `LivingCount`, the counts of Nodes and the count of objects in `LowerSpec` need
finite sets for `Cardinality` to have a meaning.

**The arguments.**

- *Types.* `TypeOK` is not inductive: `fresh[v]` has to be an address exactly while
  something is built, and `from[v]` a Varient while something is copied. `Shape` says
  so, and `TypeInv` is both.
- *Leaks.* `NoLeak` is inductive over `TypeInv`: what a step frees is what the Varient
  claimed, and what it allocates is claimed by `fresh`. It does not use that owners are
  apart, and so survives failed assignments, which the ownership properties do not.
- *Ownership.* `OwnInv` adds `BuildsOwn` to the two properties: an object being built
  is in the phase "building" and of the right class. Claims of different
  Varients are disjoint, and a new address is free and so unclaimed
  (`ClaimedIsTaken`); therefore a step of one Varient leaves the cells of the others.
- *Copies.* `SourceRests` (the source of a copy is idle until the copy ends, which
  the client's rule keeps) and `CopyContent` (members and contents of source and copy
  agree). Between them stands `Footprint`: a step of v changes only cells that v
  claims before or after it. This is where self assignment has to be excluded.
- *Types of values.* `MemberShape`: members are always what some constructor
  stored. The type properties then follow from lemmas on `is` and `get` alone
  (`IsOfStored`, `ConstStaysConst`).
- *Refinement.* `SafeInv` is all of the above; with `FilledCells` each step of
  `Varient` is a step of `ValueBox` or a stutter (`StartOfBox`, `LeaveOfBox`).
- *Trees.* Nothing in the code walks a whole tree, and the invariant (`IInv`) speaks
  of none either, but of Varients, Nodes and calls: each nested call works on the
  child of the Node that the call below it builds or destroys (`Nested`, `InCall`); a
  live Node has one owner, and every owner that no call works on has a live Node
  (`Held`, `Single`, `Owned`); some numbering of depth grows from owners to Nodes and
  up the stack (`Ranked`), so there are no rings, and no two calls work on one Varient
  (`Distinct`); and what `operator=` deletes and what it copies are in disjoint sets
  that no `m_data` leads out of (`Apart`). That last part is where assignments within
  a tree are excluded: `TwoTrees` finds such sets for trees of which neither is part
  of the other. There is a lemma for each kind of step (`AppearInv`, `VanishInv`,
  `EnterInv`, `AllocateInv`, `EndBuildInv`, `EndDestroyInv`, `EndReleaseInv`).
  `SourceExists` is a part of the invariant. `Rooted` follows by descent: of the Nodes
  cut off, one of least depth (`LeastNumber`) would have an owner that is cut off and
  less deep.
- *Trees of Varients are Varients.* The mapping takes each Varient from the call in
  progress on it, if there is one (`AtRest`, `AtWork`); a call pushed or popped
  changes the mapped variables at its own Varient only (`CallsPush`, `CallsPop`,
  `OthersMapped`). Then each step is the step of `Varient` of the same name (the
  lemmas `...Mapped`). The rule that `Varient` leaves to its client comes from
  `ReadRests` (no call works on the child being copied) and `ChildWritable` (the child
  being destroyed is not what `operator=` has yet to read).
- *Deep copies.* Nothing in the state says how far a copy has come. The proof supplies
  it: `Mirrored`, while a client's call copies, says that some f leads from the Nodes N made so
  far into S, the tree of the source. N and S are apart (`Separate`); each nested call copies
  the Node below the one that the call below it copies (`Descends`); f is injective, and the
  child of a Node made is the mirror of the child of its original (`Same`); there is memory for
  the rest of S (`Room`, which `Fits` gives at the start, and `Reserved` keeps while
  `operator=` deletes). A step makes one Node (`MirrorGrows`), or constructs or stores a
  child (`MirrorChild`, `MirrorStores`). `NextIsNew`: the Node copied next has no mirror yet,
  so one of S is still to be made, and by `Room` an address is free: `CopiesFit`. When
  the call returns f takes the whole new tree onto the whole of the old one: a tree is the
  least set of Nodes closed under children, and images and inverse images of closed sets under
  f are closed, which takes the place of an induction over depth (`MirrorTrees`).
- *Calls end.* `Work` counts what a call can still change: addresses to allocate,
  children to construct and Nodes to complete while it builds, and the reverse while it
  destroys. Each step moves one of these sets by one element and the others in
  the same direction (`BuildingShrinks`, `DestroyingShrinks`), and `operator=` goes from the
  one to the other once, for which `Work` has `3 |Obj| + 1` in reserve. A call
  takes at most `6 |Obj| + 2` steps.
- *Macros.* `Written`: the calls of WHAT so far are those of the first arguments, and
  what is left is the rest. `Descending`: row and calls so far add up to the
  count, which is the number of arguments within the tables. `Complete`: when
  the rows are done, all arguments are. `CountSelects` computes `METHAN_PP_NARGS`
  for any list; `RowsFit` shows that a row of an ordinary call always takes what it
  is given. Beyond the tables the first part is what counts: only a list of one argument fits row 1,
  so a wrong count ends in a complaint and never in a shorter expansion.

- *Flags.* An enumerator's value contains exactly the atoms it names, because atoms
  have bits, of their own (`ValueFacts`); on whole values the bit operators are the set
  operators on atoms (`OperatorFacts`, `NotFacts`). The invariant is that values are
  whole and that beside atoms they hold all the stray bits or nothing (`Covered`; no
  operator takes these apart, `CoveredFacts`). `PartFacts` says when one such value is part of
  another, from which the answers follow, and every statement is the statement of `FlagSet` (`StepFacts`).
- *Comparison.* `CommonFacts`: the common type is at least as large as either side.
  `ConvertFacts`: a conversion to it changes negative values only, and takes those to
  the upper half of an unsigned type. `LessFacts` follows: nothing below the bound is
  refused, and nothing negative passes a bound in the lower half. It says nothing of arguments
  that are split, and neither do `IndexInBounds` and the theorem `IndexChecked`.
- *Builds.* The invariant bounds the counters by the lines executed. The eight kinds of
  line have three shapes (`StepShapes`): asserting an index, with `counter++` or not, asserting
  something else, throwing. `Alike` says what makes the builds agree: with equal counters
  the condition and the message are equal, and a lower counter fails no condition that a higher one
  meets (`LessMonotone`), so the release build, whose counter can only be behind, throws nothing of its own.
- *Units.* `Shape(u)` ties mode, checks and Varient of a unit to its macros, for units
  that define theirs in time (`Orderly`). `NewLine` is the lemma about a line more: what
  is read and defined grows by it, and a unit that is orderly was so before.
- *Linking.* A cascade depends only on the conditions of its branches and defines only what
  they define (`CascadeSame`, `CascadeFacts`), so that the compiler found is that of the
  machine in every unit, whatever else is defined there. `Exports(u)` says so, and that
  the macros `METHAN_API` depends on do not change after `except.hpp`. It needs
  `MachineAssumption`: no compiler predefines these macros of Methan's own.
- *Instruction sets.* `GccAscends` and `MscAscends` go through the tables of
  `platform.hpp` rung by rung: each is monotone from the compiler's order of
  instruction sets (`GccLadder`, `MscLadder`) to the order of those announced (`Ladder`).
  `Announces(u)` says that a unit announces what the table of its machine gives and
  nothing else. The assumption is `CompilersAscend`: a compiler that predefines the
  macro of an instruction set predefines those of the sets it extends, and none of the
  announced names. It is external, and TLC evaluates it on the machines of the run.

**Only model-checked:** `OpsReturn` and `CallsReturn`, which rest on fairness
and on what is enabled, and so are beyond these provers. Of `CallsReturn` the part that
is safety is proved: no step of a call leaves as much to do as there was
(`CallsEnd`), and a copy does not run out of memory (`CopiesFit`). That the
properties of the violation runs fail is shown by TLC's counterexamples.

## 5. Findings

- `varient.hpp:83`: when the class's copy constructor throws in `operator=`, both
  Varients own one object, which is then deleted twice (`varient_living`). The theorem on
  `LivingCount` gives the exact balance: one destructor too many for each failure.
- `varient.hpp:76`: `v = v` deletes the object before it copies it
  (`varient_self_content`). Ownership and the count survive (`varient_throw`): the
  copy is a fresh object, of content unknown.
- `varient.hpp:76`: the same line, with a Varient that lives inside the object it is
  assigned to: `n = n.get<Node>().child` reads `other` after `~Node` (`tree_related`).
- `macro.hpp:20`: the sequence lacks 63, so 63 arguments count as 64
  (`foreach_63`). With 1 to 62 the count is exact, which is proved.
- `except.hpp:13`: no argument counts as one (`foreach_none`), so the rows `_0` are
  never reached.

Also seen while modelling, where a property above says how far the code's promise goes:

- `varient.hpp:83`: `tree.get<Node>().child = tree` first stores the Node in its own child
  and then copies it, child included, which never ends. `Related` excludes it.
- `assertion.hpp:10`: the index is evaluated for the test and again for the message:
  `METHAN_ASSERT_INDEX(c++, 5)` with c = 5 throws that 6 is out of bounds and leaves 7 in c.
  `Report` says exactly this: the index shown is the one tested plus `takes`.
- `assertion.hpp:10`: no parentheses around the arguments: `METHAN_ASSERT_INDEX(i & 7, 8)`
  tests `i & (7 < 8)` and refuses i = 2, and `METHAN_ASSERT_INDEX(c ? 9 : 0, 5)` tests
  `c ? 9 : (0 < 5)` and passes. `~x.split` in `IndexInBounds` and `Report`.
- `assertion.hpp:10`: a negative bound, or a negative index with a signed common type, is
  not caught: `Reliable` in `IndexInBounds`.
- `varient.hpp:93`: a class whose hash code is 0 makes a Varient that owns an object and says
  that it is empty. It is released all the same (`varient_throw`); what `is` and `get`
  answer then is outside `DistinctIds`.
- `except.hpp:41`: a `METHAN_DEBUG` defined between the reading of `except.hpp` and of
  `assertion.hpp`, as in `test_varient.cpp:2-10`, makes a Varient that checks as in debug and is
  laid out as in release. `Orderly` in `OneVarient`.
- `platform.hpp:54` and `:57`: gcc's SSE 4.1 and 4.2 are announced as
  `METHAN_SUPPORT_SSSE41` and `SSSE42`, MSVC's as `METHAN_SUPPORT_SSE41` and `SSE42`;
  Clang's not at all. `Ladder` in `Graded` takes both spellings.
- `except.hpp:61`: in a shared build no branch defines `METHAN_API` for
  `METHAN_COMPILER_LLVM`. `Compilers` in `Linked`.
- `enum.hpp:59`: with the default `fullValue`, `~` of a flag has bits of no enumerator,
  and is then true and unequal to the empty flag though it holds nothing: `Marked` in
  `SetAnswers`.

## 6. Plan

Done, in this order: `VarientTypes`, `Varient` with its properties and runs, `ValueBox`
and the refinement, the proofs of these three, `ForEach` and its proofs, `VarientTree`,
`EnumFlag` and `FlagSet`, `IndexCheck` and `Assertion`, `Platform` and `Configuration`,
each of the last four with its proofs.

Left:

1. `ForEach` with a WHAT that calls METHAN_FOR_EACH again: through another table it expands,
   through the same one the preprocessor leaves it as it is.
2. `VarientTree` with two children in a Node, and with throws at depth.

## 7. Not modelled

Two threads on one Varient (the code claims nothing), destructors that throw (the
program terminates), the wording of messages, file names, macros for display
(`METHAN_OS_NAME`, `METHAN_COMPILER_NAME`) and the version, the conversion of a flag to `UnderlyingType`
(it only reads), `METHAN_OPAQUE_HANDLE` and the `METHAN_DISABLE_*` macros (declarations),
`private/test.hpp` (a pragma), the build scripts (file generation).
