# A verification development for pybind11_abseil

pybind11_abseil converts between Abseil's C++ types and Python. Most of its
code translates values; what can go wrong unnoticed sits where the two worlds
share state: C++ statics that are filled by running Python code, objects with
two reference counts, exceptions that become statuses and back, pointers into
memory that Python owns. These modules model that state and the steps that
change it, check it with TLC on small instances, and prove every safety property
of the runs with TLAPS, for instances of any size.

Paths below are relative to `src/pybind11_abseil/`.

## 1. Inventory

| Component | Sources | State | Operations | Hard because |
|---|---|---|---|---|
| OK-status singleton | `ok_status_singleton_lib.cc`, `ok_status_singleton_pyinit_google3.cc` | the C++ singleton; `first_call`, `py_singleton` | `PyOkStatusSingleton()` from Python, from `Status.OkStatus()`, from a cast | the import inside the first call lets other threads in; failures are kept; references are made in four places |
| Status module initialisation | `register_status_bindings.cc`, `status_pyinit_google3.cc`, `import_status_module.cc`, `check_status_module_imported.h`, `status_not_ok_exception.h` | pybind11's registrations, the translator, `this_module`, `type_in_use` | import, `RegisterStatusBindings`, returning a non-OK status | initialisation has many steps and can fail between any two; what is registered stays |
| Status objects | `register_status_bindings.cc:199-424`, `init_from_tag.h` | mutable statuses, shared by reference with sets and exceptions | constructors, `update`, payloads, `==`, hash, pickle, `StatusNotOk(status)` | mutable and hashable; aliasing; raw codes and canonical codes |
| Status and StatusOr casters | `status_caster.h`, `statusor_caster.h`, `no_throw_status.h` | none of their own; the owner of every reference they pass on | `load`, `cast` throwing or not, `func_wrapper` | `noexcept` callbacks; a `PyObject*` payload has an owner on one side of the border only; an object that refers to a C++ variable |
| Exceptions to statuses | `compat/` | `kImportedObj` | `StatusFromPyExc...`, `ImportObjectOrReturnNone` | a cached lookup that runs Python code; several matching entries; fatal paths |
| Capsule tools | `cpp_capsule_tools/` | capsules, heap copies of `shared_ptr`s, counts | `MakeSharedPtrCapsule`, `VoidPtrFromCapsule`, `SharedPtrFromCapsule`, `RawPtrFromCapsule` | reference count and use count must agree on every error path; destructors under pending errors |
| Span caster | `absl_casters.h:405-570` | `value_`, `list_caster_` | `load`, copy, move | views into buffers, vectors and the caster's own storage |
| Time and time zone casters | `absl_casters.h:66-392` | none | `load`, `cast` | infinities as sentinels, double timestamps, floors, integer widths |
| Other casters | `absl_casters.h:572-673` | none | instantiations of pybind11's `stl.h` casters | - |
| Source location marks | `display_source_location_in_python.cc` | a payload | set and test it | the payload travels with the status, which may be OK or in an exception |

How they interact. Returning a status goes through the casters, which ask the
status module whether it is imported, take the OK singleton on one branch and
throw on the other; the translator registered by the module turns what was
thrown into the Python class. Callbacks go the other way: a Python exception is
fetched, compared with the class of the module (looked up by importing it), and
becomes a status. Capsules carry statuses and shared pointers between extension
modules that do not share types. All of it runs under the GIL, which is given
up in only two kinds of place that matter: inside an import, and inside Python
code (a callable, an as-capsule method). C++ threads may drop shared pointers
without the GIL.

What makes them correct, by component: one stable answer for the singleton, one
class `StatusNotOk`, every error an error on the other side, counts that match
owners on every path, no read of freed memory, hash and equality that agree, and
conversions that lose nothing they do not say they lose.

## 2. Modules

| Module | Models |
|---|---|
| `LazyCell` | abstract: a function-local static that is filled by running Python code |
| `SharedOwners` | abstract: what `std::shared_ptr` promises of one pointee |
| `OkStatusSingleton` | the OK singleton, its first call, its callers, reference counts |
| `StatusModule` | the import of the status module, its failures, the translator, non-OK returns |
| `StatusFromPyExc` | `func_wrapper` and the exception conversion, composed with `StatusModule` |
| `CapsuleTools` | shared pointers in capsules |
| `StatusObject` | Python's `Status` and `StatusNotOk` as mutable values |
| `SpanCaster` | span casters: load, implicit copy and move, and the memory a span refers to |
| `StatusOrCaster` | `Status` and `StatusOr` between C++ variables and Python objects, by value and by reference |
| `TimeConversions` | times, durations, civil times and time zones that go to and fro |
| `..._proofs` | the theorems about the module of that name |
| `MC...` | the instance that TLC checks |

`StatusFromPyExc` EXTENDS `StatusModule` and conjoins its own steps with the
module's: looking the class up *is* an import, in lock step with every other
thread's. `OkStatusSingleton` and `StatusFromPyExc` both have a static that is
filled by running Python code; each states, with `Cell == INSTANCE LazyCell WITH
...`, that it implements the abstract cell. `OkStatusSingleton` sees the import
only by its outcome, because `StatusModule` would add nothing to what the
singleton can observe. `StatusOrCaster` takes the module as imported, which is
what `RaisesImportedClass` allows it, and an exception from a callable as some
error, which is what `OkOnlyByOwnStatus` allows it of every exception but a
`StatusNotOk` with an OK status inside. `CapsuleTools` states that
capsules, lookups and C++ code together implement `SharedOwners`. The others are
components on their own.

### OkStatusSingleton (`ok_status_singleton_lib.cc`)

| State | Code |
|---|---|
| `first_call`, `py_singleton` | the two statics of `PyOkStatusSingleton()` |
| `pc`, `calls`, `raised` | where a thread is: idle, or inside `PyImport_ImportModule` on behalf of one of the three callers; how its last call ended |
| `refs`, `held` | each object's reference count, and the references Python code owns; the rest belong to the static, or to nobody |
| `registered` | the Status object that pybind11's instance map has for the singleton's address |
| `module_loaded`, `singleton_ok`, `loaded_none` | the module is in `sys.modules`; the C++ status itself; what C++ got for a `None` |

`Call` is the function up to the import (or all of it, after the first call),
`FinishWithCapsule`, `FinishWithoutObject` and `FinishWithStatus` are its three
ways out of the import branch, `Drop` is Python letting a reference go (the
last one takes a Status object out of the instance map),
`Update` is `Status.update()` through the reference, `LoadNone` is
`type_caster<absl::Status>::load(None)`. Objects are told apart by their maker.
`MadeObject` is the cast by reference: it gives the registered Status object if
there is one and registers a new one otherwise. `_make_py_ok_status_singleton`
returns it as a handle, which pybind11 increments once more: one of the two
references of an initialisation has no owner, as one of the two of
`Status.OkStatus()` has none.

### StatusModule (`register_status_bindings.cc`, `import_status_module.cc`, `status_not_ok_exception.h`, `check_status_module_imported.h`)

| State | Code |
|---|---|
| `importer`, `import_pc`, `imported` | the import system's lock for the module, each thread's place in its import, the `StatusNotOk` of the module in `sys.modules` |
| `enum_registered`, `type_registered`, `translator` | what pybind11 knows: `InitFromTag`, `absl::Status`, the exception translator |
| `classes`, `this_module`, `type_in_use` | classes defined; the one found in `ThisModule()`; the static of `PyStatusNotOkTypeInUse` |
| `seen` | how each thread's last import or call ended |

`FindModule`, `WaitForImport`, `ModuleMissing` belong to the import system;
`BeginInit` is `RegisterStatusBindings` up to `pybind11::exec`, `EndInit`,
`FailInExec` and `FailAfterRegistering` the rest; `ReturnNotOk` is
`cast_impl`'s error branch followed by the translator. A failed initialisation
leaves everything registered that it registered: that is why a second attempt
fails with the type "already registered".

### StatusFromPyExc (`compat/status_from_py_exc.cc`, `compat/py_base_utilities.cc`, `func_wrapper`)

Adds `cache` (the static `kImportedObj`), `call_pc`, `exc`, `result` and `alive`
(`ABSL_LOG(FATAL)` and `noexcept` end the process, and with it every step).
`Call`, `CallableReturns`, `CallableRaises` are `func_wrapper` around the Python
callable; `LookupContinues` and `LookupEnds` are `ImportObjectOrReturnNone`, the
last with the conversion that follows; `ArgumentThrows` is a `cast_error` inside
the `noexcept` function; `PythonStep` is any other Python code. Exceptions are
told apart by the entries of the code map that they match, two entries included,
and by whether `str()` of them works: the status needs a message, and
`FlatMessage` is fatal when there is none to be had (`Fatal`). A `StatusNotOk`
may be a `KeyError` too, and may carry an OK status or none at all: a subclass
can override `status`, and `_status` can be assigned to. What is inside is
returned without a look at `ok()` (`Convert`, `OwnCode`). A thread's `result` is
forgotten when it calls again.

### CapsuleTools (`cpp_capsule_tools/`)

One pointee. `cap`, `heap`, `cap_refs`, `held` describe each capsule and the
heap copy of the `shared_ptr` it owns; `use_count` and `copies` the control
block and its C++ owners; `pc`, `from`, `error` each thread's lookup and its
pending Python error. `Make`/`MakeFails` are `MakeSharedPtrCapsule`;
`FromCapsule`, `FromMethod`, `Method...`, `Extract`, `RejectName`, `Copy`,
`Finish` are `SharedPtrFromCapsule` over `VoidPtrFromCapsule`; the capsule's
destructor is part of every `DecRef`. `ExtractRaw` is `RawPtrFromCapsule`, which
lets go of a capsule that a method has made (`by_method`) before it returns the
pointer into it; `raw` is that pointer while C++ code uses it, up to `EndUse`,
and the caller's own reference is on the capsule it was passed. `GilFree` is the
GIL: a lookup holds it except while the as-capsule method runs; `DropSharedPtr`
does without.

### StatusObject (`register_status_bindings.cc`, `init_from_tag.h`)

`status` is the value of each Python object, `in_set` and `kept` a Python set
with the hash it keeps of each member, `said` the arguments of the exception
that holds the object as its `_status`. One action per operation of the class;
`RaiseNew` is an exception with a new status of its own, made by
`BuildStatusNotOk`, by the translator or by unpickling. `DisplaySourceLocation`
marks a copy. `New` may have any raw code, because Python does not refuse
`StatusCode(500)`. Messages, URLs and payloads are model values; hashes have no
collisions.

### SpanCaster (`absl_casters.h:405-570`)

`value_` and `list_caster_` are the members, as the memory each refers to or
owns; `alive`, `usable`, `from`, `convert`, `copied` say what became of each
caster; `memory` and `freed` are the memory of the arguments and what is gone.
The element type `type` is chosen once. The copy and move functions written in
the class are function templates, which are never special member functions, so
`Copy` and `Move` are the implicit ones. `Reallocate` is Python
growing an argument after `load()` has given the buffer export back.

### StatusOrCaster (`status_caster.h`, `statusor_caster.h`, `no_throw_status.h`)

| State | Code |
|---|---|
| `type`, `cpp` | the type of each C++ variable (`Status`, `StatusOr<int>`, `StatusOr<PyObject*>`), and what is in it |
| `owner` | the variables that own the reference to their `PyObject*` payload |
| `arg` | the Python argument whose conversion the variable is, while the call lasts |
| `obj`, `refs`, `held` | Python `Status` objects (what they own, or the C++ variable they refer to), reference counts, the references of Python code |
| `given`, `seen` | what Python last gave a variable; what the last step gave Python |

`CallbackReturns` and `CallbackRaises` are `func_wrapper`, with
`py_result.release()` exactly for `PyObject*` payloads (`Releases`); `BeginCall`
and `EndCall` a C++ function that is called with an argument; `Load` is
`load()`. `ReturnOk`, `ReturnPayload`, `ReturnRaises` are `cast()` when the error
branch throws, `ReturnNoThrow` and `ReturnNoThrowOr` when `NoThrowStatus` or
`throw_exception = false` says not to. `Refers` says when pybind11 makes an
object that refers to the C++ variable. What a binding's author must not do is
left out: a reference to a parameter, `take_ownership` of what one does not own,
a payload that nobody releases, a null `PyObject*`. A `std::function` uses
`func_wrapper` only with a pybind11 that has
`PYBIND11_HAS_TYPE_CASTER_STD_FUNCTION_SPECIALIZATIONS`.

### TimeConversions (`absl_casters.h:66-392`)

`py` and `cpp` are the value on either side, `turn` the side that has the newer
one, `first` the first C++ value of the chain, `reworked` whether Python changed
the value's form on the way. `Load...` is `load()` by type of the argument,
`Return...` is `cast()`, `AsTimezone` and `CopyTimedelta` are what Python may do
with equal results in between. A date with a time of day is the number of its
second. The calendar is given by `Starts`, the seconds at which each civil unit
starts within a cycle of `Cycle` seconds (400 years): of months and years
nothing is assumed but that they start where a day starts and a year where a
month does, so that they may have any lengths, leap years included. `Align` is
what a `Civil...` constructor does, the latest start at or before a second
(`LastStart`). A year that a C `int` does not hold reaches `datetime` as some
other year: `YearCut` is any datetime of that time of day, or none. Local time
is at a fixed offset (no daylight saving time). A timestamp is a double of
`DoubleBits` bits, of which only the floor is used: `RoundedUp` says, exactly,
when the nearest double to a second and its microseconds is the next second.
With 53 bits that begins with the last microsecond of a second, 2^34 seconds
from the epoch (in 2514), goes on with the last three from 2^35 seconds (3058)
on, and reaches the last 15 in the year 9999. The `convert = false` pass is not
told apart: what it refuses is simply not passed.

A time zone is a name or an offset. `LoadZone` is `load()`: an offset goes
through `PyLong_AsLong` (`AsLong`: what does not fit a `long` is -1 with an error
pending, which ends the call with a `SystemError`), through the `int` parameter
of `FixedTimeZone` (`AsInt`: cut to its width without an error), and becomes UTC
when it is beyond a day. It goes back by name only.

## 3. What is checked

All runs explore every reachable state.

| Run (`.cfg`) | Instance | Shows | States |
|---|---|---|---|
| `MCOkStatusSingleton` | 3 threads, two calls each, every outcome of the import | `RefsCoverOwners`, `StatusObjectUnique`, `AnswerIsFinal`; implements `LazyCell` | 343 thousand |
| `MCStatusModule` | 3 threads, any number of imports and returns, failure at all four points, debug build, fair imports | `StatusNotOkUnique`, `RaisesImportedClass`; `ImportsEnd` | 3 thousand |
| `MCStatusFromPyExc` | 2 threads, any number of callbacks, imports, returns; three failures; fair imports | `OkOnlyByOwnStatus`, `CodeLostOnlyByFailedLookup`; implements `LazyCell`; `LookupsEnd` | 178 thousand |
| `MCCapsuleTools` | 3 threads, 3 capsules, one of another name | `CapsuleRefsExact`, `UseCountExact`, `CopyReadsLiveCapsule`, `RawPtrIsLive`; implements `SharedOwners` | 47 thousand |
| `MCStatusObject` | 2 objects; OK, UNKNOWN and raw code 500; 2 messages, 2 URLs, 2 payloads | `ErrorsAreFound`, `ExceptionStaysTrue`, `OkIsBare`, `CanonicalPickles` | 44 thousand |
| `MCStatusOrCaster` | 2 variables of all pairs of types, one static; 1 payload object, 2 `Status` objects | `PayloadRefsExact`, `StatusObjectsSound`, `Transparent` | 1.3 million |
| `MCSpanCaster` | 3 casters, 2 vectors, every element type and argument | `SpanIsLive`, `MutableSpanIsSource` | 231 thousand |
| `MCTimeConversions` | 9 microseconds a second, 2 ticks a microsecond, doubles of 7 bits, days of 8 seconds, a year of five days and one of three, seconds -70..127 | `TimesComeBack`, `InfinitiesComeBack`, `DurationsComeBack`, `CivilOnlyCoarsens`, `AwareKeepsInstant`, `ZonesComeBack` | 225 thousand |

Each also checks the module's one type invariant.

Why these bounds are enough. *Threads*: an outcome of the singleton needs a
thread that has settled it and two that are still inside the import, hence
three; a second call each lets them come back after that, and after all
references have been dropped. The status module has one lock: one importer, one
that waits, one that returns a status. A lookup races with one other lookup or
import at a time. *Classes*: one class is all that can be defined, and
`MaxClasses = 2` leaves room for the second that must not be; `StatusFromPyExc`
builds on that result with room for one. *Failures*: the fourth, `"class"`,
differs from `"exec"` only for a caller that returns a status, so that the
larger composition leaves it to `MCStatusModule`. *Capsules*: one that others
hold, one that a method makes, one of another name; three threads, so that one
reads while one drops the capsule and one the pointee. *StatusOr*: one variable
that stays and may be returned by reference, one that comes and goes; an object
that one made for the other to receive, and one besides. At most two references
by Python code to an object: the last, and one that is not. *Casters*: a source,
its copy, and the copy's. *Times*: doubles of 7 bits round the last of nine
microseconds up from 16 s on, the last two from 32 s on, and not before, all
within datetime; the seconds -70..127 lie on both sides of the epoch, of these
limits, of the years of datetime and of a C `int`, so that every carry, floor,
sentinel and wrap around occurs; months have one day or two and the two years
different lengths, so that no unit is a multiple of another; for offsets of time
zones an `int` ends at 31 and a `long` at 127, with numbers beyond both.

`CHECK_DEADLOCK FALSE` stands in the configurations of `OkStatusSingleton`
(calls are bounded), `StatusFromPyExc` (the process may be terminated),
`CapsuleTools` (all shared pointers and capsules may be gone) and `SpanCaster`
(vectors are bounded). The other modules have no state without a successor,
and TLC checks that.

Fairness. `ImportFairness` and `FairSpec` assume weak fairness, for each thread, of
its own steps inside an import, and of nothing else: an operating system
schedules every thread, the GIL is handed on, and what runs inside the import is
the repository's own class statement, which ends. Nothing is assumed of a
callable (it may never return), of an as-capsule method, or of anybody's starting
an import or a call. `ImportsEnd` and `LookupsEnd` are not consequences of that
alone. Weak fairness does not help a thread that waits for a lock if others keep
taking it; what does is that an initialisation is refused once the enum is
registered, so that only finitely many attempts ever get far, and that the
refused thread leaves the import. The mutant `NeverRefused` violates both. All
other properties are safety, and hold without fairness.

### Where code and its descriptions part

| Run | Property | What TLC finds |
|---|---|---|
| `MCNoneLoads` | `NoneLoadsAsOk` | `Status.OkStatus().update(error)` writes through a pointer to const: from then on `None` is an error to C++, process-wide (`register_status_bindings.cc:262`; the test `test_status_caster_load_none`). |
| `MCNoneMeansNotRaised` | `NoneMeansNotRaised` | An initialisation that fails after it defined `StatusNotOk` and registered the translator leaves both behind: a non-OK status is raised as that class, the first lookup finds no module and answers None, and the exception is reported as `UNKNOWN`. The comment in `status_from_py_exc.cc:71-73` says that a class which was not imported cannot have been raised. |
| `MCCopyPointsAtCopy` | `CopyPointsAtCopy` | A copied span caster points at the original's vector (`absl_casters.h:474-477`). |
| `MCAwareIsInstant` | `AwareIsInstant` | Before 1426 and after 2514 a datetime with `microsecond=999999` becomes an `absl::Time` one second late, one more with every round trip (`absl_casters.h:123`). Farther out so does one with 999997 or 999998 (before 882, after 3058), and near the year 9999 with any of the last 15. |

Smaller ones, seen while reading and not run: the docstring of
`ok_status_singleton_pyinit_google3.cc:13` says "-> capsule" for what is mostly a
`Status`; `check_status_module_imported.h:12` says "has been imported" for what is
true from the registration of `absl::Status` on, also when the import then fails;
`README.md:168-170` speaks of the local time zone where `absl_casters.h:305` uses
UTC; a raw code that is not canonical is `UNKNOWN` after pickling, because
`register_status_bindings.cc:338` pickles `code()` (`CanonicalPickles` says what
survives); an offset that a `long` does not hold is a `SystemError` rather than an
`OverflowError`, and one that an `int` does not hold is another offset
(`absl_casters.h:83`; `ZonesComeBack` says for which nothing happens).

## 4. What is proved

For every value of the constants that the named assumptions allow. The
assumptions are no more than that a "nobody" is not one of the threads and a
"nothing" none of the values, that kinds of values which differ in the code
differ in the model (`ObjectsAssumption`: no Python object is a status), that
what is counted by sets is finite (threads and capsules, C++ variables), that
bounds are natural numbers, that there is a thread to own the pointee and
threads are not capsules, and, for `TimeConversions`, that resolutions are
positive, a double tells the half seconds of every datetime apart
(`DoubleAssumption`), civil units nest (`CalendarAssumption`: a year starts
where a month does, a month where a day does, all of them within a cycle of
whole days), the offsets of the time zones contain UTC and the local one, and
ranges are numbers.

*`OkStatusSingleton_proofs`*: `TypeCorrect` (no count becomes negative),
`RefsCovered`, `UniqueStatusObject`, `FinalAnswer` and `LazyCellImplemented`, for
any number of threads and calls and any set of outcomes. That there is one Status
object is derived from pybind11's instance map: a cast by reference finds the
registered object (`OnlyRegistered`: only that one has references), and it is
never taken out of the map, because it has a reference which Python does not own
and so cannot drop (`RegisteredStays`): the one that each initialisation leaves
over. The refinement follows step by step: a call that must
initialise enters the cell, each `Finish...` fills it, all else stutters.

*`StatusModule_proofs`*: `ModuleTypeCorrect`, `OneStatusNotOk` and
`ImportedClassRaised`, for any number of threads and any failures, debug build
or not. That there is one class is not inductive. `ModuleIInv` says why it holds:
the thread inside the initialisation is the one that holds the lock
(`LockInv`); until the enum is registered, and while an initialisation runs,
there is no class yet (`FirstInv`); an initialisation that runs has registered
both types (`BusyInv`); hence every mention of
a class is of the only one (`ClassInv`), and a module that is imported is
complete and is `ThisModule()` (`ImportedInv`). What carries it is that pybind11
refuses to register a type twice: only one initialisation ever gets past its
first registration. Two more theorems say so, and are the safety core of the
liveness property `ImportsEnd`: `FirstAttemptDecides` (once that attempt is over,
the lock stays free, and module, class and registrations stay what they are) and
`WaitersCanGoOn` (a thread that waits has somebody else to wait for, or nobody).

*`TimeConversions_proofs`*: `TypeCorrect`, `TimesSurvive`, `AwareDatetimesKeep`,
`InfinitiesSurvive`, `DurationsSurvive`, `ZonesSurvive` and `CivilTimesCoarsen`,
for every resolution, calendar of nested units, set of time zones and range of
values, and every width of a double, the true resolution (1 000 000
microseconds, 4000 ticks), the Gregorian calendar and the 64-bit range among
them. `TimeChain`, `AwareChain`, `InfinityChain`, `DurationChain`, `CivilChain`
and `ZoneChain` say what the value looks like on *either* side of the border,
which is what makes them inductive. A duration needs arithmetic besides:
`TowardZero`, written with carries as the code's seconds and microseconds are,
is truncation of the number of ticks (`TowardZeroTicks`), by the uniqueness of
remainders (`ModUnique`). An offset needs that cutting to an `int` changes
nothing that fits one. A civil time needs that aligning to one unit and then to
a coarser one is aligning to the coarser one (`AlignNested`): the latest start
of a year at or before a second is also the latest at or before the start of
that second's month, because a start of a year is a start of a month
(`LatestStart`, which says that there is a latest start and only one, and
`LastStartNested`). No length of a unit is needed for that, which is why months
and leap years do not matter. A datetime that carries a time zone determines the
instant whatever zone Python moves it to (`AwareChain`); the exceptions are the
two that stand for infinity, years beyond a C `int`, and the last microseconds
of a second where `RoundedUp` says that the timestamp is the next second's: the
rounding that `AwareIsInstant` shows. `TimesSurvive` has the same exceptions,
and the times that some zone shows as infinite.

*`StatusFromPyExc_proofs`*: `TypeCorrect`, `OkOnlyFromOwnStatus`, `CodeKept` and
`LazyCellImplemented`. It builds on `ModuleIInv`: there is one class at most, so
whatever an exception is of and whatever the cache holds is that class or none
(`KnownInv`), and a thread looks the class up only on behalf of an exception
(`LookupInv`). Hence a race to fill the cache stores the same thing twice at
worst, and only a None that was kept makes a `StatusNotOk` an ordinary
exception. Success is reported for an exception only if its class is the one of
the imported module and the status inside it is OK. `ModuleImplemented` is the
composition: callbacks do to the module only what `StatusModule` describes,
hence `CallablesSeeImportedClass`. `ImportedRecognised` closes the circle: a
class that callbacks recognise is the imported one, the same that
`RaisesImportedClass` says is raised, so that an error that C++ raises through
Python comes back to C++ as itself.

*`StatusObject_proofs`*: `TypeCorrect`, `ErrorsFound`, `ExceptionsStayTrue`,
`OkStaysBare` and `PicklesFaithfully`, for any codes, messages, URLs and
payloads. The last gives an equal status back for canonical codes; a raw code
that is not canonical comes back as an UNKNOWN that says the same. All rest on
what a change may do to a status: if it is an error, code and message stay
(`SameError`), and these are what its hash is made of; if it is OK, it stays
bare. A set keeps the hash that its members have, unless they were OK when they
were added (`SetInv`): the one case that `ErrorsAreFound` leaves out. The same
lemmas make `FirstErrorsKept`, about the steps: nothing changes code or message
of an error that is kept. `PicklesOnce`: a copy's copy is the copy, raw codes
included.

*`SpanCaster_proofs`*: `TypeCorrect`, `SpansLive` and `MutableSpans`.
Casters and the vectors they own are one to one (`OwnInv`), nothing is freed that
was not allocated, or moved away from, before (`FreedInv`), and a span that no
copy made refers to its caster's vector or to its argument (`SpanInv`).

*`CapsuleTools_proofs`*: `TypeCorrect`, `CapsuleRefsCounted`, `UseCounted`,
`CopiesReadLive` and `RawPtrsLive`. A capsule lives exactly as long as its count
is positive (`MemInv`); a thread on the way through a lookup holds a reference
where `PcInv` says it does. Both counts are cardinalities of sets of owners, and
each step puts in or takes out one (`FiniteSetTheorems`). `SharedOwnersImplemented`
is the refinement: seen from outside, every step makes one owner from another,
drops one, or does nothing to the owners (`OwnersCounted` ties the use count to
them). From it follows `DeletedForGood` (a pointee that is gone has no owner ever
again), and from the counts `CapsulesKeepPointee` (a Python reference to a
capsule is enough to keep the C++ object) and `CapsulesGoForGood` (nothing touches
a capsule that is gone: no second destructor).

*`StatusOrCaster_proofs`*: `TypeCorrect`, `PayloadRefs`, `StatusObjects` and
`Transparency`, for any number of variables, payloads and Status objects and any
of the policies. What a variable holds fits its type (`CppInv`); it owns only the
payload that it holds, and a parameter keeps what it was given for the whole call
(`OwnerInv`); only a static Status is ever referred to, by one object (`ObjInv`);
and what a variable was given is still what it holds (`GivenInv`), which is all
that `Transparent` has to know of the past. Each step then changes the account of
one object (`OneAccount`).

Model-checked only: `ImportsEnd` and `LookupsEnd`, because liveness under fairness
is beyond this prover, as are ENABLED, induction over data and RECURSIVE operators
(there are none here). Every other property of the passing runs is stated by a
theorem. The properties of the violation runs are false of the code.

## 5. Not modelled

- Casters for containers, `optional`, `variant`, `string_view`, `Cord`
  (`absl_casters.h:572-673`): instantiations of pybind11's own, without state or
  branches of their own.
- Of the status classes: the text functions (`str`, `repr`, `ToString`),
  `StatusCodeFromInt`, `is_ok`: values of one argument, without effect. Of the source
  location marks, the test for them, which is one payload lookup.
- `import_status_module.cc`'s `OrDie` forms: the same import with an abort.
- Overloads of the casters and of `DisplaySourceLocationInPython` for builders and
  `const` arguments, which are the modelled ones with another spelling.
- What a binding's author promises (ownership of what is returned, lifetime of
  what is referred to): stated as guards of `StatusOrCaster`, not checked.
- The text of converted exceptions; that there is none is modelled (`Fatal`).
- The null pointers that `status_caster.h:64` and `statusor_caster.h:88` return as
  None: no state is read or changed.
- `python -O`, which drops the `assert` in `StatusNotOk.__init__` and with it
  `ExceptionStaysTrue`; subclasses of `StatusNotOk` that make a new status at each
  access; interpreter shutdown; subinterpreters.
- Build files, tests, examples: read as statements about the code.

## 6. Plan

What holds state that is shared across threads or languages is modelled, with
every operation on it, and every safety property that a run checks is proved. What
is left:

1. The composition of `StatusOrCaster` with `StatusModule`: a cast of an error
   before the status module is imported. The two are joined today by
   `RaisesImportedClass` on one side and the assumption that the module is
   imported on the other.
2. Interpreter shutdown, where the statics of `StatusFromPyExc` and
   `OkStatusSingleton` outlive what they refer to.

To run one configuration: `tlc -config MCSpanCaster.cfg MCSpanCaster.tla` (the
violation runs use the module of their component: `PROJECT.json` names it). To
check the proofs of a module: `tlapm StatusModule_proofs.tla`.
