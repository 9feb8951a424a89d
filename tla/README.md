# GNU gettext in TLA+

This directory models GNU gettext, checks the models with TLC, and proves with
TLAPS the properties that matter most. Two parts of the repository are covered:

* the run-time library libintl (`gettext-runtime/intl`), which any number of
  threads of a program call at once. They look messages up in a cache of known
  translations that is shared and only partly guarded; they locate, load and
  convert catalogs on demand; and other calls change the settings all of this
  depends on;
* the tools (`gettext-tools/src`) that read, merge, convert, check and write
  catalogs of messages, with the data structures they stand on.

1. [The system](#the-system)
2. [Modules](#modules)
3. [From the code to the models](#from-the-code-to-the-models)
4. [Runs](#runs)
5. [Bounds](#bounds)
6. [Fairness](#fairness)
7. [Proofs](#proofs)
8. [Disagreements found](#disagreements-found)
9. [What is not modelled](#what-is-not-modelled)
10. [Plan](#plan)

## The system

| Component | State | Operations | What is hard | What makes it correct |
|---|---|---|---|---|
| Message lookup (`dcigettext.c`) | the tree of known translations; the locals of each call | `dcgettext` and its variants | outdated entries are overwritten in place, under a lock held for reading; a counter says which entries are current | the answer is what a full search may find; the tree is changed by one thread at a time; every lookup returns |
| Settings (`textdomain.c`, `bindtextdom.c`) | the default domain, the bindings, `_nl_msg_cat_cntr` | `textdomain`, `bindtextdomain`, `bind_textdomain_codeset` | strings are freed that lookups may use; allocations fail half-way | no lookup uses a freed name; the cache is flushed exactly when something changed |
| Locks (`lock.c`, `lock.h`) | counts and queues of a read-write lock, a once object | lock, unlock, once | made of a mutex and condition variables, or of events and a circular array: lost wake-ups, starvation, hand-over | exclusion; nobody sleeps for ever; one initialization, which on Win32 has finished before anyone goes on |
| Locating catalogs (`finddomain.c`, `l10nflist.c`, `explodename.c`) | the list of loaded domains, each with its successors | `_nl_find_domain` | built recursively, with shared entries; memory may run out in the middle | every locale name gets the less specific catalogs, all of them, in the documented order |
| Loading catalogs (`loadmsgcat.c`) | `decided` and `data` of each domain; the hash table of system dependent strings | `_nl_load_domain` | `decided` is tested without the lock; the loading thread enters again for the header entry | a catalog is loaded once, and used only when it is complete; every message of the file is found |
| Conversion (`_nl_find_msg`) | the conversions of each domain, the pool of converted strings | lookup in a catalog | the table is searched under one lock and extended under another, and it moves | one element per encoding; no dangling pointer; strings handed out stay |
| Plural forms (`eval-plural.h`, `plural_lookup`) | none | evaluate a formula, select a form | unsigned arithmetic, division; a formula that was checked for some numbers only | the form selected is one of the translation |
| Aliases (`localealias.c`) | a table and a pool of strings | `_nl_expand_alias` | pointers moved by reallocation; files are read only when needed | an alias has the value of its first definition |
| Log (`log.c`) | an open file | `_nl_log_untranslated` | a file kept open between calls | a message goes to the file of its name |
| Message lists (`message.c`, `hash.c`) | a list with an optional hash index | read, prepend, remove, copy, convert, search | list and index are updated separately; some programs change keys | a search finds what is in the list |
| Merging (`msgmerge.c`) | the definitions, the fuzzy indices, the result | `msgmerge -U` | several threads share lazily built indices; several passes over domains; repeated calls | no translation vanishes; the result passes the checks; a second call changes nothing |
| Combining (`msgl-cat.c`) | the lists, the counts, the result | `msgcat`, `msgcomm`, `msguniq` | four passes over all files, with weak and good translations, and several encodings | every translation that counts is there, in one encoding |
| MO files (`write-mo.c`, `loadmsgcat.c`, `dcigettext.c`) | the hash table of a file | write, load, look up | writer, loader and reader probe separately | every message of the file is found |
| Filter (`msgfilter.c`) | two pipes, a buffer | send a string through a program | both processes may wait for each other; partial reads and writes | the whole output arrives; neither waits for ever |
| Terminal output (`term-ostream.oo.c`) | a line of characters and attributes | write, flush, set attributes | sequences that clear more than one attribute; signals in between | every character has its attributes; the terminal is left in its default state |
| Lisp format strings (`format-lisp.c`) | the constraints on the argument list, the calls of the parser | parse a string, compare that of a translation | jumps, conditionals, iterations and escapes; constraints as an initial segment and a loop, with sublists | every call that works satisfies the constraints; equal constraints have equal normal forms |
| PO reader, checks, charset conversion, extractors | modes of the lexer, lists | read, check, convert | lookahead and modes; what was checked of one file is used with another | a written catalog is read back and is valid |

A lookup takes `_nl_state_lock` for reading, resolves the domain, and searches
the tree under `tree_lock`. If the entry it finds has the current value of the
counter, that is the answer. Else it goes through the list of locale names; for
each it locates a catalog (a lock of `finddomain.c`), loads it (a recursive lock
of `loadmsgcat.c`), looks the message up and converts it (`conversions_lock` of
the catalog and the lock of the string pool), and in the end enters the result
into the tree or overwrites the outdated entry. Where a catalog has the message
but it cannot be found, loaded or converted, the search goes on to the next
catalog or locale name, and what it finds there is stored like any other result. The settings take
`_nl_state_lock` for writing and increment the counter, which outdates the whole
tree.

The tools are programs with one thread, except for the OpenMP loop of msgmerge
and the subprocess of msgfilter. Each reads catalogs into message lists, works on
them, and writes them. They share no state with the library, only the format of
MO files and of plural formulas: what `msgfmt -c` accepts, the library evaluates.

`PROJECT.json` lists every part of the repository with its sources, modelled or
not, and the hazards at their lines.

## Modules

| Module | What it is |
|---|---|
| `RwLock` | what a `gl_rwlock_t` promises its users |
| `GlRwLock` | the implementation in `lock.c`: a mutex, two condition variables, two counts |
| `WinRwLock` | the one for Win32: a critical section, two queues of events, lazy initialization |
| `GlOnce` | once objects, of Win32 and of Solaris |
| `Dcigettext` | the lookup with its cache, and the settings; uses two instances of the promise of `RwLock` |
| `DcigettextEnv` | the same in a program that also changes LANGUAGE and the locale |
| `GettextService` | what a caller may rely on: no cache, no counter, no locks |
| `DcigettextService` | the refinement mapping from `Dcigettext` to `GettextService` |
| `L10nFlist` | how a locale name becomes a list of catalogs |
| `LoadMsgCat` | the loader: `decided`, the recursive lock, the recursion for the header |
| `FindMsg` | a lookup in the catalogs of a locale: the walk through the successors, `_nl_find_msg` and the conversions; extends `LoadMsgCat` |
| `Plural`, `PluralEval` | the formula as `msgfmt -c` tries it, and the selection of a form; the evaluation of a formula |
| `LocaleAlias`, `Log` | the table of aliases; the log of untranslated messages |
| `MoFile` | the hash table of an MO file: filled by the writer and the loader, probed by the reader |
| `Dictionary` | a finite map, as `hash.h` promises it |
| `HashTable`, `Primes` | the table of `hash.c` with double hashing and enlargement |
| `MessageList` | a message list and its index, in the hands of the programs; uses `Dictionary` |
| `MessageOps` | copying, searching, comparing, checking and printing of messages |
| `Msgmerge` | `msgmerge -U`, called several times; extends `MessageOps` |
| `Catenate` | the combination of catalogs |
| `Filter` | msgfilter and its subprocess |
| `TermOstream` | colored output to a terminal |
| `ArgList` | the constraints that a Lisp format string puts on its arguments, and the operations on them |
| `LispFormat` | the parser of these strings; uses `ArgList` |
| `LispMeaning` | what the directives do with arguments: the reference for `LispFormat` |
| `DcigettextInv`, `FindMsgInv` | the inductive invariants |
| `DcigettextProofs`, `FindMsgProofs` | theorems about the module of that name, and their proofs |
| `IntlProofs` | theorems about `LocaleAlias`, `Plural` and `L10nFlist` |
| `HashTableProofs` | theorems about `HashTable` and `MoFile` |
| `DcigettextCallerProofs` | theorems about `DcigettextService` and `DcigettextEnv` |
| `LockProofs` | theorems about `GlRwLock`, `WinRwLock` and `GlOnce` |
| `StructureProofs` | theorems about `MessageList`, `Msgmerge` and `Catenate` |
| `ProcessProofs` | theorems about `Filter` and `TermOstream` |
| `MCThreads`, `MCStructures` | instances of many components, see [Runs](#runs) |
| `MCDcigettext*` | the instances of `Dcigettext` |

How they compose: `Dcigettext` treats the search in the catalogs of one locale name
as one step; which catalogs there are, which have the message, and which of those may
fail are the constants `Tried`, `Installed` and `Failing`. `FindMsg` opens that step up,
with the locks the search takes while `_nl_state_lock` is held for reading; `L10nFlist`
opens up the list that `FindMsg` walks through (its constant `Successors`, the
`Tried` of `Dcigettext`), and `LocaleAlias` the table it consults first. `GlRwLock` and `WinRwLock` implement
the `RwLock` that `Dcigettext` relies on. `HashTable` implements the `Dictionary`
that the index of a `MessageList` is.

## From the code to the models

Each thread or process has a program counter. A step goes from one point at which
another one can be seen to the next: a lock or unlock, or an unlocked read or
write of shared memory. What a lock covers completely is one step. In programs
with one thread a step is an iteration of a loop or a function.

*Dcigettext.* `_nl_state_lock` is `stateReaders`/`stateWriter`, `tree_lock` is
`treeReaders`/`treeWriter`; `cntr` is `_nl_msg_cat_cntr`; `tree` maps a key (what
`transcmp` compares) to an entry. The steps of a lookup are `Call`, `Enter` (the
state lock, the default domain), `TreeRdlock`, `Tfind`, `CheckCounter`, `ReadHit`
(the entry is read after the comparison of its counter, so that another thread
can come in between), `Resolve` (the directory, `getcwd`), `TryLocale` (one
locale name of the list, see below), `Stamp` (the counter is read when the search is over),
`TreeWrlock`, `Tsearch`, `UpdateField` (the fields of an outdated entry are
written one by one, in any order a compiler may choose), `Leave`, `Log`.
`Textdomain` and `SetBindingValues` each run under the write lock, with each
outcome of their allocations; `Bump` is the end of both. `freed` collects the
copies of domain names that `textdomain` has given back to the heap.

`TryLocale` is a turn of the loop at `dcigettext.c:739`, with three outcomes. It finds
the message in one of the catalogs of the locale name, `Answering`: the first one that has it,
or one behind others that have it and fail (`MayMiss`). Or all that have it fail, or none
has it (`MayMissAll`), and the loop goes on to the next locale name. Or it ends without an
answer, at "C", or because a lookup in a catalog that has the message returns -1. That a
catalog fails stands for `_nl_find_domain` returning NULL for lack of memory
(`finddomain.c:131`), a catalog that cannot be loaded, or a NULL of `_nl_find_msg` for a
message that exists (`dcigettext.c:892`, "conversion failure"). So a search with LANGUAGE=fr:de
may answer de although fr has the message, and that answer is entered into the
tree with the current counter. What a full search may find is therefore a set,
`InForce`; it has at most one element when no catalog fails.

`DcigettextEnv` adds what the program does outside of the library: `setenv`
followed by the unlocked increment of the counter the manual recommends, and
`setlocale`.

*GlRwLock, WinRwLock, GlOnce.* The mutex makes every section between lock and
wait or unlock one step. A thread that waits is asleep until it is signalled or,
with condition variables, wakes up spuriously. On Win32 the unlocking thread
hands the lock over: it changes the count for the thread it wakes up. The
circular array of a queue is modelled with its offset and its enlargement; a
failed allocation makes the thread poll. A once object is two flags, a counter
and a lock; `calls` and `finished` observe the initialization function.

*LoadMsgCat, FindMsg.* `decided` is -1 while a catalog is being loaded, `data`
says whether its plural formula is known yet ("fresh", "complete"). `convd` is
the index of an element of `conversions`; `dangling` is the set of threads whose
pointer goes into a table that was moved since. `conv_tab` is one cell, for the
one message: null, allocated, failed (`(char **) -1`), or full. Every failure of
`malloc`, `iconv_open` and `iconv` is a choice of its step.

*L10nFlist.* A file name is a record of its parts. The recursion of
`_nl_make_l10nflist` is the sequence `calls` of the calls that have not returned,
each with the entry and the mask it works for: `MakeList` is the outermost call,
`Inherit` the next step of a loop, which finds the successor, calls itself for it
or lacks memory, `ReturnEntry` the return. How far a loop has come (`entries`, and
from it `cnt`) is the number of successors the entry has. The lock is held for
writing from the outermost call to its return, so the steps in between are seen
by nobody who takes it.

*LocaleAlias, Log.* A line of an alias file is a pair of names; a string in the
pool is an offset, and the pool that was moved is known by its number. An entry
of the log is written in pieces, a file is the sequence of the pieces in it.

*Plural.* Numbers are unsigned with `Word` different values (64 in the instance),
and the check tries the numbers below `CheckLimit` (20; in the code 2^32 or 2^64
values, and 1000 numbers). A division by zero is an outcome of its own. A translation is
the sequence of the lengths of its forms.

*MoFile.* A key is a number, in the order of the strings. The hash function is
chosen from a set of functions, among them constant ones. `Enter` is the loop of
the writer and of the loader, `Look` and `Bisect` are those of the lookup, with
the hash table and without it.

*HashTable.* The functions on keys and sizes are as in the code, with 1-based
tables and entry 0 for "not found". `link` and `first` are the circular list of
entries for the iteration. Its order is not that of the insertions: an enlargement links
the entries anew in the order of their indices, and no property is about it.
`Dictionary` says what is inserted, replaced and found.

*MessageList.* A message is a record on `heap`; list and index have pointers to
it, so that a change of its key is seen through both. `Plan` says what a program
does with its list after reading. msguniq works as msgcat with duplicates. Lists
that a user of libgettextpo creates are without an index and start empty.

*Msgmerge.* A message has its key, plural, translations ("", "part" for one that
lacks a directive of its format, "full"), flags, and the place its comments come
from. `Similarity` stands for the fuzzy comparison. `Iterate` to `SearchComp` are
the parallel loop; `MergePass` is the loop after it. The last loop of `merge()`, which
keeps what was not used as obsolete messages, goes domain by domain (`KeepObsolete`,
in the phase "obsolete", for which `next` is the domain). `Write` compares and writes,
and the file is read again by the next run.

*Catenate.* A text is its characters with the encoding of its bytes, so that
texts with the same bytes are equal; ASCII characters have the same bytes
in the encodings that are compatible with it. The text of a header entry also
stands for the project name in it, and carries the charset. The input is PO
files. The loops of `catenate_msgdomain_list` go message by message (`CountMessage`,
`RemoveMessage`, `FillMessage`), that of the conversion list by list (`ConvertList`), and
`NextList` goes on to the next list; `total` are the messages that its last removal leaves.

*Filter.* Bytes are counted; in the output of the filter NUL bytes are told from
others. The filter reads and writes in any order and ends when it has written its
output, or dies. `have_select` tells the two builds.

*TermOstream.* The terminal is known by the escape sequences it has, what they
clear beyond their names, and the attributes that cannot be combined with colors.
`pending` is the rest of what `output_buffer` has to do, one item for each escape
sequence, character, and change of the signal mask or the exit handler, so that a
signal or a failure can come before each of them. What the exit handler itself
writes succeeds.

*ArgList, LispFormat, LispMeaning.* A format string is chosen directive by
directive, from the records `alphabet.directives`; `frames` are the calls of
`parse_upto` that have not returned. A list of constraints is two sequences of
elements with repeat counts; what the code does with counts, arrays and pointers
is done on these sequences, and where it would read elements that do not exist or fail an
assertion, the result is `Failed`, and the string ends there. How many elements are
allocated is not modelled: after `rotate_loop` has put a smaller array in place of
`repeated.element` (`format-lisp.c:770`), `repeated.allocated` is stale, and a later
`ensure_repeated_alloc` (lines 526 and 661) may leave the array too short for what
is then stored in it. In the model such an operation succeeds. `LispMeaning` says
for which arguments `format` works, from the definition of the language and not
from the parser: `Outcomes` collects the places a directive may leave the
arguments at, and whether `~^` was executed.

Which build is modelled: the library outside of glibc, with threads,
`HAVE_ICONV`, and the names of threads' locales (`HAVE_NL_LOCALE_NAME`).
`ThreadNames` tells the build of the test suite (`USE_IN_GETTEXT_TESTS`, TRUE)
from the installed one (FALSE).

What is abstracted everywhere: names are model values. "POSIX" is treated like
"C". In `Dcigettext` a lookup with a plural form returns the whole translation.
Memory is sequentially consistent: the unlocked reads of `decided`, `conv_tab`,
`inited` and of the fields of an entry see the last value written. What happens
after a pointer dangles is not modelled, only that it does.

## Runs

`MCThreads` and `MCStructures` each put several components into one instance. The
components share no variable; in the initial state `which` chooses one, and only
that one takes steps, while the others stay as they are. Each state is thus a
state of one component, and the run checks each component in full.

| Run | Instance | What it shows |
|---|---|---|
| `Dcigettext_settings` | 2 threads, 2 domains, 2 directories (one relative), 1 codeset, locales C and de, the latter with the catalogs de_DE, which may fail, and de; 2 changes | types and lock ownership; no lookup uses a freed domain name; the cache is coherent; no two threads are in the tree when one changes it |
| `Dcigettext_service` | 2 threads, 1 domain, 2 directories of which one has catalogs, 3 locales, LANGUAGE unset or fr:de, fr may fail, 1 change; no symmetry | every call returns; the lookup implements `GettextService` |
| `Env_single` | 1 thread, set-user-ID, locales C, de, fr and one with a slash, LANGUAGE unset, fr:de or a file name before de, fr may fail, 3 changes, the installed build | every answer is current; a changed LANGUAGE is noticed |
| `Threads` | `FindMsg`: 2 threads, a language and its variant, 2 charsets. `GlRwLock`: 4 threads. `GlOnce`: 3 threads. `Log`, `LocaleAlias`: 2 threads, 2 calls each, 3 alias files. `Filter`: 37 jobs, pipes of 2 bytes | loading and conversion with all their failures; no lost wake-up, writers get in, the lock implements `RwLock`; one initialization; aliases keep their values; a filter's output is complete and neither process waits for ever |
| `Structures` | `L10nFlist`: 4 locale names that share files, 1 alias, memory short once, 2 threads. `WinRwLock`: 5 writers, or 3 readers and writers. `HashTable`: 5 keys, sizes up to 11. `MoFile`: up to 7 strings. `Plural`: 120 formulas, 0 to 3 forms. `MessageList`: 9 programs, files of up to 3 messages. `Msgmerge`: 2665 inputs, 2 threads, 2 calls. `Catenate`: 7068 inputs. `TermOstream`: 7 terminals, 6 styles, 2 characters. `LispFormat`: strings of up to 3 to 5 directives, pairs of up to 2 or 3, from 8 alphabets | successors are right whoever made the entry; the lock is handed over soundly and implements `RwLock`; the table implements a dictionary and probing ends; every message of a file is found; the form selected is in the translation; the index agrees with its list; msgmerge loses nothing, passes the check and settles; combined catalogs are complete and in one encoding; attributes are shown and the terminal restored; Lisp constraints admit every call that works, and their comparison is right |
| `Dcigettext_answer`, `Dcigettext_torn`, `FindMsg_uselocale`, `Log_reuse`, `MessageList_msginit`, `Filter_empty`, `Lisp_loop` | | violations, see [below](#disagreements-found) |

Deadlock is checked in the runs of `Dcigettext` and `DcigettextEnv`. In `Threads` and `Structures` it is not,
because most of their components are programs that end; that nothing hangs in
them is what the liveness properties say (`LookupsReturn`, `WriterEnters`,
`FilterEnds`).

Each property has a mutant in the module it is about (`...Mutant`), a mutated
form of one definition with which TLC finds the property violated.

Symmetry of the threads is used only where no liveness property is checked; a
refinement that is checked with it is a safety property.

## Bounds

Why the bounds are enough to see something:

* *Threads.* The hazards of the library are pairs: one reads what another
  overwrites, inserts between a failed search and an insertion, frees what another
  has read. Two threads are all of these. A read-write lock takes four: a writer
  that holds it, one that sleeps, a reader that sleeps and one that comes anew. A
  once object takes three: the first, one that meets it inside, and one that comes
  when the second has left. The Win32 queue takes five: its circular array holds
  two waiting threads, must wrap around and then grow.
* *MaxCntr*, the changes of the settings. One is needed to outdate an entry, a
  second one to free a copy of a domain name (the first default name is static)
  and to outdate an entry that was overwritten once.
* *Locale names.* With fr:de and C the list has an entry that may be passed over
  although it has the message, one that is found, and the end. In de two catalogs are
  tried, of which the first may fail. A list of locale names together with changes of
  the default domain is in the proofs only.
* *Directories.* The relative one needs `getcwd`, which can fail.
* *MaxShort* (1): one allocation fails, at any step of any lookup.
* *MapStep*, *PoolStep* (1, 2): table and pool of aliases grow with nearly each
  alias; in the code, by half their size or 100 entries, and by 1024 bytes.
* *InitSize*, *MaxSize*: a table of two entries that is enlarged twice; the hash
  functions include a constant one, which makes every probing path long.
* *Word*, *CheckLimit*: numbers beyond the limit of the check exist (20 to 63),
  and subtraction wraps around.
* *Files of messages* have up to three messages, two of the same key, obsolete or
  not; or, for msgmerge, up to three keys, one of which resembles two others; two
  calls, since a second one must settle.
* *PipeSize* (2): outputs and strings are longer than a pipe.
* *LispInputs*, *MaxDepth* (3), *ArgLists*: every string of an alphabet up to a
  length, with all argument lists up to a length (4, or 3 with many kinds of
  values). That the lists are long enough is part of what `CheckDecides` shows: two
  constraints that are not equal differ for one of them. Larger instances, of up to
  444 000 states, gave the same result, and the model agrees with the compiled
  parser on more than 250 000 strings.
* *MaxChars* (2): every change between two of the attributes, from and to
  the default, on each terminal.

## Fairness

* `Dcigettext`: a thread inside a call goes on (weak fairness), and one that
  waits for a lock gets it if the lock is free again and again (strong fairness).
  The latter is an assumption on the locks: `GlRwLock` shows that a writer gets
  the lock of `lock.c` however many readers come (`WriterEnters`), but the
  library mostly uses `pthread_rwlock_t`, which promises nothing of the kind, and
  `lock.c` promises readers nothing. Nobody is obliged to begin a call.
* `GlRwLock`: a thread that can go on does, and whoever holds the lock releases
  it. No spurious wake-up is relied on.
* `FindMsg`: strong fairness of every thread's steps, for the recursive lock of
  the loader and the two locks of the conversion, which are held for a bounded
  time only.
* `Filter`: both processes run (weak fairness), once msgfilter has begun. Which of the ready descriptors is
  served, and how many bytes a read or write moves, is left open. The filter
  may read and write in any order, but it waits for what it has begun.

## Proofs

All theorems hold for any set of threads, catalogs, locales, keys and settings
that satisfies the named assumptions of the modules (the kinds of the constants,
and that `Null` is none of the other values; the locks assume a finite set of
threads, because they count them). Where a theorem needs more, it says so in an
ASSUME of its own, and the text below says why.

*Dcigettext* (`DcigettextProofs`). `TypeCorrect`, `TreeExcluded`,
`DomainNamesValid`, `CacheIsCoherent` follow from the inductive invariant `IInv`,
which has two parts: what the calls know (`CallInv`), and what the entries of the
tree are worth (`CacheInv`). None of the properties is inductive alone:

* that an entry with the current counter is right needs that whoever stores it
  holds a result that a search may find now, and a current stamp (`LookupInv`), hence
  that the settings do not change while a lookup holds the lock (`LockInv`);
* a result is one that a search may find, because in all catalogs of the locale names
  before it the message is not there or may fail (`SearchInv`);
* the fields of an entry are written one at a time, possibly by several threads, which
  with the same settings may have found different translations, if a catalog failed
  one of them. Nobody can then say whose fields an entry has. What is inductive is
  about one field at a time: what a thread has stored of it so far may
  have been overwritten, but by something else that a search may find (`UpdateInv`). So
  catalog and string of a current entry are each right, and need not belong
  together: `Dcigettext_torn` shows that they do not;
* no entry may have a counter of the future (`CacheInv`), or the next change
  would make it current;
* a freed name is not used, because the copy that is current has not been freed,
  and the number of the next copy is new (`DomainInv`).

*Callers* (`DcigettextCallerProofs`). `ServiceImplemented` is the refinement of
`GettextService`, for any number of threads. The history variables of
`DcigettextService` hold what the settings have said so far; the invariant `HInv`
adds to that of `Dcigettext` that the counter of a hit is still the current one
when the entry is read (`HitInv`: nobody can take the lock for writing meanwhile,
but others may store into the entry), and that the fields of every entry, each for
itself, stem from something the settings once said (`PastInv`). This is how far
the overwriting of entries can go wrong, and `GettextService` admits no more: what is
in force for a message is a set, whose elements differ only if some catalog fails;
the catalog of an answer and its string are each from that set; and only while another
call for the same message is in progress may they be from what was in force before.

`EnvInvariant`, `AnswersCurrent` and `ChangesKnown` are about a program that also
changes LANGUAGE and the locale. There `CacheInv` is lost: while one locale is in
force, the entries of another one are not what a search in the locale in force
would find. What is inductive (`EnvInv`) is that an entry says what a search in its own
locale may find, that its counter is none of the future even between setenv and the
increment, and that nobody uses the library in between. Both hypotheses are
needed. `OneThread`: the manual's increment is unlocked, and with two threads
`Dcigettext_answer` applies. `LocalesAgree`: if threads may have locales of their
own (`uselocale`), the library must know their names; the installed one does not,
see [Disagreements](#disagreements-found).

*Locks* (`LockProofs`). *GlRwLock*: `CountsHold` is inductive; it says that
`runcount` and `waiting_writers_count` are cardinalities of sets of threads.
With it, `WakeupsNotLost` (every unlock that frees the lock wakes somebody up,
and a woken writer still counts as waiting) and `IsRwLock`, the refinement.
*WinRwLock*: for `WinHandOver` the invariant (`WinInvariant`) says where in the
circular arrays the waiting threads are, each in one place, also when an array has
wrapped around and is copied into a larger one; and that the count is made up of
the threads that hold the lock and those it was handed to in their sleep, whose
event is set but who have not run yet. `WinLockImplements` is the refinement: a
thread has the lock from the hand-over on. *GlOnce*: `OnceIsSound`, at most one
initialization, and on Win32 nobody returns before it has finished; on Solaris that
is not so, see [Disagreements](#disagreements-found). On Win32 the invariant
is about the counter `started`: it is -1 until the first thread comes, and then
the number of threads that have incremented it in vain and not yet taken that back
(`CountInv`), so no second thread can find itself the first; `FirstInv` says how
far that first thread is, and that it holds the critical section from when others
can see it. On Solaris the mutex makes the test and the call one step
(`SolarisInv`).

*FindMsg* (`FindMsgProofs`). `Invariance` of `IInv`; from it `CatalogsComplete`,
`CatalogsStay`, `EncodingsUnique`, `AnswersEncoded`, `StringsAreKept`, and
`PointersStayValid`. The invariant has to say whose the value -1 of `decided` is
(`LoaderInv`: exactly that of the file the holder of the lock is loading), that
whoever has passed the unlocked test works with a decided file (`PassedInv`),
and that `convd` is the index of the element for the encoding of the lookup
(`ConvdInv`). `PointersStayValid` assumes that the threads share their locale
(`~Uselocale`): then all lookups under way want one charset, and the table moves
only before the first of them has its element. Without this assumption it is
false, as `FindMsg_uselocale` shows.

*LocaleAlias* (`IntlProofs`). `ExpansionSound`. That a NULL is right is the
hard part: the files are read one by one, up to the first that adds something, by
whichever thread comes, and reading stops at any failure of memory. `AliasInvariant`
says that every line before the place that has been reached is in the table, unless
there was no memory, and that who reads on looks for a name that the table lacks.

*L10nFlist* (`IntlProofs`). `InheritanceKept` and `AnswerFound`, for any threads,
locale names, aliases, catalogs and failures of memory. The hard part is that an
entry is made in a loop of calls that make others, which other names share. In
`L10nInvariant`, the pending calls work for masks of one name, each for the one at
which the loop of the call before it stands; entries with a pending call have the first of
their successors, all others all of them, and a thread walks through an entry of the
latter kind. That the masks dominated by one mask, counted down, are the less
specific files in the documented order, each once, and that there is room for
them, are lemmas about sets and their ranks (`Ranking`, `SameOrder`, `FileInherits`,
`EnoughSlots`). The assumptions on the constants say what names are:
a normalized codeset is its own normalization, and the null pointer is no file.
`AnswerFound` needs that no name of an alias is that of a file which another name
inherits from (`AliasesApart`); see [Disagreements](#disagreements-found).

*Plural* (`IntlProofs`). `FormIsSelected`, from `PluralInvariant`: in `plural_lookup`
the string reached and the number of strings to skip add up to the value of the
formula, and before it the numbers that `msgfmt -c` has tried have values below
`nplurals`. It holds for any translation and for whatever the formula yields
(`Eval`: an unsigned number or SIGFPE); that strings start one after the other is
proved by a least counterexample. What `plural_eval` yields is a recursion over the
formula and stays with TLC.

*HashTable* (`HashTableProofs`). `HashInvariant`: every entry is on the probing
path of its key, with no free entry before it; no key has two entries; and in the
middle of an enlargement the old and the new table together have each entry once.
The path of an entry is a set of indices closed under the second hash function but
for its end; a lookup on it stays on it, without an induction over the steps.
`HashImplementsDictionary` is the refinement of `Dictionary`, for any keys and any
hash function. `HashOrderInvariant` adds that one entry at least is free, that the
indices probed are the first ones of the probe sequence, and that the links go
through all the entries in a circle, each once; from it `HashIterationComplete` and
`HashProbesAdvance`. The latter needs that a probe sequence has no repetition: the
second hash value is less than the size, the size is a prime (which is proved of
`next_prime`, although its loop tries some divisors only), and a prime that divides a
product of two positive numbers divides one of them, by a least counterexample. What is
assumed is that there are primes where `next_prime` looks for them (`SizeAssumption`),
between a number and twice this number: Bertrand's postulate.

*MoFile* (`HashTableProofs`). `MessagesFound`: what msgfmt has written, libintl has
completed and `_nl_find_msg` searches fits together. The invariant (`MoInv`) is built
as that of `HashTable`: each string entered so far is on a path of its own, whose
entries are filled (`MoTable`), whether the writer or the loader has put it there; the
current search has come along its path (`MoSearch`), and the string it is for lies ahead
(`MoAhead`). Nothing is removed, so two strings of one key may both be there. Searches
end because the size (`TableSize`) is a prime greater than the number of strings, the
system dependent ones included that this system lacks; for one string or none
`next_prime` returns 1, and it takes the code's minimum of 3. Without a table, the
strings between `bottom` and `top` are all that may match: they are ordered, as the n-th
number of a finite set is less than the next (`NthOfSet`). The assumption about primes
is `MoSizeAssumption`.

*MessageList* (`StructureProofs`). `IndexIsCurrent` and `InsertionsSucceed` need each
other's invariant (`ListInv`): keys that are in the index are found before they are
inserted, so keys differ, so index and list agree. It is lost within a conversion
that changes keys, and restored at its end. The hypothesis `LiveHeaders` of
`InsertionsSucceed`, that msginit reads no obsolete header entry, excludes exactly
what `MessageList_msginit` shows.

*Msgmerge* (`StructureProofs`). `SearchesSound`: what the threads of the parallel search
find does not depend on the schedule. The invariant (`MergeInv`) says which index a
thread has come across: `curr_findex` is void or that of the definitions of this pass,
`comp_findex`, which stays from pass to pass, is void or that of the compendiums, and a
thread at a search has found it set. A thread between its two searches has the
result of the first (`ThreadInv`); outside of the loop no thread is at work, so that
`definitions_set_current_list` takes no index from under a search. `InputsAssumption` says
what the reader makes of a file: catalogs and compendiums are finite sequences of messages,
a catalog has a domain, its domains have different names, and no message of a list has the
msgid of another one, which `default_add_message` refuses.

`TranslationsKept`: `NothingLost`, for any files and options. A definition is either merged,
and then in the result, or not, and then it must be one that the last loop keeps. The
invariant (`KeepInv`) therefore ties three things together: every translated definition in
`used` has its text in the result (`UsedInv`); so has every definition of the domains that
the last loop has visited (`ObsoleteInv`); and an iteration of the search that was taken has
the result that it would have alone, or a thread is still in it (`PassInv`), so that no
iteration is without a result when `MergePass` reads them. The rest is what no step may do:
the merge of a message keeps the text of the definition (`SameText`: its place, and the first
of its plural forms), the postprocessing of plural forms does too, and so do the appending of
messages to the lists and the sorting to the end of the obsolete ones in `Printed`. These are loops and filters over sequences; they are
written as functions and the filters of the standard module, and the lemmas say by
a least counterexample what is in them.

`ResultChecked`: `ResultPassesCheck`, for any number of domains, passes and compendiums. The
invariant (`CheckInv`) is that what is read has every message once, and each list of the result
has every printable message once and is accepted by `msgfmt -c` if def.po and the reference are as they should be
(`SoundInv`). The first half is the hard one: the last loop appends definitions to lists
that the passes have filled, so one that is not `used` must have a msgid that is not there
yet (`TakenInv`: a message of the result takes its definition, if that is
translated); and a pass must find its list empty (`AheadInv`), as it is: the passes have
different domains. `WrittenOnce` states that half without any hypothesis: no file that
msgmerge writes has a msgid twice, which its own reader would refuse. The second half
follows a message through `message_merge`: fuzzy, or with the plural forms the
header entry of the result declares, and with correct format strings, those that were not checked
before included.

The hypothesis of `ResultChecked` (`Suitable`) is about what `msgfmt -c` never sees. The
reference is a template (`IsTemplate`). And a definition that is obsolete, or stands in a
compendium, is as if it had been checked (`Reliable`): `msgfmt -c` passes over the former, and
does not get the latter with def.po. For the obsolete ones the hypothesis excludes
what [Disagreements](#disagreements-found) says of them. Definitions of def.po that are not obsolete need no
hypothesis but that def.po passes the check. All inputs of `Structures` satisfy it, with
the obsolete, compendium, fuzzy and untranslated definitions among them.

*Catenate* (`StructureProofs`). `EncodingUnified`: the result is in one encoding. The
encoding is chosen from the lists of which something is left, so the invariant (`CatInv`)
must say, phase by phase, that the messages of the result come from such lists. A message
that is counted has a definition, and a good one if the count is positive (`CountInv`); while
definitions are removed, one of each selected message is kept or still to come, as
only the weak ones go where there is a good one, and with --use-first the flag stays until
one is kept (`RemoveInv`); so when the encoding is chosen, each message of the result has a
definition left (`HeldInv`). From then on every text of the lists converted so far, and what
is filled in from them, is in the encoding chosen or looks the same in it; a list
that is not converted was in it already, or consists of such texts. The hypothesis
`NamesFit` is about labels, which are not converted: the name of a project is in characters
that mean the same in all encodings, or in ASCII in encodings compatible with it. It
excludes what [Disagreements](#disagreements-found) says of project names, and holds for
the inputs of `Structures`. `CatAssumption` says what the reader makes of a file: texts in
its charset, and the charset named by a header entry that is not obsolete only.

*Filter* (`ProcessProofs`). `OutputArrives`: each result is the whole output. The
invariant (`BytesInv`) is that the bytes read and those in the pipe are the bytes
produced, and that the buffer has room for two bytes, so that growing by
half makes it larger, or the output has at most one. That is what the hypothesis
`Answerable` is for; it excludes exactly what `Filter_empty` shows.

*TermOstream* (`ProcessProofs`). `ShownAsRequested` and `TerminalRestored` are about what
`output_buffer` has still to write, and so is the invariant (`TermInv`): from the
terminal as it is, through signals blocked and handlers set, what is pending leads
step by step back to the default state (`Leads`); each of the steps is `Good`, that is,
a character comes when the terminal shows what was asked for it, and while the terminal
is not in the default state, the signals are blocked and the exit handler knows
the terminal. The lemmas show this of a change of attributes (`ChangeLeads`), of a line
of any length (`BlocksLead`, by a least counterexample), and of what protects it
(`ProtectLeads`). `TermInv` quantifies over whole traces, which TLC cannot enumerate; what
follows from it, the two properties, is what the run checks.
`StylesAssumption`: a style sets every attribute. `TerminalAssumption`: the sequence
orig_pair clears no more than the colors. The code relies on this: `out_attr_change`
takes note of what the other sequences that turn off an attribute clear besides, but not
of what orig_pair does.

The inductive invariants, `Counts`, `UniqueEncodings` and `AnswerEncoded` are
proved and in no run.

Model-checked only:

* the liveness properties `CallsReturn`, `WriterEnters`, `LookupsReturn`,
  `FilterEnds`: liveness under fairness is beyond the prover;
* the properties of the modules for Lisp, which have RECURSIVE operators, which the
  prover cannot use; so has `PluralEval`;
* `UpdateSettles` of `Msgmerge`, which compares two runs: the second must make of the result
  what the first made of def.po, message by message and in the same order, so its proof
  would need the whole of the result and not only what is in it;
* `MergeComplete` of `Catenate`, which sums up definitions over all the files, with a fold.

## Disagreements found

With a run that shows it:

| Run | Where | What |
|---|---|---|
| `Dcigettext_answer` | `dcigettext.c:841` | An outdated entry is overwritten with the lock held for reading, counter first: another lookup may return the translation of former settings, though the counter says it is current. |
| `Dcigettext_torn` | `dcigettext.c:841` | "Catalog where the string was found" (`dcigettext.c:264`): with LANGUAGE=fr:de, one thread finds the French message, a second one, for which its conversion fails, the German one; both overwrite the same outdated entry, and it ends with the current counter, the catalog of the one and the string of the other. `plural_lookup` then takes the formula of one language for the forms of the other. |
| `FindMsg_uselocale` | `dcigettext.c:1045` | With locales of different charsets, one thread moves the table of conversions while another has a pointer into it. |
| `Log_reuse` | `log.c:92` | After a log file could not be opened, its name is saved but no file is open; the next call with that name writes to the null pointer. |
| `MessageList_msginit` | `msginit.c:1607` | msginit passes over a header entry that is obsolete and prepends another one to a list whose index has that key: the program aborts. |
| `Filter_empty` | `msgfilter.c:690` | For an empty string the buffer has one byte, and half of it is nothing: the buffer never grows, a read of 0 bytes is taken for the end, and the answer is cut after one byte. |
| `Lisp_loop` | `format-lisp.c:2126` | For an iteration over endless constraints, the loop segment should be appended to the initial segment; what is appended are elements of the initial segment, some of which may not exist: with `~{~*~}` the parser reads memory that nobody wrote. |

Met while modelling, and left out of the checked instances or described by what
the models do (no run claims the opposite):

* *The library.* A name that `textdomain` may have freed is logged after the
  unlock (`dcigettext.c:879`). In the installed build a thread's locale selects
  the entry of the cache, but the global locale the language
  (`dcigettext.c:1568`). A locale name such as de_DE.UTF-8 is looked up by its parts the first time
  only; later the list has an entry for the whole name, made without the
  normalized codeset, and the catalogs of de_DE.utf8 are no longer found
  (`finddomain.c:93`). The value of an alias is copied after the lock that
  protects the pool is released (`finddomain.c:130`, `localealias.c:343`). A
  formula that `msgfmt -c` has tried for the numbers up to 1000 may still divide
  by zero for a larger one. The comment at `l10nflist.c:311` gives the order in
  which parts are dropped the wrong way round; the code follows the one at
  `finddomain.c:79`, and `AnswerComplete` checks that one. The list is searched
  for a locale name before the name is known to be an alias (`finddomain.c:93`),
  so an alias whose name is also a part of another locale name, such as de if
  de_DE has been looked up, is expanded or not depending on what was looked up before.
* *Locks.* On old Solaris a once object sets `inited` before the initialization
  function is called (`lock.c:607`), so that a thread that comes later returns
  before it has finished, against the comment at `lock.c:600`; `OnceSound` demands
  it of Win32 only. The Win32 `rdlock` does not look at waiting
  writers, so readers can starve a writer, against the comment at `lock.c:917`.
  `CreateEvent` reports failure by NULL, the code tests for
  INVALID_HANDLE_VALUE (`lock.c:735`).
* *msgmerge.* An obsolete message of the reference that def.po lacks comes to
  life (`msgmerge.c:1516`), against the comment at `msgmerge.c:1313`. An
  untranslated plural of def.po hides the translation in a compendium
  (`message.c:688`): the inputs leave such files out (`Hides`). "msgmerge must not transform a
  PO file which passes "msgfmt -c" into a PO file which doesn't" (`msgmerge.c:1268`), but
  `msgfmt -c` does not look at obsolete messages (`msgl-check.c:309`, `msgl-check.c:887`), and
  an obsolete definition whose message comes back in the reference makes a live message, as
  fuzzy as it was (`msgmerge.c:1248`), that is, not at all; if it has too many plural forms,
  the result does not pass. With `Inputs <- ObsoleteInputs`, `ResultPassesCheck` is
  violated; the inputs of `Structures` have no such definitions.
* *msgcat and its kin.* The label of a file, with the project name from its header
  entry, is made before the conversion and put in afterwards (`msgl-cat.c:239`): if
  the name is not ASCII, the output has text in two encodings. With
  `CatInputs <- ProjectInputs`, `OneEncoding` is violated; the inputs of
  `Structures` have names in ASCII where encodings differ. "File positions from all PO files will be cumulated"
  (`msgcat.texi:17`), but those of definitions that are weak, or with --use-first
  not the first, are dropped. --more-than counts only the good definitions if
  there is one. With --use-first it is the first good definition that is taken, not
  the first. A message of msgcomm is never obsolete when there are several
  definitions of it. A message in use becomes
  obsolete when the only good translation is an obsolete one. The msgid_plural of
  a message can be that of a definition that was removed. A header entry without
  "charset=" gets none on conversion.
* *Lisp format strings.* Without equality, `format_check` accepts a translation
  whose constraints are narrower than those of the msgid, `format.h:89` says that
  it may omit arguments. `rotate_loop` computes `newcount` and does not store it
  (`format-lisp.c:675`), so that the last element of a loop is lost and the next
  verification fails. `nocheck_params` does not test that the position is known;
  `~#*~V!` aborts. A loop is reduced to a loop of two elements only: the search
  for its period increments `n` instead of `m` (`format-lisp.c:451`), and may run
  through all numbers. The final copy of `make_repeated_list` takes a number of
  arguments for one of elements. `make_intersected_list` reads an element it has
  just freed. REAL and (OR INTEGER NULL), or (OR CHARACTER NULL) and
  (OR INTEGER NULL), are taken for contradictory. The parameters of `~^` and of
  `~{` have no effect. All of these are in the model; `ConstraintsExact` is about
  strings for which the parser comes to an end, and the instances leave out the
  last two.
* *Others.* A filter that exits without reading may make msgfilter fail or not,
  depending on time. `memcmp (term, "rxvt", 7)` compares more than four characters,
  and rxvt-16color is not recognized (`term-ostream.oo.c:1881`). The stream does
  not free its buffer of attributes. libgettextpo changes the key of a message
  without telling the list's index (`gettext-po.c:572`), which matters for lists it has read.

## What is not modelled

`PROJECT.json` has the list, with reasons. In short:

* *Vendored code:* libxml, libcroco, glib, regex, and the gnulib modules around
  them. They are most of the lines of the repository and none of its logic.
* *Format string parsers of the other languages, extractors of xgettext, writers of
  other formats:* one self-contained scanner or serializer for each language, with
  no state beyond its position. Their correctness is a matter of each language's
  lexical rules, of which a model would be a second copy. The parser for Lisp is
  the exception, because it computes with constraints; the one for Scheme is a
  variant of it.
* *The lexer and grammar of PO files,* and the layout of MO files: character by
  character and byte by byte work. What the reader does with a message once
  parsed is in `MessageList`, what is done with the strings of an MO file in `MoFile`.
* *`printf`, relocation, tables of locale names, language preferences:* pure
  functions and platform tables.
* *The run times for C++, Java and C#, the Emacs mode, shell scripts.*
* *Pth and Solaris wrappers, destruction of locks, the emulated recursive lock:*
  thin, or used through their contract.

## Plan

Done: the modules above.

What could follow: the Scheme variant of the Lisp parser; the iterators of libgettextpo on lists that were read; the
selections of msgattrib and msggrep; the lexer's pushback; the HTML stream with its
CSS classes. For the proofs: `MergeComplete` and `UpdateSettles`.
