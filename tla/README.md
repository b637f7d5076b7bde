# A TLA+ model of HDC

HDC (Hierarchical Data Containers) keeps trees of typed arrays in a key-value
store: a C++ class `HDC` with bindings for C, Fortran, Python, Java and Matlab,
storage plugins (an in-process map, MDBM, Redis) and serializers (JSON, HDF5, S3,
flatbuffers, UDA).  This directory holds TLA+ modules that model the library,
configurations that check them with TLC, and proofs that TLAPS checks.

Paths below are relative to the repository; `hdc.cpp` is `src/hdc.cpp`,
`hdc.hpp` is `include/hdc.hpp`.

## The system

| Component | Code | State | Operations |
|---|---|---|---|
| Tree of nodes | `hdc.cpp`, `hdc.hpp` | none of its own: a handle is a uuid and a pointer to a storage; the tree is in the buffers | construct, `exists`, `get`, `add_child`, `get_or_create`, `insert`, `append`, `set_child`, `delete_child`, `clean`, `operator=`, `copy`, `set_type`, setters |
| Node buffer | `hdc.cpp`, `hdc_types.h` | header (sizes, type, flags, shape) followed by data or by a heap with the children container | `alloc`, `grow`, `buffer_grow`, `set_data*`, `set_external*`, `set_string` |
| Children container | `hdc_map.h` | records (key, address) under two views, a hash of the keys and a random access sequence | used by the tree only |
| Storage | `storage_interface.hpp`, `hdc_storage.h` | uuid to buffer | `set`, `get`, `get_size`, `has`, `remove`, `reserve`, `lock`, `unlock`, `cleanup` |
| `umap` | `umap_plugin.hpp` | a map in the process | storage interface; no lock |
| `mdbm` | `mdbm_plugin.hpp` | a file mapped by every process that opens it | storage interface; one lock for the file, around each store and each change in place by `set_data` |
| `redis` | `redis_plugin.hpp` | a server shared by clients; a copy per client of each node as it was read last | storage interface; `set` is DEL then SET, no lock |
| Lifecycle | `hdc.cpp`, `hdc_global.hpp` | the list of stores, the selected one, the generator of uuids | `init`, `destroy`, the search for plugins |
| Serializers | `src/serialization/` | none, but for the recursion stack of the HDF5 reader | `serialize`, `deserialize` |
| Utilities | `hdc_utils.cpp` | none | `split`, strides, transposition, types |
| C API, UDA, bindings | `hdc_c.cpp`, `hdc_uda.cpp`, `python/`, `fortran/`, `java/`, `matlab/` | handles | one call of the class per function |

How they interact: every operation of the class fetches the buffer of its node
from the storage, changes it in place or builds another one, and, when the
storage is not memory mapped or the buffer was replaced, writes it back.  The
children of a node are uuids inside the buffer: every link of the tree is a name
that is looked up again at each use.  Recursive operations call the same
operation on the child's handle.  There are no callbacks and no threads in the
library; concurrency comes from several processes on one MDBM file or Redis
server.

What is hard here:

- **links by name**: a record may name a node that was removed, two records may
  name one node, a node may be below itself; nothing counts references;
- **operations that stop half way**: `add_child` works level by level and any
  level may throw, with what the levels before it did left in place;
- **two copies of one fact**: `shape[0]` and the size of the container, the hash
  order and the index order of the children, keys of slices and their positions,
  `buffer_size` and the size of the entry;
- **buffers that move**: growth removes the entry of a node and sets another one
  later, pointers into the old one are around;
- **several clients** that read, modify and write whole buffers without a lock.

## Modules

| Module | What it is |
|---|---|
| `HDCTree` | the tree in one storage and the calls that change it, made by one thread |
| `MCHDCTree` | paths for the runs of `HDCTree` |
| `HDCTree_proofs` | the inductive invariant of `HDCTree` and the theorems that follow; where paths lead after `add_child` and `copy`, for any client; that every record names a node that is there, that the nodes are a tree, and what `delete_child` erases, for a client that uses keys |
| `SequenceLemmas` | what `InsertAt` and `RemoveAt` do with the elements of a sequence, prefixes and parts of paths, and induction and recursion up to a bound, for the proofs |
| `NodeValue` | what a node promises to those who store data in it: a register |
| `HDCNodeData` | the header, the bytes and the entry of one node, and the calls that set them; shown to implement `NodeValue` |
| `MCHDCNodeData` | types, shapes and sizes for the runs of `HDCNodeData` |
| `HDCNodeData_proofs` | that it does, and what holds of the header and the entry, for all types, shapes and sizes |
| `NodeContainer` | what the children of a node promise: a list that changes in one place and one step |
| `HDCNodeBuffer` | the children of one node in a buffer of limited size that grows, as the storage sees it step by step; shown to implement `NodeContainer` |
| `MCHDCNodeBuffer` | lengths of keys and symmetry for the runs of `HDCNodeBuffer` |
| `HDCNodeBuffer_proofs` | the inductive invariant of `HDCNodeBuffer`, the refinement, and that the records of a STRUCT name nodes that are there, for all sizes and keys |
| `HDCClients` | several processes on the nodes of one MDBM file or Redis server |
| `MCHDCClients` | the nodes and values for the run of `HDCClients` |
| `HDCClients_proofs` | what holds for any number of processes and nodes |
| `HDCGlobal` | `init`, `destroy`, the end of processes, files and servers that outlive them, uuids, and strings that carry a node to another process |
| `MCHDCGlobal` | the processes for the runs of `HDCGlobal` |
| `HDCGlobal_proofs` | what holds of the library for any number of processes, files and servers |
| `HDCSerializers` | what a tree is after it was written to a file or a bucket and read back |
| `MCHDCSerializers` | the trees for the run of `HDCSerializers` |
| `HDCSerializers_lemmas` | what the operators of `HDCSerializers` do with a tree of any depth and arrays of any extents: places of elements, documents, lists, `add_child` and `insert` |
| `HDCSerializers_proofs` | the inductive invariant of `HDCSerializers`, and that trees come back from files and buckets, for all trees |

The modules are views of one system that share what is at their borders.
`HDCTree` takes a call on one node as a step; `HDCNodeBuffer` shows for the
children, and `HDCNodeData` for the data, that this is how the call looks from
outside, by refinement of a list and of a register.  `HDCClients` puts the two
kinds of node side by side and lets processes interleave.  `HDCGlobal` says which
storage a handle leads to.  `HDCSerializers` takes whole trees as values.

### HDCTree

State: `store` (uuid to node) and `live` (the uuids that have an entry) are the
storage; `next` numbers the uuids as they are drawn; `call` is the recursive call
in progress.  A node is a record of its type, `len` (`header->shape[0]`) and
`kids`, its container in the order of the `by_index` view.  The data types are
one type, `DATA`, because no operation of the tree tells them apart; buffers
have no size here, and memory that is freed too early is a matter of `HDCNodeBuffer`.

One action per operation.  Calls that do their work on one node, or that throw
before they change anything, are one step (`New`, `SetArray`, `SetScalar`,
`SetType`, `Insert`, `SetChild`, `Clean`, `Assign`, `CopyBuffer`).  `SetType` is for EMPTY
nodes: that is a rule for the client, which every call in the repository keeps;
`set_type()` itself does not look (hdc.cpp:938-964).  The recursive
ones take a step per level: `AddChild` or `GetOrCreate` and then `AddLevel` until
the path is used up or a level throws (`AddThrow`); `DeleteChild` and then `Prune`
on the way back (`PruneThrow` when an entry is gone); `CopyTree` and then
`CopyChildren` per node.  So the states in the middle, and those an exception
leaves, are states of the model.

Where the code's choice depends on the hash of a key it is a choice of the model:
which of two records of equal key `find()` returns (`Erasable`), and the order in
which `copy()` takes the children (`CopyChildren`).  `copy()` writes the entry of
a node after those of its children; as nobody holds the new uuids before it
returns, the model writes parents first.

The client is described by constants: `Calls` are the calls it makes, `Paths` and
`Slots` their arguments, and `Sharing` says whether it attaches nodes that have a
parent already, or below themselves, and copies buffers with their addresses.
Such graphs can be made with the class (`operator=` and `copy(false)` make them
by design), and the properties that hold in them are checked with `Sharing`.

Left out: keys of a path that are written as digits without brackets and would
find the record of a slice; the empty path; `set_child` on a key that does not
exist (`set_child` returns before it gets there).

### HDCNodeData and NodeValue

`HDCTree` has no bytes; `HDCNodeData` has one node and nothing else.  State:
`node` is the buffer as `get_buffer()` returns it, header and bytes; `entry` is
what `get_size()` of the storage returns; `last` is the value that the last
setter was given and whether it was accepted.  The bytes are a record of what was
written there (data, the address of data, the heap of children), of which value,
and of how many bytes of it are there.

The readers are operators.  `As` is what `as()`, `as_scalar()` and
`as_void_ptr()` do: the type and the flags of the header say how to read the
bytes, and a reader that asks for more bytes than were written gets `Garbage`.
`GetData` is `get_data()`, which goes by rank and `data_size` instead.  `Seen` is
the value with its type, shape and flags, as a reader gets them.

One action per setter.  `set_data(shape, data)`, `set_data(vector)` and
`set_external(shape, data)` write into the buffer that is there if `buffer_size`
is equal to what they need (`Overwritten`), and make a new one otherwise
(`Buffer`).  The setters of scalars and strings always make a new one.
`set_data_c`, `set_data(hdc_data_t)` and `set_external(hdc_data_t)` each write
other parts of the header in place; `SetC`, `SetDataObject` and
`SetExternalObject` say which.  `MakeStruct` is `set_type()` of an EMPTY node with
the `alloc()` in it, `Grow` is `grow()` with `buffer_grow()`.  `Alloc` has only the
case in which `alloc()` changes something; the early return is a stuttering step.
`set_data(vector)` on a node with children returns without an exception and
counts as refused.

The storage is two constants.  `Mapped` is `memory_mapped()`: a change in place is
in the entry at once (`umap`, `mdbm`), or has to be written back (`redis`).
`Reserves` says whether `reserve()` changes what `get_size()` returns: it does in
`mdbm` and `redis`; in `umap` it changes the capacity of a vector and the size
stays, and `set()` of a buffer that is the entry does nothing.

| Storage | `Mapped` | `Reserves` |
|---|---|---|
| `umap` | TRUE | FALSE |
| `mdbm` | TRUE | TRUE |
| `redis` | FALSE | TRUE |

`NodeValue` is the abstract specification: a call stores its value, or is refused
because the node has data of the caller or children.  `ImplementsNodeValue` is
`HDCNodeData` seen through `Seen`.

Left out: a LIST (as a STRUCT here), the flag ReadOnly, which no call obeys, a
rank of `HDC_MAX_DIMS` or more, which most setters do not check, sizes that
overflow, and values of type `char`.  A setter that removes the entry of the node
before it sets another is one step here.

### HDCNodeBuffer and NodeContainer

One node with children, in a buffer of limited size.  State: `mapped`
(`memory_mapped()`); `has` and `entry`, what the storage has for the node; `spoiled`,
whether that comes from memory that had been freed; `live`,
the children that have an entry; `call`, the call in progress with the buffer
that it will give to `set()` and the one whose container it works on; `crashed`.

`add_child_single`, `insert`, `delete_child` and `set_child_single` are sequences
of steps as the storage sees them.  `Begin...` fetches the node and makes it a
STRUCT or a LIST if it is EMPTY; `Place` puts the record in; `Grow` is the handler
of `bad_alloc`: `remove()` of the entry, and a larger buffer that the call goes on
with; `Erase` and `Link` are the other changes of the container; `Write` and `Set`
end the call: `shape[0]` is set, and the buffer stored if it has to be, on redis by
DEL and SET.  `Escape` is an exception that leaves the call, `Crash` the death of the process
at any step, and `NewNode` what a client does about a node that is gone.

`UseFreed` is memory that the call has freed and that turns out to be overwritten.  The
larger buffer is a `unique_ptr` local to the handler of `bad_alloc` (hdc.cpp:516, 1122): the next
turn of the loop, `shape[0]` and `set()` work in it when it is gone.  On redis a second `get()`
frees the copy that the first one handed out, and `delete_child()`, `insert()` and
`set_child_single()` keep the address of the first one (`CopyFreed`).  A call that is `freed`
may at each step do as it does with the memory intact, or return or throw having stored
anything, or leaving no entry: the entry is then `spoiled`, no call begins on it, and
the properties say nothing of what it is.  A call that overwrites memory of others, or dies of it, is a
`Crash`.

Two details of the code show in the steps.  `insert()` goes on in the larger buffer
but stores the one it had (`Written`; finding 2).  `set_child_single()` reads
`buffer` before `get_children_ptr()` and `get_segment()` read the node again, so that on redis the
change may be made in a copy that is not the one stored (`Link`).

Whether an allocation fails depends on how the heap is fragmented, which the model
does not have.  `Enough` is a size of free memory with which none fails; below it
an allocation may fail, and above what the record takes (`Fits`) it may succeed.
This has more behaviours than the heap.

Left out: the order of the `by_key` view.  Of several slices with one key
`find()` may return any (`BeginDelete`).  `set_type()` of an EMPTY node whose
entry has more than 4224 bytes gives the handle another uuid.

### HDCClients

Processes that work on the nodes of one storage at the same time: a node is a
buffer with a header and data, which are read and written one after the other.
State: `entry` (what the storage has), `cache` (the copies in the clients of
redis), `lock` (of the MDBM file), `act` (the call of each process, at a step), and
three that only record what happened: `calls`, `may` (what a node may hold by the
calls that were made) and `hurt` (the nodes on which a call was cut off).

Setters in place, setters with a new buffer, `set_string` (which removes the
entry first), `add_child_single` without growth, and the readers are sequences
of the commands that the plugins run: `get()` of mdbm is a pointer into the file
without a lock; `lock()`, the change in place and `unlock()` are those of
`set_data`; `store` is `mdbm_store` under its own lock; in redis `get()` is GET
into the cache, `set()` is DEL and SET.  `Fail` is a command of redis without a
reply, carried out or not.  `Die` is the death of a process at any step.

`MayCall` is the rule for the clients, without which nothing holds: known_problems.md
says that "the whole thing lacks locking".  In MDBM a node that one process changes is not
touched by the others, and a node that all change keeps its size, so that the
pointers that others have stay good.  In redis a container is changed by one
process.  The rule excludes what the code does not protect: two adders on one
container of redis, of which one loses its record; stores of another client that
move the page a pointer leads to.  Within the rule the run shows what the code
does guarantee.

### HDCGlobal

The life of the library in several processes.  A storage is in memory, in a file
or in a server; a place leads to a volume, as a file that is removed lives on for
those who have it open.  State: for each process the list of stores (`stores`),
those that `destroy()` has forgotten (`lost`), `atexit`, how many uuids were drawn
and the handles; for the world the volumes, where the places lead, and the strings
(`saved`); `ways` and `made` record what has been done.

Actions: `init()` with arguments and the one that every constructor makes
(`ImplicitInit`, which registers `destroy` with `atexit`); `destroy()`; the end of a
process, with or without the destructors; `HDC()` and `HDC(string)`, which draws
two uuids and leaves the first node alone; `FromObject`, an `hdc_t` of the C API that a
program kept, also over `destroy()` and `init()`; `serialize("hdc_string")` and
`deserialize`.

`boost::mt19937` is constructed with its default seed, so that every process
draws the same uuids in the same order: `Drawn` is the number of the draw, and this
is finding 3.

Left out: the search for plugins, and that a plugin that is not found is replaced
by `umap` without a word (hdc.cpp:142); the settings that `init()` drops (all but the
name of the file and whether it is persistent); an `hdc_t` with which the program does
something while it leads to no node, which throws, or to the node of another process; a
lock file that is deleted while others use it.

### HDCSerializers

What each format makes of a tree, as operators.  A tree is a function from the paths of
its nodes to the nodes, and a JSON document a function from paths to values, so that
what the code does by recursion over the children is a definition for each path: the
node of a document at path `x` is the part of what `buffer_to_json` or `to_json` makes of
the deepest node of the tree on the way to `x` (`Deepest`).  A key is a natural number,
the name of an item a negative one.  The number in a node is twice its value, so that
odd numbers are fractions.  `Leaves` is what a tree says: the values of its arrays and texts
by their full paths, indexes of lists and of arrays alike.

`ToJson` and `FromJson` are the JSON
serializer with its tables of types, `ToHdf5` and `FromHdf5`, and the ones for
flatbuffers, are theirs; a `Save` that throws leaves a truncated file, but for
flatbuffers, whose file stays what it was.  A bucket of S3 holds a JSON document for each leaf, which `Put` puts and
`GetObject` reads one by one, with another client in between.  `queue` holds the leaves that are
still to put, taken in the order of `write_node` (`PutEarlier`), `listed` the names of objects
still to read, taken in the order of their characters (`Before`).

What comes back is often another tree, and the model says which: whole numbers in
an array of doubles come back as INT32; NaN becomes null and null an EMPTY node; an EMPTY
node becomes an array of one NaN in HDF5; an empty list becomes an empty array of
booleans and then an EMPTY node; ragged lists of numbers lose or gain elements;
integers beyond 32 bits are written to JSON and throw when read; lists of more than
ten items come back from S3 out of order, as the names of objects are sorted as
text; lists in lists come back from S3 as structs.  `Holds` and `Plain` say for
which trees none of this matters.

An external array has its address in the node and its elements elsewhere.  JSON looks at the
flag (`buffer_to_json`).  `write_node` of HDF5 and of flatbuffers does not: it takes what is
behind the header, the address and whatever follows, for the elements (`Bytes`, `Memory`).
Both lose the array without an exception.

`ReadFails` is a LIST or a GET that fails: `read()` throws, and what it has read is lost.

`transpose_buffer` is modelled as what it computes: it reads the array in its
order, and writes it with the indexes and the extents reversed in the other, which
is the same place.  So arrays in Fortran order are read back permuted (`At` of the
result), and the test `HDF5Arrays` does not see it because it compares the memory.

Left out: external arrays in Fortran order, where `transpose_buffer` reads the address for data
and writes beyond a vector of `buffer_size` bytes; `datapath`; the bytes of the formats; HDF5 files written by others, which
may have cycles; the types that behave like one that is there.  S3: what was in the bucket
before is not removed; names that begin like the root of another tree; a body
without a terminating zero; a list of objects in more than one page.

## Runs

| Run | Question | Bounds |
|---|---|---|
| `struct` | Do records always name live nodes, once each; do `add_child`, `delete_child` and `copy` do what they promise to paths, half-done or not? | 5 uuids, and as many for a copy; paths of up to 3 keys over 2 keys: two branches, and a branch of which two levels can be pruned |
| `mixed` | Types, and `shape[0]` = size of the container, over all calls that touch lists | 4 uuids, indexes 0 and 1 (one padding node), a key that is too long |
| `shared` | Which promises survive shared nodes, cycles and removed nodes? | 3 uuids: enough for two parents of one node and for cycles |
| `slice_delete` | (violation) finding 1 | 4 uuids |
| `data_class` | Do the readers see what was stored last, whatever was in the node, and do they agree? On `umap` | see below |
| `data_any` | Does the header say how large the entry is, after any call, and do the setters of the C API store what they are given? On `redis` | see below |
| `container` | Does every call change one record, whatever grows, throws, dies or is overwritten on the way, and who alone may lose the node? On mapped storages and on redis | 3 records, room for 2 in a node |
| `insert` | (violation) finding 2 | 4 records |
| `clients` | Is anything lost, torn or blocked when processes interleave, die and fail? On mdbm and on redis | 2 processes, 3 calls, 3 nodes |
| `lifecycle` | Do handles, objects of the C API and strings lead to their nodes, and are files removed? | 2 processes, 3 storages opened, 2 nodes |
| `uuid` | (violation) finding 3 | the same, without the server |
| `formats` | Do trees come back, what do they turn into, does that end? | 237 trees, 3 of them uploaded; ranks up to 3, one more than the serializers take |

`HDCTree`.  `MaxUuid` bounds how many nodes are ever made; a call that needs one
more is not possible any more and the model may stop there, which is why deadlock is
not checked.  There are no other bounds: trees are as deep and as wide as the nodes
allow.  `StructSpec` gives the copies uuids of their own.

`HDCNodeData`.  Two numeric types, of 4 and of 8 bytes, two contents, and four
shapes that make the interesting coincidences: a scalar of 8 bytes, two elements of
4 bytes, the same two elements with another rank, and an address all take the same
buffer, and 496 elements of 8 bytes are as large as a STRUCT.  The sizes are those
of the code (a header of 128 bytes, 10 dimensions, a default node of 4096).  `Size`
has a buffer that is just large enough for `set_type()` to use it and one for which
`alloc()` does not return early.  The only bound is `MaxData`.

`HDCNodeBuffer`.  Records are some ten times as large as in the code, so that two
fill a node and the third makes it grow.  One key is longer than the 23 characters
that a record keeps in itself, and one so long that `add_child_single` makes room for it
before it tries.  `MaxSize` lets a node grow twice.  `Tight` with a large buffer and
a small one both occur.

`HDCClients`.  A node of the one process, a container of the other and a node that
both set, with values of equal and of different size; three calls in all, so that two
overlap and the third sees what they left.  The model stops when the calls are made.

`HDCGlobal`.  Three storages are enough for a process that destroys one and opens
another and for a second process in between; two nodes for a file that both use.
The model stops when they are used up.

`HDCSerializers`.  Integers have 3 in place of 2^31 - 1 and 5 in place of the largest of
jsoncpp; the serializers have loops for ranks up to 2 in place of 5, and one array has rank 3.  The trees are all pairs of the kinds of item that
the formats tell apart in a list, single nodes (external arrays among them), and structs and lists of lists with the cases that
matter.  `MaxDepth` bounds an EMPTY node that gains a level in each round through HDF5 and
JSON.

The properties, in the words of the code:

- `RecordsResolve`, `TreeShaped`: no dangling record, no second link (for a
  client that attaches detached nodes only);
- `AddKeepsPaths`, `AddResolves`: `add_child` never moves an existing path, even
  if it throws, and ends with the path leading to the node attached or to the one
  that was there;
- `DeleteErasesOnlyTheDeleted`, `PruneExact`: what a deletion takes from
  containers is what it takes from the storage; pruning removes empty nodes,
  all of them on the path and no others;
- `CopyFaithful`: the same paths of keys, the same types, no node in common; it does not
  compare the order of the items of a list, which `copy` does not keep;
- `HeaderMatchesChildren`: `insert` and `append` compute positions from
  `shape[0]` and use them unchecked on the container;
- `StructKeysUnique`: the hash view accepts equal keys, the code must not insert
  them;
- `ImplementsNodeValue`: what is seen in a node is the last value stored, through
  all coincidences of size between what is there and what is written; a setter
  that is refused changes nothing;
- `ReadersAgree`: `as()` and `get_data()` find the same data, though they look at
  different fields of the header (but for a scalar that was grown);
- `SameKindSeen`: the setters of the C API, which leave most of the header alone,
  store what they are given in a node that holds a value of the same kind;
- `EntryIsBuffer`: `operator=`, `copy` and `get_children` copy `buffer_size` bytes
  from the entry;
- `GrowsOnce`: the loops that grow a buffer never use up their turns, whose test for
  the last one (hdc.cpp:526) cannot be reached;
- `MissingOnlyInRewrite` (`HDCNodeBuffer`): no call that returned or threw leaves the
  node missing, though `remove()` comes long before `set()`, unless freed memory was overwritten;
- `HeaderFollowsContainer`: on redis `shape[0]` is right at every step and after every
  crash; on a mapped storage it is behind after a crash in between, and the next append
  then goes past the end;
- `RecordsName`: a record names a child that is there;
- `AddStored`: when `add_child_single` returns the record is in the storage; only a
  call that grew the buffer may have stored what it found in freed memory instead;
- `ImplementsContainer`: every step of a call changes the list of children in one
  place or not at all, and a crash leaves it before or after, or takes the node; a call that
  finds its freed memory overwritten takes the node too;
- `EntriesWhole`, `ReadsRecent`: nobody but the holder of the lock leaves header and
  data apart, and a reader finds what was stored when it began or since;
- `HoldsLastStored`: no update is lost under the rule for the clients;
- `MissingOnlyInRewrite` (`HDCClients`): the gap between DEL and SET, and that of
  `set_string`, are the only times at which a node is not there;
- `CallsEnd`: every call ends, whoever died with the lock;
- `HandlesResolve`, `ObjectsLead`, `StringsResolve`, `FilesRemoved`: who finds which
  node, and which files stay, through init, destroy, exits and kills;
- `KeepsLeaves`, `KeepsBytes`: what a format can hold comes back; for HDF5 and flatbuffers this
  is a tree without external arrays (`Holds`), and every array that lies in its node (`Arrays`);
- `Settles`: a format changes a tree the first two times at most;
- `ReadsBucket`: an object that is read disturbs no value that was read before.

**Fairness.**  Only `HDCClients` assumes it: `WF_vars(Proceed(p))`, a process that is
in a call goes on with it.  Weak fairness is enough because the lock stays free until
somebody takes it, and the calls that can take it from under a waiting one are
finite.  It is what the scheduler of the operating system gives; a process that dies
is excused, and its lock can be taken over (an assumption about MDBM, whose locks
are robust).  In the other modules nothing has to happen eventually: the
calls of one thread end.

## Findings

1. **Deleting a slice may erase another slice's record** (`slice_delete`).
   `delete_child` with an index removes the node of the record at the index but
   erases `find(record.key)` (hdc.cpp:603-606).  The key of a slice is the index
   it was inserted at, so that after append, append, delete `[0]`, append two
   records have the key "1".  Deleting one of them can leave a record whose node
   is gone, while `exists` says true for it (hdc.hpp:1022).
2. **`insert()` into a list that has to grow loses the record** (`insert`).  The handler
   of `bad_alloc` moves `header`, `segment` and `children` to the larger buffer
   and leaves `buffer` where it was, and that is what is stored (hdc.cpp:1136).
   hdc.hpp:1030: "Inserts node to i-th slice of current node."
3. **Two processes draw the same uuids** (`uuid`).  The generator has the default seed
   (hdc_global.hpp:22), so that the first nodes a process makes in a persistent
   file are stored over those of the process before.  mdbm_plugin.hpp:40: "Storage has been
   set persistent. The data are stored in file".

The models contain more of the kind, which no run is spent on:

- a call that grows a node goes on in freed memory: the larger buffer is gone at the
  end of the handler that made it (hdc.cpp:516-525, 1122-1128), and the call then puts the record
  in there and stores it.  If the memory is used for something else meanwhile,
  `add_child_single` returns with another list, or none, in the storage (`UseFreed`).
  known_problems.md:5 and 7 know the symptoms and advise a buffer allocated beforehand;
- external arrays are not saved by HDF5 and flatbuffers, which write the address and the memory
  behind it (hdc_hdf5_serializer.cpp:459, hdc_flatbuffers_serializer.cpp:208) and throw
  nothing; hdc.hpp:1320 promises "Saves HDC to given URI and datapath", and JSON tests the flag
  (hdc_json_serializer.cpp:14);
- the copy of a list may have another order: `copy()` takes the children in the order of the
  `by_key` view, that of the hashes, and appends the copies (hdc.cpp:1718), so that the test of
  it (test/hdc_test_cpp.cpp:529) depends on the hashes of the keys;
- `delete_child` leaves what is below the deleted node in the storage (hdc.cpp:598;
  hdc.hpp:997: "Deletes HDC subtree.");
- `clean` removes the node itself with its children (hdc.cpp:570), which
  hdc.hpp:335 does not say and its test expects;
- `set_data_c` and `set_external_c` leave the header in place if the size is the same
  (hdc.cpp:1003, 1034): an array of INT32 in the place of a DOUBLE is read as a DOUBLE;
- `set_data(hdc_data_t)` and `set_external(hdc_data_t)` in place keep the rank that was
  in the header, and copy as many dimensions as that (hdc.cpp:1616, 1655); the second
  copies only as many bytes of the address as an element has (hdc.cpp:1673);
- `alloc` does nothing if there is too little, and makes a new EMPTY node under a new
  uuid if there is enough (hdc.cpp:925; hdc.hpp:1045 says the opposite);
- `grow` stores `data_size + extra_size` bytes of a buffer that has the header in front
  (hdc.cpp:1327), so that data is lost if it grows by less than a header; `get_data()` of
  a scalar that was grown copies all of it into a pointer (hdc.cpp:1598);
- arrays in Fortran order, and what S3 makes of lists: see `HDCSerializers`.

## Proofs

`HDCTree_proofs` proves, for every set of keys, every bound on the uuids, every
set of paths and every client (`Sharing` included):

- `Invariance`: `Spec => []TreeInv`;
- `TypeCorrect`, `HeaderCorrect`, `KeysCorrect`: `TypeOK`, `HeaderMatchesChildren`
  and `StructKeysUnique` are invariants.

The assumptions are those of `HDCTree` on its constants (`KeyAssumption`: a key is
not an index; `PathsAssumption`: paths are non-empty; `SlotsAssumption`,
`BoundAssumption`), which TLC evaluates in each run.

The argument.  None of the three is inductive as it stands.  `insert` puts a
record at `index + 1` after filling up to `shape[0]`: that the result is a
sequence of records at all needs `shape[0]` = number of records, so the types
depend on `HeaderMatchesChildren`.  `set_type` empties the container and keeps
`shape[0]`, so EMPTY nodes must have no records.  The copy of a STRUCT has unique
keys only because its type and its records come from the same node, which is
known of the jobs left to do (`CallSound`).  `TreeInv` puts this together as
`SoundNode(Drawn)`: the set of nodes whose header agrees with the container, whose
keys are unique in a STRUCT and whose addresses were drawn.  One lemma per
operator shows that the operator leaves a sound node (`InsertedSound`,
`AddedSingleSound`, `AttachedSound`, `RelinkedSound`, `ErasedSound`,
`CopiedSound`), a few lemmas say what follows when such a node is put into the
storage (`OneNodeStep`, `DrawStep`, `FreshNodeStep`), and there is one lemma per
action.

`SequenceLemmas` holds what these proofs share.  A set of numbers up to a bound that has 0
and with each number the next is the whole range (`BoundedInduction`, from the
well-foundedness of `<` on the naturals): induction over a set, which needs no operator
as a parameter.  With it a recursive function on `0..n` obeys its equation
(`BoundedRecursion`), and a chain of sets of uuids that grows by one step after another
stops within as many steps as there are uuids (`ChainStops`).  The last part is about
paths: concatenation, prefixes, and what is left of a path behind one.

The second part of `HDCTree_proofs` proves, from the same assumptions and for any client, with shared nodes,
cycles and records that lead nowhere:

- `AddKeeps`: `Spec => AddKeepsPaths`, `AddReturns`: `Spec => AddResolves`;
- `CopyCorrect`: `Spec => CopyFaithful`.

The argument: a walk along a path is a function of the steps taken (`Walk`), each a `Hop` over
one record (`WalkSteps`), and it ends once it left the tree (`NullStays`).
`add_child` only extends nodes: what a selector led to, it leads to afterwards
(`Extends`, `AttachedExtends`), although `insert` may put a record in front of others
(`InsertedBehind`).  So paths keep their nodes and these their types (`WalkKept`).  While
`add_child` is on its way, `AddWay` says that the walk along its full path has come to `call.at` with the
selectors it has left, and that what the path led to when the call began, it leads to still,
even if the path comes through one node more than once.  For
`copy`, `CopyWay` says that there is a map from the new nodes to a closed set of nodes of
the source, that agrees with the types, and with the records of the nodes that are
not among the jobs left.  A finished copy so has the paths of the source (`CopiedPaths`) and
reaches new nodes only, and the source old nodes only (`NearWithin`, `NearCloses`).

The third part proves `RecordsCorrect`, `Spec => []RecordsResolve`, from the same
assumptions and `KeyClient`: the client uses paths of keys, never calls `clean()` and links
no node that has a parent.  It may insert into lists, copy, assign and prune, and a call may
throw at any level.  The excluded calls are those that do leave records that lead nowhere: the
run `slice_delete` shows it for an index, `clean()` keeps the records of the parent, and of a
node with two parents one keeps its record.  The argument: `delete_child()` removes the
entry of a node and takes out one record.  That no other record leads to the node needs that no two
records of the tree lead to one node (`Links`), and that the record is the one of the path
needs that a key is in one record of a STRUCT and in none of a LIST (`KeyFindsOne`, from
`SliceKeys`).  A step makes a record lead only to a node that it draws, or to
the node that the client attaches, which had no parent when the call began and has none until
the last level links it (`CallLinks`).

It also proves `DeleteCorrect`, `Spec => DeleteErasesOnlyTheDeleted`, for the same client: a
step that removes an entry and draws no uuid is one of `delete_child()`, which erases the one record
of the key and keeps the others (`ErasedRecord`, `ErasedKeeps`).

`ShapeCorrect`, `Spec => []TreeShaped`, for the same client: one half is `Links`.  For the
other, that no node is below itself, `Acyclic` says of each node that a closed set of nodes
has all its children and not the node (`Above`), and `CallAcyclic` that such a set has the node
that `add_child()` is about to link and not the node that it has come to.  Linking the
node then makes no cycle (`AttachesAcyclic`), and the set is an upper bound of `Reach`.

`PruneCorrect`, `Spec => PruneExact`, for the same client: `PruneWay` says that the frames
of `delete_child()` are the way down to the last node that it has not looked at, that these
nodes are there and differ, and that each node further down the path has children or is gone.
Nodes of one way differ because no node is below itself (`WalkDistinct`); so the erasure
of the last one keeps the way to it and ends the walk there (`ErasedWay`), because no other
record has its key (`ErasedGone`).

`HDCNodeData_proofs` proves, for every set of types, shapes, lengths and sizes and
every kind of storage:

- `TypeCorrect`: `TypeOK` is an invariant, whatever calls are made;
- `EntryCorrect`: `EntryIsBuffer` is an invariant if `Reserves` and `grow` is not
  called;
- `Implementation`: `Spec => ImplementsNodeValue`, for a client that uses the
  setters of the class that take the type from a template (`ClassClient`), and
  `grow` by a header at least.  The section above says why the others are
  excluded.
- `ReadersCorrect`: `Spec => []ReadersAgree`, for the same client;
- `SameKindCorrect`: `Spec => SameKindSeen`, whatever calls are made.

The assumptions: no shape has more dimensions than the header has places for and
no size overflows (`SizesAssumption`, `ShapesAssumption`); the types and markers
are different (`TypesAssumption`).  The argument: a header that is filled from a
value, with the bytes of it behind, shows that value to every reader
(`DescribesSeen`), whether the buffer is new (`BufferHolding`) or was there
(`OverwrittenHolding`).  The second needs to know of the buffer that was there
that `buffer_size` is a header more than `data_size`; that a refusal is one that
`NodeValue` allows needs that an EMPTY node is not external; and that `grow` keeps
the value needs that the bytes were all there.  `HeaderTrue` says these things and
is inductive together with `TypeOK`.  That the readers agree needs of it that an external node
has the size of an address, which `grow` refuses to change, and that no other has
less bytes than its shape needs.  For `SameKindCorrect` it is enough that whatever the calls, an
external node has the size of an address (`ExternalSized`).

`HDCNodeBuffer_proofs` proves, for every size of nodes, headers and records, every
set of keys and lengths and both kinds of storage:

- `Invariance`: `Spec => []BufferInv`;
- `TypeCorrect`, `GrowthBounded`, `MissingCorrect`, `HeaderCorrect`: `TypeOK`,
  `GrowsOnce`, `MissingOnlyInRewrite` and `HeaderFollowsContainer` are invariants;
- `AddCorrect`: `Spec => AddStored`;
- `Implementation`: `Spec => ImplementsContainer`;
- `NamesCorrect`: `Spec => []RecordsName`.

What these say of a call that has freed a buffer that it still works in is what it does if the
memory is intact, and that nothing but that call damages the node if it is not: an entry that is
`spoiled` is excepted in `MissingCorrect`, `HeaderCorrect` and `NamesCorrect`, a call that
grew in `AddCorrect`, and the abstract list of `Implementation` is then lost as a whole.

The assumptions: a header and an empty container fit into a node, and the loop has
more than one turn (`SizesAssumption`); keys have at most 1024 characters
(`KeysAssumption`, which hdc.cpp checks); a node of the default size has room for a
record, so that a buffer that doubled has (`EnoughAssumption`); the marker of a node that is
gone is not a list (`GoneAssumption`).  The argument: a call that has not grown the
buffer works on what the entry was when it began, and one that has grown it has at
least `Enough` free memory and is not `Tight`, because a growth adds at least the
size of the buffer (`RoomSound`), so that it cannot grow again.  `StepSound` says at which
steps which kind of call can be on which kind of storage, `KidsSound` how the
records of the target differ from those of the entry (not yet, or by exactly the change of
the call: `Result`), `EntryThere` that the entry is there unless the call has
removed it.  With these every step either leaves the list in the entry as it is or
changes it by `Result`, which is a step of `NodeContainer`.

For `NamesCorrect` the invariant `NameInv` says that the records of a STRUCT lead to live
nodes in the entry and in the two buffers of the call in progress, but for the record
that `delete_child()` takes out (`Known`); that no two of them have one key or lead to one
node (`Unique`), so that the record that is taken out is the only one that leads
to the node that is gone; and when the buffers are free of it (`Clean`), so that what the call
leaves in the entry is.  It needs `BufferInv` for what a call that has grown the
buffer goes on with.

`HDCClients_proofs` proves, for every set of processes, nodes, values and items, both
kinds of storage, and any number of calls:

- `Invariance`: `Spec => []ClientInv`;
- `TypeCorrect`, `WholeCorrect`, `StoredCorrect`, `MissingCorrect`: `TypeOK`,
  `EntriesWhole`, `HoldsLastStored` and `MissingOnlyInRewrite` are invariants;
- `ReadCorrect`: `Spec => ReadsRecent`.

The assumptions: containers have an owner, items are not values
(`NamesAssumption`), values have sizes (`SizeAssumption`), and the marker of a missing entry is
not a buffer (`NoEntryAssumption`).  The argument: `StaticInv` says that every call in
progress keeps to `MayCall`, that what a setter may leave is in `may` of its node already, that
`may` is within what a reader may find, and that a call that is `alone` is the only
one that changes its node, so that `Return` can narrow `may` to what this call
stored.  `StepSound` says at which steps which call can be on which storage.  `LockSound`
says that the holder of the lock is the process that writes in place, so that header and
data of one entry are written by one process at a time.  `PointerSound`
is about mdbm: the entry is there as long as somebody has a pointer into it; this needs that two
calls meet only on a node that all change, and that there all values have one size
(`CommonSound`), so that all are set in place and nobody removes or replaces the entry.
`CopySound` is about redis: the copy a call works on is whole and made of what the node
held since the call began.  `FoundSound` is what a reader has read so far.  What a
call leaves when it dies or fails is covered by `hurt`.

`HDCGlobal_proofs` proves, for every set of processes, files and servers and any
number of storages and nodes:

- `Invariance`: `Spec => []GlobalInv`;
- `TypeCorrect`, `HandlesCorrect`, `ObjectsCorrect`, `StringsCorrect`, `FilesCorrect`:
  `TypeOK`, `HandlesResolve`, `ObjectsLead`, `StringsResolve` and `FilesRemoved` are invariants.

The assumptions: files, servers and the memory of a process are different places
(`PlaceAssumption`), and the bounds are natural numbers (`BoundAssumption`).  The
argument: `StoreSound` says that every open storage has left its mark on its place and that
the place leads to its volume unless somebody dropped it; `SameSound` that storages with one volume
are at one place, and that the memory of a process is its own; `OrderSound` that only
the first storage of a process can be one it did not ask for, and that `destroy()` is registered
then, so that an exit leaves nothing behind but what somebody opened himself.  For the nodes
`HandleSound` and `StringSound` say that the uuid of a handle or a string has been drawn by
the maker of the node, and `MadeSound` that a process never draws a uuid twice and
that an entry has the uuid of its node.  So a new node overwrites nodes of other processes
only, and where that can happen the place is marked as shared.

`HDCSerializers_proofs`, with `HDCSerializers_lemmas`, proves for every set of trees, of any
depth and with arrays of any extents, and for every limit on integers and ranks:

- `TypeCorrect`: `Spec => []TypeOK`: whatever is written, read, put and got, and whichever call
  throws, the trees that result are trees of the library;
- `BytesCorrect`: `Spec => KeepsBytes`, for the arrays that lie in their nodes;
- `SettlesCorrect`: `Spec => []Settles`;
- `LeavesCorrect`: `Spec => KeepsLeaves`, for HDF5 and flatbuffers of trees without external
  arrays;
- `ReadsCorrect`: `Spec => ReadsBucket`.

The assumptions: the limit on integers is not above that of jsoncpp and serializers take
arrays of one dimension at least, and what lies behind an address is a value that an
element of any type can have (`SerializersAssumption`); the trees that a program
writes are such that it can make them with the library, of a depth up to `MaxDepth`, which can be any
number (`TreesAssumption`).  The argument:

- The elements of an array.  `RowMajor` is a number whose digits are the indexes, with the
  extents as bases, so that indexes and places correspond one to one (`RowMajorRange`,
  `RowMajorInjective`, `RowMajorOnto`, from `DigitUnique` and `DigitExists`), also with both
  reversed.  With that `IndexOf` finds the one index of a place, `BytesCorrect` needs that no
  writer moves bytes or extents, and the leaves of an array are its elements.
- The inductive invariant, `Consistent`: what a file holds is what its writer makes of the tree it
  was written of; each object of the bucket is the document of a leaf; what is listed
  is in the bucket; and all trees are those of the library (`Wellformed`).  For each
  operator that makes a tree a lemma says that the result is one: `ToJsonOK`,
  `FromJsonOK`, `ReadBackOK`, `ListOK`, `InsertOK`, `AddChildOK`, `ReplaceOK`, `PlacedOK`.  The
  document of a leaf does not depend on the state any more, so that another upload
  meanwhile does not matter.
- `SettlesCorrect`.  HDF5 and flatbuffers change each node by itself (`Hdf5Node`,
  `FlatBuffersNode`) and change it no more the second time.  In JSON a list can become
  an array and a node several.  But a tree that was read from JSON once has no more lists that
  would (`ReadTree`), so that from then on each node goes to `JsonAgain`
  of it (`NodeAgain`, `TripAgain`), which is idempotent (`AgainTwice`) and can still make INT32 of
  whole doubles.
- `LeavesCorrect`.  The values of a document are the leaves of the tree it was written of
  (`WrittenLeaves`).  What is read says the same for all nodes but those that are read as an array
  (`ReadSays`).  There, the part of the document is a `Box`: it has a value at each index of
  its extents and nowhere else (`ArrayBox` for an array, `ListBox` for a list of
  lists, for which `Holds` asks that it is rectangular).  Each index is then read at
  its own place (`BoxRead`), and no element throws because `FitsInt` leaves no integer that does
  not fit (`DocFits`, `ElementSame`).
- `ReadsCorrect`.  `Reading` says of each object that is listed and not read yet that it has
  its place in the tree (`Open`): the nodes above are structs, or will be, and if it is an
  item, the list is no longer than its index.  Reading another object keeps that
  (`OpenKept`), since `Plain` names of two objects part at two keys, or are two items of
  one list (`Siblings`), which come in the order of their indexes as long as these have
  one digit (`ItemsInOrder`).  An object that has its place leaves every value where it
  was (`WithObject`: `PutInStruct`, `PutInList`), so that the leaves of the tree are those of before and
  its own (`LeavesJoined`).

Only model-checked: `CallsEnd` of `HDCClients`, as liveness under fairness is beyond the
prover.  Every other property of a passing run has a theorem; where the run has a client that keeps to rules,
the theorem has the same ones.
`InsertStored`, `StoredInFile` and `RecordsResolve` with slices are violated.

## Not modelled

- Text: the parsing of paths (`split`), `to_string`, messages, the bytes of the formats.
  `HDCTree` takes paths as the sequences that `split()` returns.
- The heap inside a buffer (Boost.Interprocess) and the hash order of the `by_key`
  view: choices of the model where the code's behaviour depends on them.
- `operator=(HDC&&)`, comparison, iterators and `get_slices`, which change nothing or are
  a change of handles.
- The search for plugins and their settings.
- The C API, but for its objects (`HDCGlobal`): one call of the class per function.
- The bindings for Fortran, Python, Java and Matlab: wrappers around the C API and the class,
  without tree logic of their own.
- The UDA plugin and serializer: conversion to the trees of an external library.
- Third-party code in the repository (jsoncpp, marray, Pluma, json.h), which with the
  bindings is some 16000 of the 28700 lines of code; `HDCSerializers` models what the
  serializers rely on.
