# A specification of GOD (Go Direction)

GOD simulates an operating system with four programs that talk over HTTP: a
**kernel**, a **CPU**, a **memory** and a **file system** (`README.md` of the
repository).  This directory holds TLA+ modules that model the programs as they
are in `src/`, runs that check the models with TLC, and proofs checked with
TLAPS.

Line numbers below are those of `src/<program>/utils/utils.go` unless a path is
given.

## 1. Inventory

### 1.1 Kernel (`src/kernel`)

*State*: the queues `colaReadyHilo`, `colaExecHilo`, `colaBlockHilo` and
`colaExitHilo` of TCBs; `colaProcesosSinIniciar` (NEW) and
`colaProcesosInicializados` of PCBs with their mutexes; `nextPid` and `nextTid`;
the flag `esperarFinCompactacion`.  A TCB is a value that is copied from queue
to queue, and carries the list of the threads that joined it.

*Operations*: the handlers of the syscalls (`CrearProceso`, `FinalizarProceso`,
`CrearHilo`, `EntrarHilo`, `CancelarHilo`, `FinalizarHilo`, `CrearMutex`,
`BloquearMutex`, `LiberarMutex`, `ManejarIo`, `DumpMemory`), of a segmentation
fault and of an eviction (`DevolverPidTid`); the scheduler loop (FIFO,
priorities, multilevel queues); the admission of processes with its compaction.

*Hard*: who wakes a blocked thread up (an IO goroutine, the release of a mutex,
the end of a joined thread) and whether that is still there; `exitProcess`, which
ends every thread of a process while it walks queues that shrink; the copies of a
TCB that get old; the goroutines of IO, which move a thread at any later time;
the order of admission.

*Correct when*: each living thread is in one queue, once; the CPU runs the thread
of the exec queue; nobody blocked is forgotten; mutexes are handed over in order
and never stay with a dead thread; the end of a process leaves nothing behind; who
has ended stays ended; who is ready runs.

### 1.2 CPU (`src/cpu`)

*State*: the context of the current thread, `hiloAnt`, the flags `syscallEnviada`
and `flagSegmentationFault`, one slot for an interrupt (`nuevaInterrupcion`).

*Operations*: `RecibirPIDyTID` (dispatch), `InstructionCycle` (fetch, decode,
execute, check for an interrupt), the 18 instructions, `RecieveInterruption`.

*Hard*: an interrupt that arrives after its thread has left; a second interrupt
that overwrites the first; a burst that starts inside another, which shares its
flags and has a context that gets old; addresses on 32 bits; a context saved before
or after the process has ended.

*Correct when*: a burst ends with one syscall, fault or eviction, and its context
is saved before anybody else can use it, so that each script runs as on a machine
of its own; an access never leaves the partition of its thread; whoever runs can
always be evicted, and only after its quantum (which the code does not keep).

### 1.3 Memory (`src/memoria`)

*State*: the sizes (`particiones`) and the occupation (`mapParticiones`) of the
partitions, the partition of each pid (`mapPCBPorParticion`), its base and limit
(`mapPIDxBaseLimit`), the contexts and scripts of threads (`mapPCBPorTCB`), the
bytes of user memory.

*Operations*: create and terminate processes and threads, compaction, get and
save contexts, read and write a word, dump.

*Hard*: four tables that say the same thing in different ways and that division,
joining and compaction must change together; sizes at the boundary; a compaction
that must make enough room, or the kernel asks for ever.

*Correct when*: occupied partitions are those of the processes, one each; sizes add
up to the memory; addresses are those of the partition; no process overwrites
another.

### 1.4 File system (`src/filesystem`)

*State*: the bitmap in memory and in `bitmap.dat`, `bloques.dat`, one metadata
file for each dump.  *Operations*: start-up, and a dump: reserve blocks, write the
metadata, the bitmap, the index block, the data blocks.  *Hard*: a crash between
any two writes; an error after blocks are reserved; block numbers cut to a byte;
equal file names; memory, which announces a byte more than it sends.  *Correct
when*: a dump that was answered with "true" reads back as it was sent, after any
restart; no block belongs to two files; no space is lost but to failures.

### 1.5 The rest

`src/ejecutableIP` edits the addresses in the configurations; the `configs*`
directories and `src/pruebas` are data (algorithms, sizes, scripts).

### 1.6 How they interact

The kernel sends a thread to the CPU by a POST that the CPU answers with a
buffered "ok": the answer leaves when its handler returns, which is when the burst
is over.  A syscall is a POST from the CPU to the kernel that the CPU waits for,
and some handlers dispatch the thread again before they answer.  So the scheduler
loop, the CPU and the handlers are **one chain of nested calls**, and one step is
taken at a time.  Concurrent with the chain are only: the goroutines of IO
(kernel 1102), the timers of the quantum (kernel 880) and the handler that stores
an interrupt (cpu 1107).  Memory and file system have no initiative: their clients
take turns.

One consequence is worth knowing: the scheduler loop is itself a part of the chain,
blocked in the dispatch, so the branch that compares priorities while a thread runs
(kernel 831) is never reached in time, and **only the quantum evicts**.

## 2. Modules

| module | what it is |
|---|---|
| `Kernel` | the kernel, with the CPU as the chain of calls sees it |
| `CicloDeVida` | what the kernel promises of a thread: a life cycle of not created, ready, exec, block and exit |
| `KernelProps` | the properties of `Kernel`, and the mapping of its queues to `CicloDeVida` |
| `KernelProofs` | what holds of `Kernel` whatever scripts do, and the proofs |
| `HilosProofs` | what holds of its threads when scripts keep the rules: the invariant, and the safety properties |
| `CicloProofs` | how each step moves threads: the refinement of `CicloDeVida`, and the action properties |
| `MCKernel` | model values for TLC: the sets of rules and of syscalls |
| `Sistema` | `Kernel` and `Memoria` composed: the admission and the end of processes |
| `SistemaProps`, `MCSistema` | its properties, and model values |
| `SistemaProofs` | theorems about `Sistema` and their proofs |
| `Memoria` | the memory |
| `MemoriaProps`, `MCMemoria` | its properties, and model values |
| `MemoriaProofs` | theorems about `Memoria` and their proofs |
| `Sumas` | facts about the sum of a function over a finite set, for `MemoriaProofs` |
| `Instrucciones` | the instructions of a script, on words that wrap around |
| `Cpu` | the bursts of the CPU, nested as the calls are, and the quantum of the kernel |
| `Maquinas` | what the CPU promises: a machine of its own for each script |
| `CpuProps` | the properties of `Cpu`, and the mapping to `Maquinas` |
| `CpuProofs` | theorems about `Cpu` and their proofs |
| `MCCpu` | scripts and partitions for TLC |
| `FileSystem` | the file system, one write after the other, with stops and errors |
| `Archivos` | what the file system promises: files that are stored or replaced, whole |
| `FileSystemProps` | the properties of `FileSystem`, and the mapping to `Archivos` |
| `FileSystemProofs` | theorems about `FileSystem` and their proofs |
| `MCFileSystem` | the contents of dumps for TLC |

### 2.1 `Kernel` and the code

Variables have the names of the code.  `colaExitHilo` is a set, because nothing
reads its order.  A mutex is `[Nombre, Bloqueado, HiloUsando, colaBloqueados]`, a
TCB `[Pid, Tid, Prioridad, HilosBloqueados]`, both copied as in the code.

The chain of calls is `pc` and `hilo`:

| `pc` | where the chain is | code |
|---|---|---|
| `libre` | in the scheduler loop, nobody dispatched | 800-878 |
| `despacho` | the kernel has sent `hilo` to the CPU | 894, cpu 185 |
| `cpu` | `hilo` runs, its next syscall is to come | cpu 251 |
| `dump` | memory and file system work on a dump | 1112 |
| `lockMutex` | back in a loop of `lockMutex` that goes on | 1288 |
| `exitHilo`, `cancelado` | inside `exitHilo`, with the joined threads still to wake up; back from it in `CancelarHilo` | 710, 649 |
| `exitProcess` | inside `exitProcess` (phases in `salida`) | 394 |
| `detenido`, `caido` | the scheduler stopped (807); `log.Fatalf` (457) | |

`pendientes` are the loops of `lockMutex` that resume when an inner dispatch
returns.  `saliendo` is the `exitHilo` in progress, with the joined threads left
to wake up; `salida` is the `exitProcess` in progress: which loop, which index,
and the array that the loop walks.  The slices of Go are modelled where they
matter: a `range` keeps the array it started with, and `eliminarHiloCola` shifts
the elements of that same array (`Bucle`, `Reflejar`, `Corrido`).

`esperas` are the wake-ups to come: a goroutine of IO takes two steps
(`TerminaIo` takes the thread out of block, `EncolaIo` puts it in ready), and they
interleave with everything.  They work on the copy of the TCB that the goroutine
holds.

An eviction (`DevolverPidTid`) may come at any point of a burst under `CMN`; `Cpu`
says when one does.
Memory is an input here: a process finds room or not (`hay`), a script opens or
not (`abre`), a dump is written or not (`hecho`).

**Rules.**  The kernel breaks in known ways when scripts do certain things.  The constant
`Reglas` names what a run assumes, each as a guard `Regla(name, condition)`.  Runs with
all the rules ask what holds for scripts that keep them; runs without one of them show
what the rule is for:

| rule | scripts ... | without it |
|---|---|---|
| `archivos` | name files that exist | a thread without context stays in exec (614) |
| `crea el principal` | create threads from thread 0 only | the CPU gets thread 0 while another is in exec (604) |
| `no espera con mutex` | do not join while they hold a mutex | they may wait for each other |
| `un mutex` | use one mutex in a process | a lock of the second one is not granted (1326) |
| `lock correcto` | lock a mutex that exists and is not theirs | the thread waits for itself (1312) |
| `salida ordenada` | end a process when the loops of `exitProcess` are safe (`SalidaOrdenada`) | `Kernel_v_exit` |
| `sale el principal` | call PROCESS_EXIT from thread 0 only, and let thread 0 end in no other way | the chain stops (382) |
| `cancela existente` | cancel threads that exist | the mutex of thread 0 is released (732) |
| `cancela sin espera` | do not cancel a thread in IO, or themselves | `Kernel_v_cancel_io` |
| `cancela sin mutex` | do not cancel a thread that waits for a mutex | a dead thread becomes its holder (1346) |
| `busqueda sin IO` | (not about scripts) no IO ends in the middle of a search of block | a wake-up is lost, or a thread woken up twice (990) |

The scripts of `src/pruebas` keep all but the last one and `salida ordenada`, which depend on
time.  They do join threads that may have ended or are blocked (`RECURSOS_MUTEX_PROC` 10-13,
`RECURSOS_RACE_PROC` 8-11): that is allowed, the runs and the theorems have such joins, and
the caller goes on without waiting, as in the code.

`salida ordenada` says that when a process ends none of its other threads is blocked or in IO,
no two of its threads follow each other in ready, and the last thread of ready is not one of
several of them.  Then the loops skip nobody, although `exitHilo` shifts the array that they
walk, and appends copy it; and nobody of the process is left who could wake up in a queue that
has been walked already, as a thread that joined thread 0 would.  A script can end out of that
order: `RECURSOS_MUTEX_PROC` comes to its PROCESS_EXIT with threads still blocked on the mutex,
if they were blocked when it joined them, and `PLANI_PROC` with others in ready.
`Kernel_v_exit` shows what may come of it.

`busqueda sin IO` is about the walks over block without a lock (`getTCB`, 565, and
`desbloquearHilosJoin`, 990), while `quitarBlock` of a goroutine of IO removes a thread from
the same array by shifting it (1055).  If the thread that is removed comes before the one that is
looked for, and the shift comes between the reads of two neighbours, the walk misses the
latter, whose wake-up is lost.  If the latter is the last of the array, the shift leaves it at
two places and the walk meets it twice: the first `quitarBlock` empties its place, the second
one does not find it, and the queue becomes nil.  Both need a thread in IO before a joined one
in block.  `Cruce` has these steps (`DesbloquearCruzado`, `RecorrerCruzado`, `CancelarCruzado`),
for one goroutine in each search, and while nobody is in two queues (`CadaUnoEnUna`).  `isInBlock`
walks backwards or finds the thread shifted towards it, and needs none; the search for thread 0
in `CrearHilo` needs none as long as thread 0 creates; `exitHilo` of a thread looks it up and
removes it in one step as far as the goroutine of that same thread is concerned.

Two more names only bound the states of `Kernel_libre`, and are assumed by no theorem:
`IO aparte` (mutexes are created, or threads do IO and join before anybody has ended, and no thread in IO
is cancelled) and `sin repetidos` (no syscalls go on while a thread is in ready twice: the
copies would multiply for ever).

### 2.2 `Memoria` and the code

Variables have the names of the code; indexes count from 1.  A byte of
`MemoriaUsuario` holds the pid that wrote it last, which is all that the
properties tell apart.  A context is its tid and whether it is as it was created:
that is what decides which keys of the nested map are found.  `pedido` is the
kernel's side of the conversation of `inicializarProceso` (kernel 319): the
process it wants to start, and whether it asks, compacts, or waits for a process to
end (kernel 420).  A division (`subdividirParticion`), the two joins
(`consolidarParticiones`, with their wrong index) and a compaction
(`actualizarPCBxParticionNueva`, with `cambiarBaseYLimite` that changes a copy) are
as in the code.  Reading, and sending a context, change nothing.

Requests are single steps: the clients take turns (1.6), and so the absence of
locks in these handlers is no hazard as long as there is one CPU.

### 2.3 `FileSystem` and the code

`bitmapGlobal` is the bitmap in memory; `bitmapDat`, `bloquesDat` and `metadata`
are the files.  A byte of `bitmap.dat` is the set of its bits that are 1, so that
`ToBytes` and `FromBytes` are what they are in the code, for a number of blocks that
fills whole bytes (`ToBytes` panics for any other).  An empty `bitmap.dat` and none
are loaded alike, and a `bloques.dat` that is there is taken as it is; it is created
with an eighth of its size and grows with the writes, which nobody can tell from the
zeros of the model.

A dump takes the steps of the code, with `pc` between them: `reservarBloques`,
`CrearMetaData` (os.Create empties a file of that name), `EscribirMetaData`,
`actualizarBitmap`, `actualizarBloques` once for the index and once for each block of
data, `Contestar`.  `Error` is the early return with a status 500, which leaves the
blocks reserved; `Caida` is a stop between any two steps, after which `init` starts
from the files.  The bytes of a block number are cut as in `toBytesBloque`
(`ValoresByte` is 256 in the code), and `Tamanio` is one byte more than the data,
as memory sends it.

The kernel waits for the answer to a dump inside the chain of calls (1.6), so there is
one dump at a time.  The name of a file is the pid, the tid and the second; names come
from a small set and may be used again.  `archivos` is no state of the code: it
remembers which dumps were answered with "true", and `fallas` how many stops, errors
and repeated names there were.  Nothing in the repository reads a dump; `Leer` follows
the layout of the files, as a reader would.

`Archivos` is the promise: a dump is stored whole when it is answered, a name that is
used again loses its file only once the new dump has begun to replace it, and a dump
that is abandoned leaves no trace.

### 2.4 `Cpu`, `Instrucciones` and the code

`Instrucciones` says what an instruction does to a context (a PC and registers) on
words of `Palabra` values.  Sums, differences and the translation of an address wrap
around.  The CPU tests the translated address against the limit (648), memory tests it
against both ends again; a word that is read may be any (the bytes are in `Memoria`),
and an instruction that fails in memory changes nothing but the PC.  A thread stands
for the only thread of a process with its own partition.  The syscalls are grouped by
what the kernel does with the thread: it sends it back (`MUTEX_CREATE` stands for all
that do), blocks it until a goroutine is done (`IO`), blocks it until a dump is done,
or ends it.  What each does inside the kernel is in `Kernel`.

`rafagas` is the stack of bursts, innermost last: a syscall after which the kernel sends
the thread back starts a burst inside the one that made it.  A burst has its copy of
the context, as in the code, and a step:

| `paso` | where the burst is | cpu |
|---|---|---|
| `recibe` | dispatched, its context not there yet | 185 |
| `inicio` | about to test for an interruption of its last turn | 252 |
| `ciclo` | about to fetch | 272 |
| `llamada` | inside a syscall, waiting for the kernel | 1063 |
| `control` | an instruction is done: fault, syscall or interruption? | 294-314 |
| `desalojo`, `desalojo inicial` | the context is saved, the kernel hears of the eviction | 357 |

`syscallEnviada` and `flagSegmentationFault` are single variables that all bursts share,
`nuevaInterrupcion` is the single slot.  Each dispatch starts a timer (kernel 882), and
nothing stops it: `temporizadores` holds those that sleep (`duerme`), and their
interruptions on the way to the CPU (`enviada`), in `wg.Wait` (`espera`), woken up by
`wg.Done` but not running yet (`despierta`) and about to be stored (`registra`).  A
goroutine that comes back from `wg.Wait` after the counter was used again panics in the
library ("WaitGroup is reused"); the server recovers, and the request is lost.

The program sets no order between a call and a goroutine that was started before it.
`Supuestos` names what a run assumes of delays:

| assumption | says | why it is likely | without it |
|---|---|---|---|
| `quantum largo` | an interruption is stored before the next timer goes off | a quantum is 25 to 875 milliseconds in `src/kernel/configsKERNEL`, a local call less than one | an interruption of an earlier thread overwrites the one of the thread that runs, which then has the CPU until it leaves it |
| `despierta a tiempo` | a goroutine that was woken up runs before the next dispatch arrives | the dispatch crosses two programs | the interruption is lost in the panic |

Only `SiempreDesalojable` and `RotaLaCpu` need them.  TLC shows each of the two
failures of `SiempreDesalojable` when either name is taken out of `Cpu_quantum`.

`Maquinas` is the promise: each thread runs its script as if it had a processor of its
own, one instruction after the other.  The mapping takes the context of a thread
from the innermost burst while it runs there, and from memory otherwise.

### 2.5 `Sistema` and the code

`Sistema` extends `Kernel` and instantiates `Memoria`; the input `hay` of `Kernel` is
replaced by what memory answers.  `pedido` of `Memoria` is the conversation:

| action | code |
|---|---|
| `consultaEspacioAMemoria` | the first process that waits, or the new one when none does (`esElPrimerProcesoSinIniciar`, kernel 345), asks for room (kernel 309, 464) |
| `Responder` | memory answers, or compacts, after which the kernel asks again (kernel 319-340, 366) |
| `TerminaDeCrear` | PROCESS_CREATE goes on with the answer (kernel 256-343); behind others the new process is not asked for |
| `ProcesoFinalizado` | `exitProcess` tells memory (kernel 414, 436), which takes its partition back |
| `IniciarSinIniciar` | the loop of `exitProcess` over the processes that wait: the first one starts if it has its room, until one has none (kernel 418-434) |
| `SinMemoria`, `Io` | the rest of the kernel; the goroutines of IO, also while the kernel waits for memory |

The kernel waits for each answer inside the chain of calls (1.6), so only the
goroutines of IO move meanwhile.  The size of a process is chosen when it is asked for,
which is the first time that anything depends on it.  `InitSistema` is the start of the
kernel in one step: memory is about to answer for the initial process, and the kernel is
where that answer puts it.  Contexts and the bytes of user memory have no part here, and
whether a script opens (`abre`) stays an input.

## 3. Runs

| run | instance | shows |
|---|---|---|
| `Kernel_hilos` | CMN, 1 process, 3 threads, 1 mutex, evictions, all rules, `FairSpec` | types; `BloqueadoConDespertador`: each blocked thread has exactly one reason, and it is alive; `UnLugarPorHilo`; `NadieTrabado`: the threads never all wait for each other; `MutexConVivos`; `ExitEsDefinitivo`; `SoloElDuenioLibera`; `TraspasoEnOrden`; and progress: `ReadyLlegaAExec`, `IoVuelve`, `MutexLlega` |
| `Kernel_procesos` | CMN, 2 processes of 2 threads, 2 priorities, evictions, all rules | `SinHuerfanos`, `NuncaAborta`: the kernel never asks memory to end a process that is gone; `CpuEjecutaExec`, `OrdenDeReady`, and `Kernel` implements `CicloDeVida` |
| `Kernel_libre` | FIFO, 2 processes of 2 threads, 2 mutexes, or IO and joins and the crossings of `Cruce`; no rules but `archivos`, `crea el principal` and the two bounds | `MutexCoherente`, `PidsEnOrden` hold although scripts lock, cancel and end out of turn |
| `Memoria_fijas` | fixed 5, 2, 8, 3; best fit; 3 processes | `SuParticion`, `LoEscritoQueda`, `LiberaSuEspacio` |
| `Memoria_dinamicas` | 12 bytes; first fit; 5 processes of 2, 5 or 6 | types, `OcupacionCoherente`, `SumaConstante`, `CompactarAlcanza`, `EsperaTermina` |
| `FileSystem_dumps` | 8 blocks of 8 bytes, dumps of 7, 8, 15 and 16 bytes, 3 names, 2 failures | types, `GuardadoQueda`, `ArchivosReservados`, `EspacioExplicado`, and `FileSystem` implements `Archivos` |
| `Cpu_quantum` | 2 threads, words of 4 values, 2 timers, both assumptions, `FairSpec` | types, `RafagaDelExec`, `AccesoPropio`, `SiempreDesalojable`, `Cpu` implements `Maquinas`, and progress: `RotaLaCpu` |
| `Sistema_procesos` | FIFO, 3 processes of one thread, 12 bytes of dynamic partitions, sizes 2, 5 and 8, the rules that matter to one thread, `FairSistema` | `MismosProcesos`: both have the same processes, and memory holds each one that ends; `NadieEsperaConLugar`, and progress: `NuevoLlega` |
| `Kernel_v_exit` | 4 threads, without `salida ordenada` | `SinHuerfanos` fails |
| `Kernel_v_cancel_io` | without `cancela sin espera` | `ExitEsDefinitivo` fails |
| `Memoria_v_subdividir` | dynamic partitions | `LoEscritoQueda` fails |
| `FileSystem_v_indice` | 16 blocks, bytes of 8 values | `GuardadoQueda` fails |

The runs whose names hold `_v_` are expected to fail: the code does not do what it
says it does, and `PROJECT.json` (findings) quotes both.

**Bounds.**  `MaxPid` and `MaxTid` bound what is created.  Three threads are the
fewest with which one holds a mutex, two wait for it in an order, and one of them
is cancelled or evicted; also the fewest for a chain of joins.  `Kernel_v_exit`
needs four: the loop skips every second thread that is ready.  Two processes are
enough for one to end while the other waits or runs.  Two priorities give a tie and an
order.  In memory, 12 bytes and sizes 2, 5 and 6 give divisions with and without
remainder, free partitions on both sides of one that ends, and fragmentation that
only a compaction solves; the fixed partitions are four because the mistake in the
second join shows only with one on each side and one beyond.  `esperas` is not
bounded by hand: it follows from the threads.  `MaxPendientes` bounds the loops of
`lockMutex` that are left to be resumed, one in `Kernel_libre`: without it a script
that locks and unlocks for ever, in a process with two mutexes, nests them for ever.
With one mutex in a process there are none, and the bound does not matter.

In the file system, eight blocks hold two dumps of two blocks of data with their
indexes and leave two free, and three names let all fit and one be used again; data
of 7, 8, 15 and 16 bytes are a byte less than full blocks and exactly full ones, which
the announced byte turns into one block more (and a refusal for the largest, whose
index would not fit).  Two failures are the fewest to lose a dump, restart, and lose
another with the blocks of the first.  In the CPU, the scripts of `MCCpu` make every
kind of call, nest three bursts, wrap an address around and fault; one of them may
never stop.  In the system, sizes 2, 5 and 8 in 12 bytes make two processes wait at once, an exit that
starts one of them or both, divisions, joins and a compaction; threads and mutexes have
their runs in the kernel, so one thread in each process is enough there.
Two timers are the fewest for a stale one beside the one of the dispatch:
a dispatch waits in the model for a free timer, so that longer lists of stale timers
are left out (the safety properties but `SiempreDesalojable` were also checked with
three and no assumption on delays, and are proved for any number).

**Where a run may stop.**  `Kernel_libre` checks no deadlock: scripts without rules
hang the kernel (a thread that waits for itself, PROCESS_EXIT by another thread
than 0).  `Memoria_dinamicas` stops when its five processes have come and gone.
Elsewhere TLC checks that something can always happen until the scheduler stops.

**Fairness** (`FairSpec`).  In the kernel: weak fairness of the steps that no
script chooses (the scheduler loop spins, calls return) and of each goroutine of IO
(its sleep ends).  Strong fairness of leaving the CPU (`DejaCpu`): a script has
finitely many lines between two blocking calls or before its end, or else it is evicted
(`MEM_DINAMICA_PROC` is, under CMN); that evictions come again and again is what
`RotaLaCpu` shows of `Cpu`.  Strong fairness of releasing a mutex, for a script that
locks and never unlocks keeps its waiters for ever in any kernel.  In the CPU: weak
fairness of the chain (calls return), of each step of an interruption (goroutines run)
and of IO; strong fairness of a timer going off, because `quantum largo` may hold it
back for a while and sleeps end.  In memory: requests are answered, and every process
ends.  In the system (`FairSistema`): both, and each script comes to its PROCESS_EXIT in
the end (strong fairness for each pid, because a script only runs while it has the CPU).
That every process ends is an assumption about scripts, on which `EsperaTermina` and
`NuevoLlega` rest, and so is that sizes fit in memory.  Most scripts of `src/pruebas` end, but
`MEM_DINAMICA_PROC` is written to loop for ever (`JNZ AX 0` with 64 in AX): a process that waits
for its memory waits for ever, and the two properties say nothing of it.

## 4. Proofs

**The kernel.**  `KernelProofs` proves, for every algorithm, every set of names,
priorities, syscalls and rules (also none), and every `MaxPid` and `MaxTid`, from
`KernelAssumption` alone:

| theorem | property |
|---|---|
| `InvarianteInductivo` | `[]IInv` |
| `Tipos` | `[]TypeOK` |
| `PidsSiempreEnOrden` | `[]PidsEnOrden` |
| `MutexSiempreCoherente` | `[]MutexCoherente` |
| `TraspasoSiempreEnOrden` | `TraspasoEnOrden` |

`IInv` is `TypeOK /\ PidsEnOrden /\ CadenaOK`.  `TypeOK` is not inductive: a new
thread takes its tid from `nextTid[pid]`, which is a number only if the pid has a
slot there, and that is what `PidsEnOrden` says; the chain returns to
`saliendo.luego` and to the head of `pendientes`, which `CadenaOK` says are there
when `pc` needs them.  The proof has a lemma for each helper (what a queue, a
TCB, an array that shifts, a mutex remains), one for each action, and one that
puts the actions together (`TipoPaso`, `PidsPaso`, `PasoInv`).

`MutexCoherente` and `TraspasoEnOrden` rest on one more fact, `MutexPaso`: in any
step, every mutex of a process either stays, is created, or changes by one of
`lockMutex` and `unlockMutex`, and these keep it coherent and pass it to its first
waiter.  Given that, nothing that happens to threads matters, which is why both hold
without any rule.

**The kernel, when scripts keep the rules.**  `HilosProofs` and `CicloProofs` prove, for every
algorithm, any names, priorities, processes and threads, and any syscalls:

| theorem | property |
|---|---|
| `HilosSanos` | `[]Sano`, the inductive invariant |
| `SiempreUnLugar` | `[]UnLugarPorHilo` |
| `SiempreEjecutaExec` | `[]CpuEjecutaExec` |
| `SiempreConDespertador` | `[]BloqueadoConDespertador` |
| `SiempreMutexConVivos` | `[]MutexConVivos` |
| `SiempreSinHuerfanos` | `[]SinHuerfanos` |
| `SiempreExitDefinitivo` | `[]ExitEsDefinitivo` |
| `NuncaCaido` | `[]NuncaAborta`, and no loop of `lockMutex` is left to be resumed |
| `CumpleSiempreCiclo` | `CumpleCicloDeVida` |
| `SiempreOrdenDeReady` | `OrdenDeReady` |
| `SiempreSueltaElDuenio` | `SoloElDuenioLibera` |
| `SiempreSinTrabarse` | `[]NadieTrabado`, with `no espera con mutex` too |

All assume `ReglasCumplidas`: the rules of section 2.1 are among `Reglas`, as they are in
`Kernel_hilos` and `Kernel_procesos`, but for `no espera con mutex`, which only
`SiempreSinTrabarse` assumes: scripts that break it may hang, and all of the others still hold.  So
they say what holds as long as no IO ends in the middle of a search of block (`busqueda sin IO`):
without that `UnLugarPorHilo`, `BloqueadoConDespertador` and `NadieTrabado` are false from three
threads on.  Section 2.1 says what goes wrong without each of the others, so none of them can be
left out of the invariant.

`SiempreSinHuerfanos` is about the loops of `exitProcess` with any number of threads of the
process in ready, and of other processes between them.  While the array of the loop is that of
the queue, the threads still to be found are at their own places in it, apart from each other, so
that a shift by one skips none (`Alineado`); once an append has copied the queue, what is left of the
array has each of them once (`Copiado`).  What `salida ordenada` rules out, two of them side by
side, is where the loop does skip one (`Kernel_v_exit`).

`Sano` is `IInv /\ MutexCoherente /\ HInv`, and `HInv` has ten parts, because the wake-up of a thread
is spread over the whole kernel:

| part | says | needed because |
|---|---|---|
| `Lugares` | each thread is in one queue or with one goroutine, once, or has ended | `eliminarHiloCola` of a thread that is not there empties the queue |
| `Cadena` | what the exec queue holds for each `pc`, and what `exitHilo` and `exitProcess` are doing | the handlers take "the thread that runs" from the queue |
| `AlFinal` | the thread of the chain, if blocked, is the last of block | the loop of `exitProcess` over block skips the one after each that it removes, and still reads the last |
| `Dumps` | a dump in progress is that of the chain | its answer takes that thread out of block |
| `Parejas` | a blocked thread is remembered by one TCB at most, once | it would be woken up twice |
| `Joins` | who is blocked for no other reason is remembered, and nobody is who waits for something else | or else nobody would wake it up |
| `Razones` | nobody sleeps and waits for a mutex at once | the first to come would take it out of block for the other |
| `Vidas` | every thread is of a process that is initialised | `exitProcess` must not leave any |
| `MutexSanos` | the holder of a mutex lives or is just ending, its waiters are blocked, a process has one mutex | the hand-over works on the copies of TCBs that the mutex keeps |
| `Recorrido` | whom each loop of `exitProcess` has still to find, and where | the loops walk arrays that shift under them |

The copies of TCBs are why it is an invariant of values and not of names: a TCB in a mutex or in a
goroutine must be *equal* to the one in block, or the joined threads that it remembers are lost.
The proof goes through what the helpers do to queues without repetition (`EliminarUno`, `SinUno`,
`Quitar`, `Agregar`, `ReflejosDeHechos`: `eliminarHiloCola` is the removal of one thread although it
shifts the array in place), then through the effect of each kind of move on places (`EfectoDespachar`,
`EfectoBloquear`, ...), then one lemma for each action, with one step for each part of `HInv`.

`CicloProofs` says once what all steps have in common: each is one of eight moves of one thread,
or of none (`Movimiento`, `PasoMovimiento`).  The life cycle follows because each move changes the state
of that thread as `CicloDeVida` allows (`IdsPaso`, `CicloPaso`), and the order of the ready queue
because each move leaves those that stay in their order (`RespetaPaso`).

`SiempreSinTrabarse` says that joins and mutexes never close a circle: in every state in which the
scheduler waits (803), a thread is ready or an IO is on its way.  It holds because of who is *not*
blocked, which `Sano` does not say.  `Suelto` does: in block, a thread that is remembered comes
before the one that remembers it, since it joined a thread that was still in ready
(`BloqueEnOrden`); a thread that holds a mutex is blocked only by its IO or dump, or is about to end
(`DuenioSuelto`, the only part that needs `no espera con mutex`, and that survives a hand-over because
`unlockMutex` takes the new holder out of block, `GanaPaso`); the main thread of each process lives
until `exitProcess` has taken the process away (`Principales`, `Cerrado`); and the scheduler goes on
only while there is a process (`HayProceso`).  If nothing is ready and nothing sleeps, the *last*
thread of block can then wait neither in a join, as nobody after it remembers it, nor for a mutex, as
its holder lives, is blocked and would have to sleep; and block is not empty, for the main thread is
there.  Without the rule two threads do wait for each other: thread 0 locks, joins thread 1, and
thread 1 asks for that mutex.

**The file system.**  `FileSystemProofs`, from `FileSystemAssumption`, for any number and
size of blocks, any names, data and failures:

| theorem | property | also assumes |
|---|---|---|
| `TiposFS` | `[]TypeOK` | |
| `InvarianteFS` | `[]IInv` | `Block_count <= ValoresByte` |
| `GuardadoSiempreQueda` | `[]GuardadoQueda` | the same |
| `ArchivosSiempreReservados` | `[]ArchivosReservados` | the same |
| `CumpleSiempreArchivos` | `CumpleArchivos` | the same |
| `EspacioSiempreExplicado` | `[]EspacioExplicado` | the same |

That a dump reads back needs more than its own blocks: that nobody writes on them
later, before and after a restart.  The invariant says that each stored file has a
sequence of blocks without repetition, the first its index, which is in both bitmaps,
disjoint from the others' and from that of the dump in progress; that the index block
holds the numbers of the rest; and that, of the dump in progress, what has been written
is as it should be.  The assumption is what `FileSystem_v_indice` shows to be needed.
`EspacioExplicado` counts, and is not inductive: while the program is off the bitmap in memory is
empty, and a start takes the one on disk.  `EspacioOK` counts what the next start would find
(`EnUso`), which a stop can only make smaller, and adds that a stored file is no larger than
`MasGrande`, what a name that is used again may lose; `BloquesDelDump` says that the blocks of a dump
that is answered are all found by reading its index, so that none is lost there.

**The CPU.**  `CpuProofs`, from the assumptions of `Instrucciones`, `Cpu` and `CpuProps`,
for any threads, scripts, priorities, partitions, width of words, timers and delays:

| theorem | property | also assumes |
|---|---|---|
| `InvarianteCpu` | `[]IInv` | |
| `TiposCpu` | `[]TypeOK` | |
| `RafagaSiempreDelExec` | `[]RafagaDelExec` | |
| `AccesoSiemprePropio` | `[]AccesoPropio` | |
| `CumpleSiempreMaquinas` | `CumpleMaquinas` | |
| `SiempreHayDesalojo` | `[]SiempreDesalojable` | both names in `Supuestos` |

`IInv` joins to `TypeOK` where threads are (each in one place, once: `ColasOK`; exec is
the thread of the innermost burst until it leaves: `ExecOK`), what bursts wait for
(`Exteriores`), when the flags may be set (`BanderasOK`), when memory has the context of
a burst (`GuardadoOK`), that PCs stay in their scripts (`GuionOK`), and what `wg` counts
(`WgOK`).  None of them is inductive alone: an outer burst stops only because
`syscallEnviada` is set when the inner one returns, and that is so because the inner one
ended by a syscall, a fault or an eviction that took the thread out of exec.
`SiempreHayDesalojo` adds that at most one interruption is on its way, and that one which
was woken up finds the counter at 0 (`Puntuales`), and what is still to come for the
thread in exec (`PorVenir`).

**Memory.**  `MemoriaProofs`, from `MemoriaAssumption`, for both schemes, the three searches,
any partitions, sizes and addresses, and any number of processes:

| theorem | property | also assumes |
|---|---|---|
| `Invariante` | `[]IInv` | |
| `TipoCorrecto` | `[]TypeOK` | |
| `OcupacionSiempre` | `[]OcupacionCoherente` | |
| `SumaSiempre` | `[]SumaConstante` | |
| `CompactarSiempreAlcanza` | `CompactarAlcanza` | |
| `FijasSuParticion` | `[]SuParticion` | `EsquemaMemoria = "FIJAS"` |
| `FijasLiberaSuEspacio` | `LiberaSuEspacio` | the same |
| `FijasLoEscritoQueda` | `LoEscritoQueda` | the same |

`IInv` is `Tablas` (the three tables of partitions agree and add up), `Resto` (the types of
the others) and `Turno`: a process that waits to start is not held by memory; it is told to
compact only when the free space is enough; and after a compaction it has its room.  Coherence
and the total are proved of the operations on tables first (`TablaOcupar`, `TablaAgregar`,
`TablaLiberar`, `TablaJuntar`, `TablaCompactar`, `DividirTotal`, `JuntarTotal`,
`CorrerTotal`).  Compaction needs that counting the places before an occupied one, without
the free ones, numbers them from 1 without a gap (`RangoBiyectivo`, `RangoCorrido`).  The two
joins keep the tables coherent because the partition that goes is a free one in each, whichever
takes it in.  The sums rest on `Sumas`: the fold of the library is unfolded once (`SumaEcuacion`)
and the rest is induction on the number of indexes.  With fixed partitions, the addresses of
two partitions are apart because a sum over fewer places is not larger (`RangosDisjuntos`).
With dynamic ones the last three properties fail, as `Memoria_v_subdividir` shows of one.

**The system.**  `SistemaProofs`, from `KernelAssumption` and `SistemaAssumption` (that of
`Memoria`), for both schemes, the three searches, any partitions and sizes, any number of
processes and threads, and whatever scripts do unless the last column says otherwise:

| theorem | what holds of `SpecSistema` | also assumes |
|---|---|---|
| `SistemaCumpleKernel` | `Spec` | |
| `SistemaCumpleMemoria` | every step is one of `Memoria`, or leaves it alone | |
| `InvarianteDelSistema` | `[]SInv` | |
| `SiempreMismosProcesos` | `[]MismosProcesos` | `ReglasCumplidas` |
| `NadieSiempreEsperaConLugar` | `[]NadieEsperaConLugar` | |
| `MemoriaEnElSistema` | `TypeOK`, `OcupacionCoherente`, `SumaConstante` and `CompactarAlcanza` of memory | |
| `SiempreParadoSinNadie` | `[]ParadoSinNadie` | |
| `SiempreHilosConMemoria` | `[]HilosConMemoria` | `ReglasCumplidas` |
| `SistemaBajoReglas` | the theorems about threads, mutexes, joins and the ready queues | `ReglasCumplidas` |

`SistemaCumpleKernel` brings every theorem about the kernel into the system, first of all
`IInv`, which says that pids start in the order of their numbers (`PidsEnOrden`); so the
process that waits first, the one that `pedido` is about, and the next slot of `nextTid` are
the same.  `SInv` adds where the kernel is while it talks (`Inicializando`, and `Inicial` for
the start), that a process whose answer was "wait" has no room, also by compacting
(`SinLugar`), and that any process left waiting has had that answer.  The last one is what
carries `NadieEsperaConLugar` through `exitProcess`: room grows only when memory takes a
partition back, and that step makes memory answer again for the process that waits.
Steps of threads, mutexes and IO are dealt with together (`PasoSinProcesos`): they change no list
of processes (`ProcesosOtros` of `KernelProofs`).

The last four say what neither part says alone, and are not properties of runs.
`SistemaProofs` has memory twice: as the instance that `Sistema` steps (`Memoria`) and as that of
`MemoriaProofs`, with the theorems (`Mem`).  `PasoDeMemoria` shows that the steps of one are steps
of the other, and `MemoriaAlPrincipio` that `Mem!IInv` holds when the kernel starts, with the
request of the initial process on its way; so all that the invariant of memory implies holds with
the kernel that there is.  `ParadoSinNadie` is what "se pausa la planificacion" (kernel 809)
leaves behind: the scheduler stops only with no process initialised (`Parado`), so memory has
none (`SInv`), so all of it is free (`Mem!IInv`), so a process that waits, which has no room
(`SinLugar`), asks for more than the whole memory, or than any fixed partition (`NuncaEntra`): a
process that could have run has.  No rule is needed.  `HilosConMemoria` joins
`Vidas` and `Principales` of the threads to `Procesos`: no thread outlives its partition,
and while the scheduler waits no partition is of a process without threads.

**Only model-checked**: liveness (`ReadyLlegaAExec`, `IoVuelve`, `MutexLlega`, `EsperaTermina`,
`RotaLaCpu`, `NuevoLlega`), which is beyond the prover; and TLC's own deadlock check, that some step is always
possible, which is about ENABLED (`SiempreSinTrabarse` is what can be said of it as an invariant).
Every invariant and every action property of the passing runs has a theorem.

## 5. What the models leave out

- Contents of files, logs, JSON, status codes that nobody tests, delays, the order in
  which Go serves two requests that arrive together when there is one chain.
- `pcb.Tid` (written, never read for a decision) and `colaProcesosExit`.
- Reads of queues without their mutexes: each read of an element, and each append or removal, is
  one step in the model, although the Go memory model promises nothing.  A goroutine that
  removes a thread from block in the middle of a walk is modelled (`Cruce`, section 2.1), where
  `busqueda sin IO` is not assumed; two of them in one walk are not, nor is an append to ready
  while the scheduler reads it (803): appends leave the elements that are there.
- The new registers in `UpdateExecutionContext` (`ModificarValores`, memory 394, 423): a context
  in `Memoria` is only whether it is as it was created, and what it holds is in `Cpu`.
- Deeper nestings of `lockMutex` than runs reach.
- The motive of an interruption (cpu 363 reads it without its lock): only the quantum
  sends any, as 1.6 says.
- Fetching beyond the end of a script, where the burst ends with its thread in exec and
  the scheduler waits for ever, and instructions that cannot be parsed
  (`ProgramaAssumption`).
- A context that cannot be saved on an eviction (`log.Panicf`, cpu 360).
- Two dumps at once in the file system, and reading what is on the disk: no code does.
- `src/ejecutableIP`, the HTTP routes and loggers of the four `main` files: they keep no
  state and take no decision that another part sees.

Departures from comments that no run is kept for, but that the models contain:

- THREAD_JOIN of a blocked or running thread does not wait (kernel 695), although the log says
  that the thread does not exist.
- MUTEX_LOCK looks at the first mutex of the process only; for any other it says "El mutex
  no existe" and sends the thread back to the CPU without it (kernel 1326).
- THREAD_CREATE dispatches the tid of its request, which the CPU never sends: thread 0
  runs while the caller is in exec (kernel 604, cpu 845 "ESTE ESTA FUNCIONANDO MAL").
- After a join on the left, the join on the right works on the partition after the right
  one, and an occupied partition may take in a free one (memory 874).
- THREAD_CANCEL of a thread that does not exist releases the mutex of thread 0
  (kernel 732, memory of `TCB{}`).
- Compaction leaves the bases and limits as they were (memory 632).
- The contexts of ended processes and threads stay (memory 807, 988): the keys that are
  deleted have base, limit and registers 0.
- The last word of a partition is cut to three bytes (memory 1068, 1178).
- A process that is larger than the memory waits for ever, for the panic that is
  meant for it is tested only when a partition was found (memory 716, 745).
- A stop between the metadata and the bitmap of a dump leaves a metadata file that points
  to blocks that are free, and that a later dump takes (file system 229, 236).
- Nothing stops the timer of a turn that has ended (kernel 880): it may evict the next thread
  of that pid and tid, or the same one in a later turn, before its quantum.

## 6. Plan

1. Proofs: what waiting threads wait for, as a chain that ends (`NadieTrabado` says that
   somebody can move, not that everybody who waits is in the end behind who can): the
   safety facts that `MutexLlega`, `IoVuelve` and `ReadyLlegaAExec` rest on.
2. `Sistema` with the contexts of threads, and the CPU as their user: `abre` would then
   be an answer of memory too.
