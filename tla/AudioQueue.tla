----------------------------- MODULE AudioQueue -----------------------------
(***************************************************************************)
(* The audio ring of CQueue: PutAudio on the demuxer thread, GetAudio and  *)
(* RetAudio on the sender thread, Clear when the queue is destroyed.  Each *)
(* slot owns a block of memory that PutAudio allocates, before it takes the*)
(* mutex, and RetAudio frees.                                              *)
(*                                                                         *)
(* Nothing in the program calls Enable for an audio queue ("not            *)
(* implemented yet", queue.h:37), so GetAudio finds nothing and the ring   *)
(* fills up.  EnableCalled is FALSE for the program as it is, TRUE for the *)
(* ring as its interface has it.                                           *)
(***************************************************************************)
EXTENDS Naturals

CONSTANTS MaxAudio,      \* m_nMaxAudioQueue
          MaxPuts,       \* the blocks put (bound)
          EnableCalled   \* does someone call Enable

ASSUME AudioAssumption == /\ MaxAudio \in Nat \ {0}
                          /\ MaxPuts \in Nat
                          /\ EnableCalled \in BOOLEAN

Slots == 0 .. MaxAudio - 1
After(pos) == IF pos + 1 >= MaxAudio THEN 0 ELSE pos + 1

VARIABLES
    full,            \* is m_e[].len above 0
    memory,          \* what m_e[].p points to: nothing, a block, a freed block
    data,            \* the block that is in the memory, by its number, or 0
    m_nReadAudioPos,
    m_nWriteAudioPos,
    m_nAudio,
    m_bEnable,
    m_mutex,         \* who holds it
    d_pc, s_pc,      \* where the threads are
    s_slot,          \* pe of GetAudio
    puts,            \* blocks stored so far
    taken,           \* history: the numbers of the blocks sent are 1 .. taken
    inOrder,         \* history: no block was sent out of turn
    leaked,          \* history: a block lost that was never freed
    raced            \* history: PutAudio allocated for the slot being freed

ring == <<full, memory, data, m_nReadAudioPos, m_nWriteAudioPos, m_nAudio>>
sent == <<taken, inOrder>>
vars == <<ring, m_bEnable, m_mutex, d_pc, s_pc, s_slot, puts, sent, leaked, raced>>

TypeOK ==
    /\ full \in [Slots -> BOOLEAN]
    /\ memory \in [Slots -> {"null", "live", "freed"}]
    /\ data \in [Slots -> 0 .. MaxPuts]
    /\ m_nReadAudioPos \in Slots
    /\ m_nWriteAudioPos \in Slots
    /\ m_nAudio \in 0 .. MaxAudio
    /\ m_bEnable \in BOOLEAN
    /\ m_mutex \in {"none", "sender"}
    /\ d_pc \in {"test", "new", "store", "over", "cleared"}
    /\ s_pc \in {"get", "find", "send", "return", "free", "over"}
    /\ s_slot \in Slots
    /\ puts \in 0 .. MaxPuts
    /\ taken \in 0 .. MaxPuts
    /\ inOrder \in BOOLEAN
    /\ leaked \in BOOLEAN
    /\ raced \in BOOLEAN

Init ==
    /\ full = [s \in Slots |-> FALSE]
    /\ memory = [s \in Slots |-> "null"]
    /\ data = [s \in Slots |-> 0]
    /\ m_nReadAudioPos = 0
    /\ m_nWriteAudioPos = 0
    /\ m_nAudio = 0
    /\ m_bEnable = FALSE
    /\ m_mutex = "none"
    /\ d_pc = "test"
    /\ s_pc = "get"
    /\ s_slot = 0
    /\ puts = 0
    /\ taken = 0
    /\ inOrder = TRUE
    /\ leaked = FALSE
    /\ raced = FALSE
-----------------------------------------------------------------------------
(* PutAudio, on the demuxer thread. *)

(* A mutant: a full ring is taken for one with a free slot. *)
PutTestFull ==
    /\ d_pc = "test"
    /\ puts < MaxPuts
    /\ d_pc' = "new"
    /\ UNCHANGED <<ring, m_bEnable, m_mutex, s_pc, s_slot, puts, sent, leaked, raced>>

\* The fill level is tested without the mutex.
PutTest ==
    /\ d_pc = "test"
    /\ m_nAudio < MaxAudio
    /\ puts < MaxPuts
    /\ d_pc' = "new"
    /\ UNCHANGED <<ring, m_bEnable, m_mutex, s_pc, s_slot, puts, sent, leaked, raced>>

\* pe->p = new char[nSize], without the mutex too.
PutNew ==
    /\ d_pc = "new"
    /\ memory' = [memory EXCEPT ![m_nWriteAudioPos] = "live"]
    /\ leaked' = (leaked \/ memory[m_nWriteAudioPos] = "live")
    /\ raced' = (raced \/ (s_pc = "free" /\ s_slot = m_nWriteAudioPos))
    /\ d_pc' = "store"
    /\ UNCHANGED <<full, data, m_nReadAudioPos, m_nWriteAudioPos, m_nAudio,
                   m_bEnable, m_mutex, s_pc, s_slot, puts, sent>>

(* A mutant: the write position stays. *)
PutStoreStays ==
    /\ d_pc = "store"
    /\ m_mutex = "none"
    /\ IF full[m_nWriteAudioPos]
         THEN UNCHANGED <<ring, puts>>
         ELSE /\ puts' = puts + 1
              /\ data' = [data EXCEPT ![m_nWriteAudioPos] = puts']
              /\ full' = [full EXCEPT ![m_nWriteAudioPos] = TRUE]
              /\ m_nAudio' = m_nAudio + 1
              /\ UNCHANGED <<memory, m_nReadAudioPos, m_nWriteAudioPos>>
    /\ d_pc' = "test"
    /\ UNCHANGED <<m_bEnable, m_mutex, s_pc, s_slot, sent, leaked, raced>>

\* The section under the mutex.  A freed block takes no data.
PutStore ==
    /\ d_pc = "store"
    /\ m_mutex = "none"
    /\ IF full[m_nWriteAudioPos]
         THEN UNCHANGED <<ring, puts>>
         ELSE /\ puts' = puts + 1
              /\ data' = [data EXCEPT ![m_nWriteAudioPos] =
                              IF memory[m_nWriteAudioPos] = "live" THEN puts' ELSE 0]
              /\ full' = [full EXCEPT ![m_nWriteAudioPos] = TRUE]
              /\ m_nWriteAudioPos' = After(m_nWriteAudioPos)
              /\ m_nAudio' = m_nAudio + 1
              /\ UNCHANGED <<memory, m_nReadAudioPos>>
    /\ d_pc' = "test"
    /\ UNCHANGED <<m_bEnable, m_mutex, s_pc, s_slot, sent, leaked, raced>>

Enable ==
    /\ EnableCalled /\ ~m_bEnable
    /\ m_bEnable' = TRUE
    /\ UNCHANGED <<ring, m_mutex, d_pc, s_pc, s_slot, puts, sent, leaked, raced>>
-----------------------------------------------------------------------------
(* The sender thread. *)

\* GetAudio: m_bEnable and the slot at the read position, without the mutex; a
\* slot that is full stays so, as this thread alone empties slots.
GetTest ==
    /\ s_pc = "get"
    /\ m_bEnable
    /\ s_slot' = m_nReadAudioPos
    /\ s_pc' = IF full[m_nReadAudioPos] THEN "find" ELSE "get"
    /\ UNCHANGED <<ring, m_bEnable, m_mutex, d_pc, puts, sent, leaked, raced>>

GetFind ==
    /\ s_pc = "find"
    /\ m_mutex = "none"
    /\ s_pc' = IF full[s_slot] THEN "send" ELSE "get"
    /\ UNCHANGED <<ring, m_bEnable, m_mutex, d_pc, s_slot, puts, sent, leaked, raced>>

\* send_audiostream: it reads the slot's memory, again without the mutex.
Send ==
    /\ s_pc = "send"
    /\ inOrder' = (inOrder /\ memory[s_slot] = "live" /\ data[s_slot] = taken + 1)
    /\ taken' = IF taken < MaxPuts THEN taken + 1 ELSE taken
    /\ s_pc' = "return"
    /\ UNCHANGED <<ring, m_bEnable, m_mutex, d_pc, s_slot, puts, leaked, raced>>

(* Two mutants: the counter is not lowered; the read position stays. *)
RetReleaseUncounted ==
    /\ s_pc = "return"
    /\ m_mutex = "none"
    /\ m_mutex' = "sender"
    /\ full' = [full EXCEPT ![s_slot] = FALSE]
    /\ m_nReadAudioPos' = After(m_nReadAudioPos)
    /\ s_pc' = "free"
    /\ UNCHANGED <<memory, data, m_nWriteAudioPos, m_nAudio, m_bEnable, d_pc, s_slot, puts,
                   sent, leaked, raced>>

RetReleaseStays ==
    /\ s_pc = "return"
    /\ m_mutex = "none"
    /\ m_mutex' = "sender"
    /\ full' = [full EXCEPT ![s_slot] = FALSE]
    /\ m_nAudio' = m_nAudio - 1
    /\ s_pc' = "free"
    /\ UNCHANGED <<memory, data, m_nReadAudioPos, m_nWriteAudioPos, m_bEnable, d_pc, s_slot,
                   puts, sent, leaked, raced>>

\* RetAudio: the slot and the counter first ...
RetRelease ==
    /\ s_pc = "return"
    /\ m_mutex = "none"
    /\ m_mutex' = "sender"
    /\ full' = [full EXCEPT ![s_slot] = FALSE]
    /\ m_nReadAudioPos' = After(m_nReadAudioPos)
    /\ m_nAudio' = m_nAudio - 1
    /\ s_pc' = "free"
    /\ UNCHANGED <<memory, data, m_nWriteAudioPos, m_bEnable, d_pc, s_slot, puts, sent,
                   leaked, raced>>

\* ... and then the memory, which may be the one PutAudio has just allocated.
RetFree ==
    /\ s_pc = "free"
    /\ memory' = [memory EXCEPT ![s_slot] = IF memory[s_slot] = "null" THEN "null" ELSE "freed"]
    /\ m_mutex' = "none"
    /\ s_pc' = "get"
    /\ UNCHANGED <<full, data, m_nReadAudioPos, m_nWriteAudioPos, m_nAudio, m_bEnable,
                   d_pc, s_slot, puts, sent, leaked, raced>>
-----------------------------------------------------------------------------
(* The end: both threads leave between two calls, and ~CQueue clears. *)

Leave ==
    \/ /\ d_pc = "test" /\ d_pc' = "over"
       /\ UNCHANGED <<ring, m_bEnable, m_mutex, s_pc, s_slot, puts, sent, leaked, raced>>
    \/ /\ s_pc = "get" /\ s_pc' = "over"
       /\ UNCHANGED <<ring, m_bEnable, m_mutex, d_pc, s_slot, puts, sent, leaked, raced>>

\* Clear: the slots that hold something are freed; m_nAudio is not reset.
Clear ==
    /\ d_pc = "over" /\ s_pc = "over"
    /\ memory' = [s \in Slots |-> IF full[s] /\ memory[s] # "null" THEN "null" ELSE memory[s]]
    /\ full' = [s \in Slots |-> FALSE]
    /\ m_nReadAudioPos' = 0
    /\ m_nWriteAudioPos' = 0
    /\ m_bEnable' = FALSE
    /\ d_pc' = "cleared"
    /\ UNCHANGED <<data, m_nAudio, m_mutex, s_pc, s_slot, puts, sent, leaked, raced>>

Cleared == d_pc = "cleared" /\ UNCHANGED vars

Next == \/ PutTest \/ PutNew \/ PutStore \/ Enable
        \/ GetTest \/ GetFind \/ Send \/ RetRelease \/ RetFree
        \/ Leave \/ Clear \/ Cleared

Spec == Init /\ [][Next]_vars
-----------------------------------------------------------------------------
(* Properties. *)

(* m_nAudio counts the slots that are full, from the read position on, though
   it is tested without the mutex and two threads change it. *)
Counted ==
    d_pc # "cleared" =>
        \A s \in Slots :
            full[s] <=> (s + MaxAudio - m_nReadAudioPos) % MaxAudio < m_nAudio

(* Blocks are sent in the order they were put, each once and whole, unless
   PutAudio allocated for a slot whose memory RetAudio was about to free. *)
InOrder == raced \/ inOrder

(* Every block of memory is freed: none is overwritten by the next one, and
   Clear finds all that are left.  The same exception applies. *)
NoLeak ==
    /\ leaked => raced
    /\ d_pc = "cleared" /\ ~raced => \A s \in Slots : memory[s] # "live"

(* That exception needs a full ring: the slot to write is the one just read only
   when all the others hold something. *)
RaceNeedsFullRing ==
    [][raced' /\ ~raced => \A s \in Slots \ {s_slot} : full[s]]_vars

(* The ring's books: types, counter, memory. *)
RingInv == TypeOK /\ Counted /\ NoLeak
=============================================================================
