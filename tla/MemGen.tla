------------------------------- MODULE MemGen -------------------------------
(***************************************************************************)
(* memgen.py: from an assembly or ELF file, through the external tools, to  *)
(* the image the memory of the processor is initialised with.  A program is *)
(* the sequence of its bytes; a file holds NoFile while it does not exist.  *)
(* The user edits the program between runs, and each step may fail.         *)
(***************************************************************************)
EXTENDS Integers, Sequences

CONSTANTS
    Programs,       \* the programs a user assembles: sequences of bytes
    Sizes,          \* the values of --size
    NoFile

ASSUME MemGenAssumption ==
    /\ Programs \subseteq Seq(0 .. 255) /\ Programs # {}
    /\ Sizes \subseteq Nat /\ Sizes # {}
    /\ NoFile \notin Programs /\ NoFile \notin Seq(Nat)

VARIABLES
    stage,              \* "idle" between two runs, or what main() does next
    input, image_size,  \* the arguments
    source,             \* the program in the assembly file
    linker_script,      \* the temporary file of the last run exists
    elf_file, bin_file, output_file,
    words,              \* what create_mem_file() is going to write
    status,             \* the exit status of the last run, -1 if it was killed
    raised              \* an exception is on its way out

argVars    == <<input, image_size>>
fileVars   == <<linker_script, elf_file, bin_file, output_file>>
memgenVars == <<stage, argVars, source, fileVars, words, status, raised>>

MemGenTypeOK ==
    /\ stage \in {"idle", "script", "gcc", "unlink", "objcopy", "read", "write", "refused"}
    /\ input \in {"asm", "elf", "other"} /\ image_size \in Sizes
    /\ source \in Programs
    /\ linker_script \in BOOLEAN /\ raised \in BOOLEAN
    /\ elf_file \in Programs \cup {NoFile} /\ bin_file \in Programs \cup {NoFile}
    /\ words \in Seq(Nat) /\ output_file \in Seq(Nat) \cup {NoFile}
    /\ status \in {-1, 0, 1}

MemGenInit ==
    /\ stage = "idle" /\ input = "other" /\ status = 0 /\ raised = FALSE
    /\ image_size = CHOOSE s \in Sizes : TRUE
    /\ source = CHOOSE p \in Programs : TRUE
    /\ linker_script = FALSE
    /\ elf_file = NoFile /\ bin_file = NoFile /\ output_file = NoFile
    /\ words = << >>

-----------------------------------------------------------------------------

\* The run ends, and with it what only the process held.
EndRun(s) ==
    /\ stage' = "idle" /\ status' = s /\ raised' = FALSE /\ words' = << >>

\* main() decides by the suffix.
main ==
    /\ stage = "idle"
    /\ input' \in {"asm", "elf", "other"} /\ image_size' \in Sizes
    /\ stage' = CASE input' = "asm" -> "script" [] input' = "elf" -> "objcopy"
                  [] input' = "other" -> "refused"
    /\ linker_script' = FALSE
    /\ UNCHANGED <<source, elf_file, bin_file, output_file, words, status, raised>>

\* main() returns 1 for a suffix it does not know, and nobody uses it.
Refuse ==
    /\ stage = "refused"
    /\ EndRun(0)
    /\ UNCHANGED <<argVars, source, fileVars>>

\* The script exists from here on; writing it is not guarded by the try.
WriteScript ==
    /\ stage = "script"
    /\ linker_script' = TRUE
    /\ (stage' = "gcc" /\ UNCHANGED <<status, raised, words>>) \/ EndRun(1)
    /\ UNCHANGED <<argVars, source, elf_file, bin_file, output_file>>

\* gcc writes the ELF file, or fails and may remove it.
Assemble ==
    /\ stage = "gcc"
    /\ stage' = "unlink"
    /\ \/ elf_file' = source /\ raised' = FALSE
       \/ elf_file' \in {elf_file, NoFile} /\ raised' = TRUE
    /\ UNCHANGED <<argVars, source, linker_script, bin_file, output_file, words, status>>

\* Mutant: the script is removed only after a success.
Unlink_OnSuccess ==
    /\ stage = "unlink"
    /\ linker_script' = raised
    /\ IF raised THEN EndRun(1)
       ELSE stage' = "objcopy" /\ UNCHANGED <<status, raised, words>>
    /\ UNCHANGED <<argVars, source, elf_file, bin_file, output_file>>

\* The finally clause.
Unlink ==
    /\ stage = "unlink"
    /\ linker_script' = FALSE
    /\ IF raised THEN EndRun(1)
       ELSE stage' = "objcopy" /\ UNCHANGED <<status, raised, words>>
    /\ UNCHANGED <<argVars, source, elf_file, bin_file, output_file>>

extract_binary ==
    /\ stage = "objcopy"
    /\ \/ /\ elf_file # NoFile
          /\ bin_file' = elf_file
          /\ stage' = "read" /\ UNCHANGED <<status, raised, words>>
       \/ bin_file' \in {bin_file, NoFile} /\ EndRun(1)
    /\ UNCHANGED <<argVars, source, linker_script, elf_file, output_file>>

\* The word at an index of the data, its first byte the lowest.
WordAt(data, i) ==
    data[i + 4] * 2 ^ 24 + data[i + 3] * 2 ^ 16 + data[i + 2] * 2 ^ 8 + data[i + 1]

\* Mutant: the last word is taken to start one byte early.
Words_Short(data, n) ==
    LET whole == [k \in 1 .. (Len(data) - 1) \div 4 |-> WordAt(data, 4 * (k - 1))]
    IN  whole \o [k \in 1 .. n - Len(whole) |-> 0]

\* The words of the data, padded with zeros; a last word that is not whole is
\* left out.
Words(data, n) ==
    LET whole == [k \in 1 .. Len(data) \div 4 |-> WordAt(data, 4 * (k - 1))]
    IN  whole \o [k \in 1 .. n - Len(whole) |-> 0]

ReadBinary ==
    /\ stage = "read"
    /\ \/ /\ bin_file # NoFile
          /\ words' = Words(bin_file, image_size)
          /\ stage' = "write" /\ UNCHANGED <<status, raised>>
       \/ EndRun(1)
    /\ UNCHANGED <<argVars, source, linker_script, elf_file, bin_file, output_file>>

\* The old image is gone when the file is opened; an error may leave any part
\* of the new one.
WriteImage ==
    /\ stage = "write"
    /\ \/ output_file' = words /\ EndRun(0)
       \/ \E n \in 0 .. Len(words) : output_file' = SubSeq(words, 1, n) /\ EndRun(1)
    /\ UNCHANGED <<argVars, source, linker_script, elf_file, bin_file>>

\* A signal that no finally clause sees.
Kill ==
    /\ stage # "idle"
    /\ EndRun(-1)
    /\ UNCHANGED <<argVars, source, fileVars>>

-----------------------------------------------------------------------------
\* Between two runs the user edits the program and deletes what the tools made.
Edit ==
    /\ stage = "idle"
    /\ source' \in Programs
    /\ UNCHANGED <<stage, argVars, fileVars, words, status, raised>>

Delete ==
    /\ stage = "idle"
    /\ elf_file' = NoFile /\ bin_file' = NoFile
    /\ UNCHANGED <<stage, argVars, source, linker_script, output_file, words, status, raised>>

MemGenNext ==
    \/ main \/ Refuse \/ WriteScript \/ Assemble \/ Unlink \/ extract_binary
    \/ ReadBinary \/ WriteImage \/ Kill
    \/ Edit \/ Delete

MemGenSpec == MemGenInit /\ [][MemGenNext]_memgenVars

-----------------------------------------------------------------------------
\* The byte that the processor finds at an address of the image.
ByteAt(image, address) == (image[address \div 4 + 1] \div 2 ^ (8 * (address % 4))) % 256

\* The image is of at least n words and holds the whole words of a program,
\* every byte at its address, and zeros.
IsImage(image, program, n) ==
    /\ Len(image) >= n
    /\ \A address \in 0 .. 4 * Len(image) - 1 :
          ByteAt(image, address) =
              IF address < 4 * (Len(program) \div 4) THEN program[address + 1] ELSE 0

(***************************************************************************)
(* A run that ends with status 0 leaves the image of the program it was     *)
(* given: never that of an earlier run whose files are still there,         *)
(* whatever step failed or was killed before, and with each byte in the     *)
(* lane memory.sv reads it from.  The exception is an input it refuses,     *)
(* which leaves the old image (memgen.py:58-73, 93-102 and 116-145).        *)
(***************************************************************************)
SuccessLeavesImage ==
    [][stage # "idle" /\ stage' = "idle" /\ status' = 0 =>
           IF input = "other" THEN UNCHANGED output_file
           ELSE /\ output_file' # NoFile
                /\ IsImage(output_file', IF input = "asm" THEN source ELSE elf_file,
                           image_size)]_memgenVars

(***************************************************************************)
(* memgen.py:127-128: print(f"Unsupported input file format: {input_file}") *)
(* and "return 1", against the "return 0" of line 142.  A run that refuses  *)
(* its input does not end as one that succeeds.                             *)
(***************************************************************************)
RefusedRunsFail ==
    [][stage = "refused" /\ stage' = "idle" => status' # 0]_memgenVars

(***************************************************************************)
(* The linker script is removed however the run ends, unless the process is *)
(* killed or the script itself could not be written (memgen.py:31-33 and    *)
(* 72-73).                                                                  *)
(***************************************************************************)
ScriptRemoved ==
    [][stage # "idle" /\ stage' = "idle" /\ linker_script' =>
           status' = -1 \/ stage = "script"]_memgenVars

=============================================================================
