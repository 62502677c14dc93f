----------------------------- MODULE RunProgram -----------------------------
(***************************************************************************)
(* Running a program.                                                      *)
(*                                                                         *)
(* Loading: load_elf() reads the headers and defines the regions of the    *)
(* address space; later each page is read when it is first touched, by     *)
(* load_segment_page().  kern/userprog/loadelf.c, with uiomove() and       *)
(* uiomovezeros() of uio.c.  pt_page_in() (vm/pt.c) maps the page whatever *)
(* load_segment_page() returns.  A byte of memory is the offset in the     *)
(* file it was read from, ZERO, or JUNK, what the frame held before.       *)
(*                                                                         *)
(* Arguments: runprogram() and sys_execv() make a new address space, load  *)
(* the program and put its arguments on the new stack.                     *)
(* kern/userprog/runprogram.c, and the two versions of sys_execv(), in     *)
(* execv.c and process_syscall.c.  The stack is the bytes below TOP.  They *)
(* hold at first what load_segment_page() leaves in a page the file has    *)
(* nothing of, zeros or what the frame held: Held.  A word of four bytes   *)
(* is stored as <<"word", w, k>>, k from 0 to 3.  An argument is its       *)
(* length, and <<"char", a, k>> is byte k of argument number a.            *)
(***************************************************************************)
EXTENDS Integers, Sequences, FiniteSets, FiniteSetsExt, SequencesExt

CONSTANTS
  PAGE_SIZE, NSegments,       \* AS_NUM_SEG - 1
  Files,                      \* what the file may be: [good, len, phdrs]
  ZEROS,                      \* the size of uiomovezeros()'s buffer
  WORD,                       \* a size_t is a number below WORD
  Garbage,                    \* what uio_resid may be before it is set
  NULL, ZERO, JUNK,
  TOP,                        \* USERTOP
  Lens,                       \* lengths of arguments
  MaxArgs                     \* the menu's limit; sys_execv() has it too, E2BIG

VARIABLES
  file, i, segments,
  err,                        \* why loading has stopped, or "no"
  loading,                    \* the page that is being loaded: [vaddr, uio, zeros, result], or NULL
  frame,                      \* its frame; a write outside it is a panic
  image,                      \* the pages that were mapped: [vaddr, bytes, result]
  panicked

vars == <<file, i, segments, err, loading, frame, image, panicked>>

Init ==
  /\ file \in Files /\ i = 0 /\ segments = <<>> /\ err = "no" /\ loading = NULL
  /\ frame = [b \in 0..(PAGE_SIZE - 1) |-> JUNK] /\ image = {} /\ panicked = FALSE

Aligned(a) == a - (a % PAGE_SIZE)

----------------------------------------------------------------------------
(* load_elf() *)

Fail(e) == err' = e /\ UNCHANGED <<file, i, segments, loading, frame, image, panicked>>

\* The header: not read, too short, not for this machine, or good.
Header ==
  /\ err = "no" /\ i = 0
  /\ \/ Fail("EIO")
     \/ ~file.good /\ Fail("ENOEXEC")
     \/ file.good /\ i' = 1 /\ UNCHANGED <<file, segments, err, loading, frame, image, panicked>>

\* as_define_region(): base and size are aligned to pages, the offset in the
\* file stays.
as_define_region(ph) ==
  [vbase |-> Aligned(ph.vaddr),
   size |-> Aligned(ph.memsz + (ph.vaddr % PAGE_SIZE) + PAGE_SIZE - 1) \div PAGE_SIZE,
   p_offset |-> ph.offset, p_filesz |-> ph.filesz]

PhdrFails == err = "no" /\ i \in 1..Len(file.phdrs) /\ Fail("EIO")

\* One program header.
Phdr ==
  LET ph == file.phdrs[i]
  IN  /\ err = "no" /\ i \in 1..Len(file.phdrs)
      /\ CASE ph.type = "skip" -> /\ i' = i + 1           \* PT_NULL, PT_PHDR, PT_MIPS_REGINFO
                                  /\ UNCHANGED <<file, segments, err, loading, frame, image, panicked>>
           [] ph.type = "unknown" -> Fail("ENOEXEC")
           [] ph.type = "PT_LOAD" ->
                IF Len(segments) = NSegments THEN Fail("EUNIMP")
                ELSE /\ segments' = Append(segments, as_define_region(ph)) /\ i' = i + 1
                     /\ UNCHANGED <<file, err, loading, frame, image, panicked>>

load_elf == Header \/ PhdrFails \/ Phdr

Loaded == err = "no" /\ i > Len(file.phdrs) /\ file.good

----------------------------------------------------------------------------
(* uiomove() to memory of the kernel: n bytes, src[0], src[1] ... *)

\* How much is moved: uio_resid is only compared with 0.
Size(u, n) == IF u.resid = 0 THEN 0 ELSE Min({n, u.iov_len})

uiomove(u, n, src) ==
  /\ panicked' = (u.resid > 0 /\ u.iov_len < n)
  /\ frame' = [b \in DOMAIN frame |->
                 IF b \in u.iov_kbase..(u.iov_kbase + Size(u, n) - 1) THEN src[b - u.iov_kbase]
                 ELSE frame[b]]

\* The uio afterwards.
Moved(u, n) ==
  LET size == Size(u, n)
  IN  [iov_kbase |-> u.iov_kbase + size, iov_len |-> u.iov_len - size,
       resid |-> (u.resid - size) % WORD, offset |-> u.offset + size]

bug_ReadSize(s, vaddr) ==               \* a whole page as long as there is any of the file
  IF vaddr - s.vbase >= s.p_filesz THEN 0 ELSE PAGE_SIZE

\* read_size: what of the page is in the file.
ReadSize(s, vaddr) ==
  IF vaddr - s.vbase >= s.p_filesz THEN 0
  ELSE IF s.vbase + s.p_filesz >= vaddr + PAGE_SIZE THEN PAGE_SIZE
  ELSE s.vbase + s.p_filesz - vaddr

\* A page of segment s is touched for the first time: the uio, and VOP_READ(),
\* which stops at the end of the file and may fail after any part.  If there
\* is nothing to read, uio_resid has no value when fillamt is added to it.
load_segment_page(s, vaddr) ==
  LET read == ReadSize(s, vaddr)
      offset == vaddr - s.vbase + s.p_offset
      there == Max({0, Min({read, file.len - offset})})
      Page(u, zeros, result) ==
        loading' = [vaddr |-> vaddr, uio |-> u, zeros |-> zeros, result |-> result]
  IN  /\ Loaded /\ loading = NULL /\ \A p \in image : p.vaddr # vaddr
      /\ \E resid \in (IF read > 0 THEN {read} ELSE Garbage), n \in 0..there :
           LET u == [iov_kbase |-> 0, iov_len |-> PAGE_SIZE, resid |-> resid, offset |-> offset]
               after == Moved(u, n)
           IN  /\ uiomove(u, n, [k \in 0..(n - 1) |-> offset + k])
               /\ \/ read > 0 /\ Page(after, 0, "EIO")
                  \/ n = there /\ there < read /\ Page(after, 0, "ENOEXEC")
                  \/ n = read /\ Page([after EXCEPT !.resid = (@ + PAGE_SIZE - read) % WORD],
                                      PAGE_SIZE - read, "ok")
      /\ UNCHANGED <<file, i, segments, err, image>>

\* uiomovezeros(): a turn of its loop.
uiomovezeros ==
  LET amt == Min({ZEROS, loading.zeros})
  IN  /\ loading # NULL /\ loading.zeros > 0
      /\ uiomove(loading.uio, amt, [k \in 0..(amt - 1) |-> ZERO])
      /\ loading' = [loading EXCEPT !.zeros = @ - amt, !.uio = Moved(loading.uio, amt)]
      /\ UNCHANGED <<file, i, segments, err, image>>

\* pt_page_in(): the page is the program's, loaded or not; the next one gets
\* another frame.
Mapped ==
  /\ loading # NULL /\ loading.zeros = 0
  /\ image' = image \cup {[vaddr |-> loading.vaddr, bytes |-> frame, result |-> loading.result]}
  /\ frame' = [b \in 0..(PAGE_SIZE - 1) |-> JUNK] /\ loading' = NULL
  /\ UNCHANGED <<file, i, segments, err, panicked>>

Next ==
  /\ ~panicked
  /\ \/ load_elf \/ uiomovezeros \/ Mapped
     \/ \E k \in 1..Len(segments) : \E n \in 0..(segments[k].size - 1) :
          load_segment_page(segments[k], segments[k].vbase + n * PAGE_SIZE)

Spec == Init /\ [][Next]_vars

----------------------------------------------------------------------------
Regions == {file.phdrs[k] : k \in {m \in 1..Len(file.phdrs) : file.phdrs[m].type = "PT_LOAD"}}

\* Whether the file has a part of page p.
FromFile(p) == \E k \in 1..Len(segments) :
  LET s == segments[k]
  IN  p.vaddr \in s.vbase..(s.vbase + s.size * PAGE_SIZE - 1) /\ ReadSize(s, p.vaddr) > 0

\* "The segment on disk is located at file offset OFFSET and has length
\* FILESIZE ... the remaining portion of the in-memory segment should be
\* zero-filled": this is what the program finds in the pages that it has
\* touched, that the file has a part of and for which load_segment_page()
\* returned 0, in whatever order they come.  A page that could not be read to
\* its end has a beginning of it, and behind that what its frame held.
ImageIsExact ==
  \A ph \in Regions : \A a \in ph.vaddr..(ph.vaddr + ph.memsz - 1) :
    LET want == IF a < ph.vaddr + ph.filesz THEN ph.offset + a - ph.vaddr ELSE ZERO
    IN  \A p \in image : (p.vaddr = Aligned(a) /\ FromFile(p)) =>
          /\ p.result = "ok" => p.bytes[a % PAGE_SIZE] = want
          /\ p.result # "ok" => \/ p.bytes[a % PAGE_SIZE] = JUNK
                               \/ /\ p.bytes[a % PAGE_SIZE] = want
                                  /\ \A b \in 0..(a % PAGE_SIZE) : p.bytes[b] # JUNK

\* The same sentence of load_segment()'s comment for the pages the file has
\* nothing of: they are zero from end to end.
ZeroFilled == \A p \in image : FromFile(p) \/ \A b \in DOMAIN p.bytes : p.bytes[b] = ZERO

----------------------------------------------------------------------------
(* runprogram() and sys_execv() *)

VARIABLES call, args, as, at, argno, stackptr, location, mem

arg_vars == <<call, args, as, at, argno, stackptr, location, mem>>
Held == <<"held", 0, 0>>         \* a byte nobody has written

Sources == {"runprogram", "execv", "process_syscall"}

\* runprogram() is called in a new thread, sys_execv() by a program.
ArgsInit ==
  /\ call \in Sources
  /\ args \in BoundedSeq(Lens, MaxArgs + 1)
  /\ as = IF call = "runprogram" THEN "none" ELSE "old"
  /\ at = "begin" /\ argno = 0 /\ stackptr = TOP /\ location = 0
  /\ mem = [b \in 0..(TOP - 1) |-> Held]

nargs == Len(args)
rest == <<call, args, argno, stackptr, location, mem>>

\* sys_execv() checks the arguments (EFAULT, EINVAL, E2BIG) and copies them
\* into the kernel; runprogram() has them from the menu.
Check ==
  LET good == nargs <= MaxArgs /\ (call = "runprogram" \/ \A k \in 1..nargs : args[k] >= 1)
  IN  /\ at = "begin"
      /\ \/ good /\ at' = IF call = "process_syscall" THEN "open" ELSE "space"
         \/ call # "runprogram" /\ at' = "returned"
      /\ UNCHANGED <<rest, as>>

\* sys_execv() of process_syscall.c opens the program while it can still go
\* back; the others leave that to load_elf().
vfs_open ==
  /\ at = "open" /\ at' \in {"space", "returned"}
  /\ UNCHANGED <<rest, as>>

\* From here on there is no way back: the old address space is destroyed.
\* as_create() may be out of memory.
NewSpace ==
  /\ at = "space"
  /\ \/ as' = "new" /\ at' = "load"
     \/ as' = "none" /\ at' = "returned"
  /\ UNCHANGED rest

\* load_elf() and as_define_stack().
Load ==
  /\ at = "load"
  /\ at' \in {"frame", "returned"}
  /\ UNCHANGED <<rest, as>>

bug_stackFrameSize == 8 + FoldSeq(LAMBDA l, n : n + l + 4, 0, args)        \* no byte for the NUL

stackFrameSize == 8 + FoldSeq(LAMBDA l, n : n + l + 1 + 4, 0, args)

\* The stack pointer, a multiple of 8, and argc.
Frame ==
  LET down == TOP - stackFrameSize
  IN  /\ at = "frame" /\ at' = "copy" /\ argno' = 0
      /\ stackptr' = down - (down % 8)
      /\ location' = stackptr' + 4 + (nargs + 1) * 4
      /\ mem' = [b \in 0..(TOP - 1) |->
                   IF b \in stackptr'..(stackptr' + 3) THEN <<"word", nargs, b - stackptr'>>
                   ELSE mem[b]]
      /\ UNCHANGED <<call, args, as>>

\* copyout() and copyoutstr(), whose results nobody looks at: nothing at or
\* above TOP is written.  copyoutstr() is given strlen() as the most it may
\* copy, and does not get to the NUL.
CopyArg ==
  LET slot == stackptr + 4 + 4 * argno
      len == args[argno + 1]
      byte(b) == IF b \in slot..(slot + 3) THEN <<"word", location, b - slot>>
                 ELSE IF b \in location..(location + len - 1) THEN <<"char", argno + 1, b - location>>
                 ELSE mem[b]
  IN  /\ at = "copy" /\ argno < nargs
      /\ mem' = [b \in 0..(TOP - 1) |-> byte(b)]
      /\ location' = location + len + 1
      /\ argno' = argno + 1
      /\ UNCHANGED <<call, args, as, at, stackptr>>

\* argv[argc] is a null pointer.  All go to user mode here, but sys_execv() of
\* execv.c, which panics where it should.
Start ==
  LET slot == stackptr + 4 + 4 * argno
  IN  /\ at = "copy" /\ argno = nargs
      /\ mem' = [b \in 0..(TOP - 1) |->
                   IF b \in slot..(slot + 3) THEN <<"word", 0, b - slot>> ELSE mem[b]]
      /\ at' = IF call = "execv" THEN "panic" ELSE "started"
      /\ UNCHANGED <<call, args, as, argno, stackptr, location>>

Arguments == Frame \/ CopyArg \/ Start

runprogram == call = "runprogram" /\ (Check \/ NewSpace \/ Load \/ Arguments)

\* Of execv.c.
sys_execv == call = "execv" /\ (Check \/ NewSpace \/ Load \/ Arguments)

\* Of process_syscall.c.
sys_execv_2 == call = "process_syscall" /\ (Check \/ vfs_open \/ NewSpace \/ Load \/ Arguments)

ArgsNext == runprogram \/ sys_execv \/ sys_execv_2

ArgsSpec == ArgsInit /\ [][ArgsNext]_arg_vars

----------------------------------------------------------------------------
WordAt(b) == {w \in {mem[b][2]} : \A k \in 0..3 : mem[b + k] = <<"word", w, k>>}

\* The program finds its arguments, when md_usermode() is (or should be)
\* called: argc is their number, argv[i] points to the characters of argument
\* i, argv[argc] is null, and all of it is below the top of the stack.  The NUL
\* behind an argument is never copied; its place is below the top too, and no
\* other argument or pointer is put there, so that the string ends where it
\* should if the page came with zeros.
ArgsArrive ==
  at \in {"started", "panic"} =>
    /\ stackptr % 8 = 0
    /\ WordAt(stackptr) = {nargs}
    /\ \A j \in 1..nargs : \E s \in WordAt(stackptr + 4 * j) :
         /\ s + args[j] < TOP
         /\ \A k \in 0..(args[j] - 1) : mem[s + k] = <<"char", j, k>>
         /\ mem[s + args[j]] = Held
    /\ WordAt(stackptr + 4 + 4 * nargs) = {0}
=============================================================================
