------------------------------ MODULE Paging ------------------------------
(***************************************************************************)
(* The x86 page structures of HAL-OS (paging.c init_paging, paging.h) and  *)
(* the walk the MMU does through them.  Everything here is constant-level: *)
(* the structures are values, built by init_paging and then changed only   *)
(* in three fields (Remapped), which Kernel keeps as user_page and         *)
(* video_page.                                                             *)
(*                                                                         *)
(* An entry is a record of the fields the walk reads.  offset_31_12 is a   *)
(* 20-bit bit-field, so a value stored in it is taken modulo 2^20.  The    *)
(* init loops clear all PAGE_VEC entries of each array; an array here is   *)
(* a function over the entries the code sets afterwards, and an index      *)
(* outside its domain is one of the cleared, not-present entries.          *)
(***************************************************************************)
EXTENDS Integers, TLC

CONSTANTS
  TableArrayAddr,      \* (uint32_t)tableArray, placed by the linker
  VmemTableArrayAddr   \* (uint32_t)vmemTableArray

ALIGN_4KB          == 4096
FOUR_MB            == 4194304
PAGE_VEC           == 1024
PAGE_ADDR_B        == 20
VIDEO_MEMORY_PAGE  == 184
TERMINAL_VID_PAGE  == 186
TERMINAL_VIDEO     == 761856    \* 0xBA000
VIDEO              == 753664    \* 0xB8000
DIR1_PAGE          == 1024      \* 0x400
USER_SPACE_DIR_NUM == 32
VIDMAP_VMEM_LOC    == 35
VIDMAP_VMEM_LOC_PAGE == 10
MAX_TERMINALS      == 3

\* Both arrays are 4 KB aligned (__attribute__((aligned (ALIGN_4KB)))) and
\* live in the kernel's 4 MB page.
ASSUME \A a \in {TableArrayAddr, VmemTableArrayAddr} :
         a % ALIGN_4KB = 0 /\ FOUR_MB <= a /\ a < 2 * FOUR_MB

\* A store into the 20-bit offset_31_12 field.
Field20(v) == v % (2 ^ PAGE_ADDR_B)

\* The value of "x >> PAGING_OFFSET".
Shift12(x) == x \div ALIGN_4KB

Entry(present, us, ps, offset) ==
  [present |-> present, userSupervisor |-> us, pageSize |-> ps,
   offset_31_12 |-> Field20(offset)]

\* Mutant: the kernel's 4 MB page is left accessible to user code.
init_paging_kernel_user ==
  [directoryArray |->
     (0 :> Entry(1, 0, 0, Shift12(TableArrayAddr)))
     @@ (1 :> Entry(1, 1, 1, DIR1_PAGE))
     @@ (USER_SPACE_DIR_NUM :> Entry(1, 1, 1, Shift12(8388608)))
     @@ (VIDMAP_VMEM_LOC :> Entry(1, 1, 0, Shift12(VmemTableArrayAddr))),
   tableArray |->
     (VIDEO_MEMORY_PAGE :> Entry(1, 0, 0, Shift12(VIDEO)))
     @@ [i \in TERMINAL_VID_PAGE .. TERMINAL_VID_PAGE + MAX_TERMINALS - 1 |->
           Entry(1, 0, 0, Shift12(TERMINAL_VIDEO + (i - TERMINAL_VID_PAGE) * ALIGN_4KB))],
   vmemTableArray |->
     VIDMAP_VMEM_LOC_PAGE :> Entry(1, 1, 0, Shift12(VIDEO))]

(***************************************************************************)
(* init_paging: directory entry 0 points at tableArray (supervisor), 1 is  *)
(* the kernel's 4 MB page at 4 MB (supervisor), 32 is the user program's   *)
(* 4 MB page (user, at get_phys_addr(0)), 35 points at vmemTableArray      *)
(* (user).  tableArray maps video memory (184) and the three terminals'    *)
(* off-screen pages (186..188) to themselves; vmemTableArray[10] maps the  *)
(* vidmap page to video memory (user).                                     *)
(***************************************************************************)
init_paging ==
  [directoryArray |->
     (0 :> Entry(1, 0, 0, Shift12(TableArrayAddr)))
     @@ (1 :> Entry(1, 0, 1, DIR1_PAGE))
     @@ (USER_SPACE_DIR_NUM :> Entry(1, 1, 1, Shift12(8388608)))
     @@ (VIDMAP_VMEM_LOC :> Entry(1, 1, 0, Shift12(VmemTableArrayAddr))),
   tableArray |->
     (VIDEO_MEMORY_PAGE :> Entry(1, 0, 0, Shift12(VIDEO)))
     @@ [i \in TERMINAL_VID_PAGE .. TERMINAL_VID_PAGE + MAX_TERMINALS - 1 |->
           Entry(1, 0, 0, Shift12(TERMINAL_VIDEO + (i - TERMINAL_VID_PAGE) * ALIGN_4KB))],
   vmemTableArray |->
     VIDMAP_VMEM_LOC_PAGE :> Entry(1, 1, 0, Shift12(VIDEO))]

\* The structures after the kernel has stored user_frame into the user
\* page's directory entry (execute, halt, scheduler) and video_frame into
\* the video page and the vidmap page (scheduler, terminal_switch).
Remapped(user_frame, video_frame) ==
  LET s == init_paging IN
  [s EXCEPT !.directoryArray[USER_SPACE_DIR_NUM].offset_31_12 = Field20(user_frame),
            !.tableArray[VIDEO_MEMORY_PAGE].offset_31_12 = Field20(video_frame),
            !.vmemTableArray[VIDMAP_VMEM_LOC_PAGE].offset_31_12 = Field20(video_frame)]

(***************************************************************************)
(* The MMU's walk for a virtual address va in user or supervisor mode: the *)
(* physical address, or -1 for a page fault.  A directory entry with       *)
(* pageSize set maps 4 MB from its bits 31..22; bits 21..13 of such an     *)
(* entry are reserved and must be 0 (bit 12 is PAT, which the kernel       *)
(* never sets), else the access faults.  Otherwise the entry holds the     *)
(* physical address of a page table, which must be one of the two arrays.  *)
(* User mode needs userSupervisor set in every entry on the way.           *)
(***************************************************************************)
Fault == -1

TableAt(s, base) ==
  IF base = TableArrayAddr THEN s.tableArray ELSE s.vmemTableArray

Walk(s, va, user) ==
  LET d   == va \div FOUR_MB
      t   == (va \div ALIGN_4KB) % PAGE_VEC
      pde == s.directoryArray[d]
  IN  IF d \notin DOMAIN s.directoryArray THEN Fault
      ELSE IF pde.present = 0 \/ (user /\ pde.userSupervisor = 0) THEN Fault
      ELSE IF pde.pageSize = 1
           THEN IF pde.offset_31_12 % PAGE_VEC # 0 THEN Fault
                ELSE (pde.offset_31_12 \div PAGE_VEC) * FOUR_MB + (va % FOUR_MB)
      ELSE LET base == pde.offset_31_12 * ALIGN_4KB
           IN  IF base \notin {TableArrayAddr, VmemTableArrayAddr} THEN Fault
               ELSE LET pt == TableAt(s, base)
                    IN  IF t \notin DOMAIN pt THEN Fault
                        ELSE IF pt[t].present = 0 \/ (user /\ pt[t].userSupervisor = 0) THEN Fault
                        ELSE pt[t].offset_31_12 * ALIGN_4KB + (va % ALIGN_4KB)

\* The address vidmap stores into *screen_start for the program.
vidmap_address == VIDMAP_VMEM_LOC * FOUR_MB + VIDMAP_VMEM_LOC_PAGE * ALIGN_4KB

\* Every page user code can reach: the first virtual address of each entry
\* the code sets, the size it maps and where the walk takes it.  (Every
\* other address of such a page is mapped by the same entry.)
UserMappings(s) ==
  LET Pages4MB == {[va |-> d * FOUR_MB, size |-> FOUR_MB] : d \in DOMAIN s.directoryArray}
      Pages4KB == {[va |-> d * FOUR_MB + t * ALIGN_4KB, size |-> ALIGN_4KB] :
                     d \in DOMAIN s.directoryArray,
                     t \in DOMAIN s.tableArray \cup DOMAIN s.vmemTableArray}
      Sized(p) == p.size = IF s.directoryArray[p.va \div FOUR_MB].pageSize = 1
                           THEN FOUR_MB ELSE ALIGN_4KB
  IN  {[va |-> p.va, size |-> p.size, pa |-> Walk(s, p.va, TRUE)] :
         p \in {q \in Pages4MB \cup Pages4KB : Sized(q) /\ Walk(s, q.va, TRUE) # Fault}}

=============================================================================
