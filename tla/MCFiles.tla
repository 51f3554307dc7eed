------------------------------ MODULE MCFiles ------------------------------
(* Two processes, three standard descriptors and one more, directories of  *)
(* three slots, an archive of one file.  A program may mount on /dev and   *)
(* create /dev/uart anew, as a file.                                       *)
EXTENDS Files

MCArchive == <<Step(<<"initramfs", "img">>, "file", <<1>>)>>
ASSUME ArchiveFits == Whole

MCPaths == {<<"dev">>, <<"dev", "uart">>, <<"dev", "framebuffer">>, <<"dev", "">>,
            <<"initramfs", "img">>}
ProcSymmetry == Permutations(Procs)
MCBufs == {<<1, 2>>}
=============================================================================
