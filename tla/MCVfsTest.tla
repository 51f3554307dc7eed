----------------------------- MODULE MCVfsTest -----------------------------
EXTENDS VfsTest

MCArchive == <<Step(<<"initramfs", "vfs2.img">>, "file", <<6>>)>>
=============================================================================
