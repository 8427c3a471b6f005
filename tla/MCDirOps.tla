------------------------------ MODULE MCDirOps ------------------------------
EXTENDS DirOps

SlashedCalls == {"mknod", "mkdir", "rmdir"} \X {2}
=============================================================================
