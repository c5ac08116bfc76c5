--------------------------- MODULE MC_Assessment ----------------------------
\* Enough inode numbers for the images of one publication and its recovery.
EXTENDS Assessment
MC_Inodes == 0..9
=============================================================================
