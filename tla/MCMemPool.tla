------------------------------- MODULE MCMemPool -------------------------------
EXTENDS MemPool
MCPreNum == <<3, 1>>
MCPreLevel == <<1, 2>>
================================================================================
