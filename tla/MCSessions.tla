------------------------------ MODULE MCSessions ------------------------------
(* Sessions with one browser.  OneTab: two requests that share a refresh.      *)
(* TwoTabs: another tab, that shares the cookies.                              *)
EXTENDS Sessions

CONSTANTS b1, t1, t2

OneTab == {<< <<b1, t1>>, 1>>, << <<b1, t1>>, 2>>}
TwoTabs == OneTab \cup {<< <<b1, t2>>, 1>>}
===============================================================================
